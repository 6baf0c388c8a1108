------------------------------- MODULE MCPda -------------------------------
(* What one predictive parse keeps: its walk of a text, and the product    *)
(* state its transactions are over.  A walk that never forks marks         *)
(* nothing, so the two share no step, and a behaviour is of one of them.   *)
(* There is a grammar for each way a decision can be settled, and every    *)
(* text over its characters up to a length.  One sequence and one mapping  *)
(* are enough for a mutation of a builder older than a mark, and of one    *)
(* begun inside it.                                                        *)
EXTENDS PdaWalk, ProductState

CONSTANT MaxText
VARIABLE driver
mcVars == <<walk, driver, vars>>

Lit(spelling) == Once(Spelling(spelling))
The(rule) == Once(To(rule))
A == OneOf({"a"})
B == OneOf({"b"})
AB == OneOf({"a", "b"})
Written(more) == Ast("S", [n \in DOMAIN more |-> Rule(more[n][1], more[n][2])])

(* By one character: brackets, lists, and a group of arms.                 *)
Brackets == Written(<<
    <<"S", <<<<Lit(<<"(">>), The("S"), Many(Group(<<<<Lit(<<",">>), The("S")>>>>)), Lit(<<")">>)>>, <<Once(A)>>>>>>>>)
(* By a window: two arms that begin alike, a comma that may close a list,  *)
(* an arm that may be empty before what follows the rule.                  *)
Alike == Written(<<<<"S", <<<<The("K"), Many(To("K"))>>>>>>,
    <<"K", <<<<Once(A), The("X")>>, <<Once(A), The("Y")>>>>>>,
    <<"X", <<<<Lit(<<"b">>), Maybe(B)>>>>>>, <<"Y", <<<<Lit(<<"c">>)>>>>>>>>)
Trailing == Written(<<<<"S", <<<<Once(A), Many(To("I")), Maybe(Spelling(<<",">>))>>>>>>,
    <<"I", <<<<Lit(<<",">>), Several(A)>>>>>>>>)
Ranges == Written(<<<<"S", <<<<Lit(<<"[">>), Several(To("R")), Maybe(To("D")), Lit(<<"]">>)>>>>>>,
    <<"R", <<<<Once(A), The("T")>>>>>>, <<"T", <<<<The("D"), Once(A)>>, <<>>>>>>, <<"D", <<<<Lit(<<"-">>)>>>>>>>>)
Final == Written(<<<<"S", <<<<Lit(<<"a">>), The("L"), Lit(<<"b", "c">>)>>>>>>,
    <<"L", <<<<Many(To("E"))>>>>>>, <<"E", <<<<Lit(<<"b", "a">>)>>>>>>>>)
(* By the order of the split: units of items that end in one mark, closed  *)
(* by more of it; a run before its next copy.                              *)
Sections == Written(<<<<"S", <<<<Many(To("U"))>>>>>>,
    <<"U", <<<<Several(To("I")), Lit(<<"n">>)>>>>>>, <<"I", <<<<Many(A), Lit(<<"n">>)>>>>>>>>)
Words == Written(<<<<"S", <<<<Several(To("W"))>>>>>>, <<"W", <<<<Several(A), Maybe(B)>>>>>>>>)
(* By where it stops: an exit no copy can begin at and go on.              *)
Exits == Written(<<<<"S", <<<<Several(To("Q"))>>>>>>, <<"Q", <<<<Many(AB), Once(B), The("E")>>>>>>,
    <<"E", <<<<Lit(<<";">>)>>>>>>>>)
(* What may be absent, and what may be absent inside it.                   *)
Absent == Written(<<<<"S", <<<<Maybe(To("N")), Lit(<<"c">>), Maybe(Group(<<<<The("N"), Once(B)>>>>))>>>>>>,
    <<"N", <<<<Maybe(A)>>>>>>>>)
(* What may not be there at all, and a class of all but one character.     *)
Barred == Written(<<<<"S", <<<<The("K"), Repeated(B, 0, 0), Many(To("K"))>>>>>>,
    <<"K", <<<<Once(A), Many(NoneOf({"a"}))>>>>>>>>)

Source == ("brackets" :> Brackets) @@ ("alike" :> Alike) @@ ("trailing" :> Trailing) @@ ("ranges" :> Ranges)
    @@ ("final" :> Final) @@ ("sections" :> Sections) @@ ("words" :> Words) @@ ("exits" :> Exits)
    @@ ("absent" :> Absent) @@ ("barred" :> Barred)
Analysed == [n \in DOMAIN Source |-> GrammarAnalysis(LiftOptionalNullables(Source[n]))]
MCGrammars == DOMAIN Source
MCAnalysisOf(g) == Analysed[g]

Letters == ("brackets" :> {"(", ")", ",", "a"}) @@ ("alike" :> {"a", "b", "c"}) @@ ("trailing" :> {"a", ","})
    @@ ("ranges" :> {"[", "]", "a", "-"}) @@ ("final" :> {"a", "b", "c"}) @@ ("sections" :> {"a", "n"})
    @@ ("words" :> {"a", "b"}) @@ ("exits" :> {"a", "b", ";"}) @@ ("absent" :> {"a", "b", "c"})
    @@ ("barred" :> {"a", "b"})
MCTextsOf(g) == UNION {[1..n -> Letters[g]] : n \in 0..MaxText}

Alikes == Permutations(Keys) \cup Permutations(Values)

(* The state is tried beside one of the walks.                             *)
MCInit ==
    /\ WalkInit /\ Init
    /\ driver \in {"walk"} \cup {d \in {"state"} : text = <<>> /\ "W" \in DOMAIN Analysis.rules}
MCNext ==
    /\ UNCHANGED driver
    /\ \/ driver = "walk" /\ WalkNext /\ UNCHANGED vars
       \/ driver = "state" /\ Next /\ UNCHANGED walk
MCSpec == MCInit /\ [][MCNext]_mcVars

-----------------------------------------------------------------------------
(* Types of both, and the runs kept on the stack of a walk spell what it   *)
(* has passed over, whatever it descended into or gave up.                 *)
TypesOK ==
    /\ driver = "walk" => WalkTypeOK
    /\ TypeOK
=============================================================================
