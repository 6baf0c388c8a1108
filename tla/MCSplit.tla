------------------------------- MODULE MCSplit -------------------------------
(* Grammars of every kind of plan, one pair of brackets or two, and texts   *)
(* over each one's characters, whether it derives them or not.              *)
EXTENDS SplitParse

Lit(spelling) == Once(Spelling(spelling))
The(rule) == Once(To(rule))
Run(rule) == Many(To(rule))
OfA == OneOf({"a"})
Arm(items) == <<items>>
Document(rules) == Ast("S", rules)
ManyUnits == Rule("S", Arm(<<Run("U")>>))
Separated(lead, arms) ==
    <<Rule("S", Arm(<<The("U"), Run("I")>>)), Rule("I", Arm(<<lead, The("U")>>)), Rule("U", arms)>>
Bracketed(opener, rule, closer) == <<Lit(<<opener>>), The(rule), Lit(<<closer>>)>>

Lines == Document(<<ManyUnits, Rule("U", Arm(<<Many(OfA), Lit(<<";">>)>>))>>)
Pairs == Document(<<ManyUnits, Rule("U", Arm(<<Once(OfA), Lit(<<";">>), Once(OfA), Lit(<<";">>)>>))>>)
Closings == Document(<<ManyUnits, Rule("U", Arm(<<Several(OfA), Once(OneOf({";", "."}))>>))>>)
Keyed == Document(<<ManyUnits,
    Rule("U", Arm(<<Once(OfA), Lit(<<":">>), Many(OneOf({"a", ";"})), Lit(<<";">>)>>))>>)
Paragraphs == Document(<<ManyUnits,
    Rule("U", Arm(<<Several(To("L")), Lit(<<"n">>)>>)), Rule("L", Arm(<<Several(OfA), Lit(<<"n">>)>>))>>)
Quotation == <<Lit(<<"q">>), Maybe(OneOf({"a", ";"})), Lit(<<"q">>), Lit(<<";">>)>>
Quoted == Document(<<ManyUnits, Rule("U", <<Quotation, <<Several(OfA), Lit(<<";">>)>>>>)>>)
Fenced == Document(<<ManyUnits, Rule("U", Arm(<<Maybe(OfA), The("V")>>)), Rule("V", Arm(Quotation))>>)
Tagged == Document(<<ManyUnits, Rule("U", Arm(<<Lit(<<"#">>), Many(OfA), Lit(<<";">>)>>))>>)
Short == Document(<<ManyUnits, Rule("U", Arm(<<Maybe(OneOf({"b"})), Lit(<<"a">>), Lit(<<";">>)>>))>>)
Nested == Document(Separated(Lit(<<",">>), <<Bracketed("(", "S", ")"), <<Once(OfA)>>>>))
Doubled == Document(Separated(Lit(<<"-", "-">>), Arm(<<Once(OfA), Maybe(Spelling(<<"-">>))>>)))
Leading == Document(Separated(Lit(<<"-", "-">>), Arm(<<Maybe(Spelling(<<"-">>)), Once(OfA)>>)))
(* Three that no proof licenses, as a document of theirs reads as more or   *)
(* fewer units.                                                             *)
Overrun == Document(<<ManyUnits, Rule("U", Arm(<<Many(OneOf({"a", ";"})), Lit(<<";">>)>>))>>)
Loose == Document(Separated(Lit(<<",">>), Arm(<<Once(OfA), Many(OneOf({"a", ","})), Once(OfA)>>)))
Either == Document(Separated(Lit(<<"-", "-">>),
    Arm(<<Maybe(Spelling(<<"-">>)), Once(OfA), Maybe(Spelling(<<"-">>))>>)))
Spaced == Ast("D",
    <<Rule("D", Arm(<<The("S"), Run("W")>>))>> \o Separated(The("C"), Arm(<<Several(OfA)>>))
        \o <<Rule("C", Arm(<<Lit(<<",">>), Run("W")>>)), Rule("W", Arm(<<Lit(<<" ">>)>>))>>)
Sections == Document(<<Rule("S", Arm(<<Several(To("U"))>>)),
    Rule("U", Arm(<<Lit(<<"#">>), Run("P")>>)),
    Rule("P", <<<<Once(OfA)>>, <<Lit(<<"!">>), Lit(<<"#">>)>>>>)>>)
Brackets == Document(<<Rule("S", Arm(<<The("B")>>)), Rule("B", <<Bracketed("(", "L", ")")>>),
    Rule("L", Arm(<<The("U"), Run("I"), Run("J")>>)),
    Rule("I", Arm(<<Lit(<<",">>), The("U")>>)), Rule("J", Arm(<<Lit(<<"]">>), The("U")>>)),
    Rule("U", <<<<The("B")>>, Bracketed("[", "L", "]"), <<Once(OfA)>>>>)>>)

(* Regions: items under a rule of their own, and on the bracket rule itself *)
(* with noise in its brackets, or in what separates its items.              *)
Alternatives == <<<<The("B")>>, <<Once(OfA)>>, <<Once(OneOf({"b"}))>>>>
Wrapping(units, more) == Document(<<Rule("S", Arm(<<The("B")>>)), Rule("U", units)>> \o more)
ListedItems == Wrapping(Alternatives,
    <<Rule("B", <<Bracketed("(", "L", ")")>>), Rule("L", Arm(<<The("U"), Run("I")>>)),
      Rule("I", Arm(<<Lit(<<",">>), The("U")>>))>>)
Blanks == <<Rule("W", Arm(<<Many(OneOf({" "}))>>))>>
Spread(opener, closer, comma) ==
    Wrapping(Alternatives, Blanks \o
        <<Rule("B", Arm(<<The("O"), The("U"), Run("I"), The("C")>>)), Rule("I", Arm(<<The("K"), The("U")>>)),
          Rule("O", Arm(opener)), Rule("C", Arm(closer)), Rule("K", Arm(comma))>>)
Airy == Spread(<<Lit(<<"(">>), The("W")>>, <<Lit(<<")">>), The("W")>>, <<Lit(<<",">>), The("W")>>)
Padded == Spread(<<Lit(<<"(">>)>>, <<The("W"), Lit(<<")">>)>>, <<The("W"), Lit(<<",">>)>>)

(* A case's texts: so many fragments, one after the other, or items in a     *)
(* bracket.                                                                 *)
Concatenated(fragments, count) ==
    UNION {{FlattenSeq(parts) : parts \in [1..n -> fragments]} : n \in (count - 1)..count}
InBrackets(items) ==
    UNION {{<<"(">> \o Tail(FlattenSeq([k \in DOMAIN list |-> <<",">> \o list[k]])) \o <<")">> :
                list \in [1..n -> items]} : n \in 1..3}
Case(name, ast, predictive, fragments, count) ==
    name :> [ast |-> ast, predictive |-> predictive, draws |-> {[U |-> <<>>]},
             texts |-> Concatenated(fragments, count)]
Regional(name, ast, predictive, draws, items) ==
    name :> [ast |-> ast, predictive |-> predictive, draws |-> {"U" :> draw : draw \in draws},
             texts |-> InBrackets(items)]

Cases ==
    Case("lines", Lines, TRUE, {<<"a">>, <<";">>}, 8)
    @@ Case("pairs", Pairs, TRUE, {<<"a">>, <<";">>}, 6)
    @@ Case("short", Short, TRUE, {<<"b">>, <<"a", ";">>, <<"b", "a", ";">>}, 4)
    @@ Case("closings", Closings, TRUE, {<<"a">>, <<".">>, <<"a", ";">>}, 5)
    @@ Case("keyed", Keyed, FALSE, {<<"a">>, <<":">>, <<";">>, <<"a", ":", "a", ";">>}, 4)
    @@ Case("paragraphs", Paragraphs, TRUE, {<<"a">>, <<"n">>, <<"a", "n", "n">>}, 5)
    @@ Case("quoted", Quoted, TRUE, {<<"q">>, <<";">>, <<"a", ";">>, <<"q", ";", "q", ";">>}, 4)
    @@ Case("fenced", Fenced, TRUE, {<<"a">>, <<"q">>, <<";">>, <<"q", ";", "q", ";">>}, 4)
    @@ Case("tagged", Tagged, TRUE, {<<"#">>, <<"a">>, <<";">>, <<"#", ";">>}, 5)
    @@ Case("nested", Nested, TRUE, {<<"a">>, <<"a", ",">>, <<"(">>, <<")">>, <<"(", "a", ",", "a", ")", ",">>}, 4)
    @@ Case("doubled", Doubled, FALSE, {<<"a">>, <<"-">>, <<"a", "-", "-">>}, 5)
    @@ Case("leading", Leading, TRUE, {<<"a">>, <<"-">>, <<"-", "-", "a">>}, 5)
    @@ Case("runs", Overrun, FALSE, {<<"a">>, <<";">>}, 5)
    @@ Case("loose", Loose, FALSE, {<<"a">>, <<",">>, <<"a", "a">>}, 5)
    @@ Case("either", Either, FALSE, {<<"a">>, <<"-">>, <<"a", "-", "-">>, <<"-", "-", "-", "a">>}, 4)
    @@ Case("spaced", Spaced, TRUE, {<<"a">>, <<" ">>, <<",">>, <<"a", ",", " ">>}, 4)
    @@ Case("sections", Sections, TRUE, {<<"#">>, <<"#", "a">>, <<"!">>, <<"!", "#">>}, 5)
    @@ Case("brackets", Brackets, FALSE, {<<"(">>, <<",">>, <<"[">>, <<"]">>, <<")">>, <<"(", "a", ",", "a">>}, 4)
    @@ Regional("listed", ListedItems, TRUE, {<<<<"a">>, <<"b">>, <<"(", "a", ")">>, <<"(", "b", ")">>>>, <<<<"(", "b", ")">>>>},
                {<<>>, <<"a">>, <<"b">>, <<"(", "b">>, <<"(", "a", ",", "a", ")">>, <<"(", "a", ",", "(", "b", ",", "a", ")", ",", "a", ")">>})
    @@ Regional("airy", Airy, TRUE, {<<<<"a">>, <<"b">>, <<"(", " ", "b", ")">>>>},
                {<<"a">>, <<" ", "a">>, <<"b", " ">>, <<"(", "a", ",", " ", "a", ")">>, <<"(", " ", "a", ",", "a", ")", " ">>})
PaddedCases ==
    Regional("padded", Padded, FALSE, {<<<<"b">>>>}, {<<"a">>, <<"a", " ">>, <<" ", "(", "a", ",", "a", ")">>})

AllCases == Cases @@ PaddedCases

(* Whether the pieces are predicted is what the analysis settles.           *)
Pda == INSTANCE PdaConflicts
ASSUME PredictedAssumption ==
    \A name \in DOMAIN AllCases : AllCases[name].predictive = Pda!Predictive(AllCases[name].ast)

MCAlphabet == {"a", "b", "q", "n", ";", ":", ".", ",", "-", " ", "#", "!", "(", ")", "[", "]"}
MCGrammars == AllCases
MCPadded == PaddedCases
MCTextsOf(g) == AllCases[g].texts
MCCores == {2, 3, 5}
MCSparse == <<2, 4>>
=============================================================================
