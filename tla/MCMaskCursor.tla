---------------------------- MODULE MCMaskCursor ----------------------------
(* The chart of a whole text, and one that is grown: under a client that   *)
(* extends it and cuts it back as it likes, and under a mask cursor.       *)
EXTENDS MCAuthored, MaskOracle

Vocabulary == (1 :> <<"a">>) @@ (2 :> <<"b">>) @@ (3 :> <<"a", "b">>)

(* Grammars over its tokens, one of them with characters beside, and two  *)
(* with a literal no scan splits: it may cross the end of a token.         *)
One == TokenOf({1})
AB == Literal(<<"a", "b">>)
Tokenised == <<
    From(<<<<One, S>>, <<TokenOf({2, 3})>>>>, <<>>),
    From(<<<<One, S, TokenOf({1, 3})>>, <<T>>>>, <<<<TokenOf({2}), T>>, <<>>>>),
    From(<<<<One, b, S>>, <<AB, T>>, <<>>>>, <<<<TokenOf({3})>>>>)
    >>
Quantified == <<
    From(<<<<AB, S>>, <<a>>, <<b, S>>, <<>>>>, <<>>)
    >>
Growing == AllOf(Plain \o Tokenised \o Quantified)
=============================================================================
