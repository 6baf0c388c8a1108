----------------------------- MODULE MaskOracle -----------------------------
(***************************************************************************)
(* What a mask is to be: a token is admissible when some accepted text     *)
(* goes on with it.  viable_prefix answers that by a parse of its own; it  *)
(* is defined here from the grammar alone, as EarleyForest defines the     *)
(* derivations of a text, and the cursors are held to it.                  *)
(*                                                                         *)
(* Two qualifications are the code's.  A trie is walked character by       *)
(* character, so no literal left whole is spelled by it: over the tables   *)
(* viable_prefix requires, split into characters, there is none.  And a    *)
(* cursor of token terminals reads its mask off those alone: a token that  *)
(* character terminals beside them would read is not admitted.             *)
(***************************************************************************)
EXTENDS EarleyForest, MaskCursor

(* The input with one more token, as the trie spells it or as a token      *)
(* terminal takes it: whole, by characters no class holds.                 *)
Walked(t) ==
    LET n == Len(text) IN
    [chars |-> text \o Spellings[t], tokens |-> bounds, breaks |-> marks \cup (n..(n + Len(Spellings[t])))]
Taken(t) ==
    LET n == Len(Spellings[t]) IN
    [chars |-> text \o [k \in 1..n |-> AnyChar], tokens |-> Put(bounds, Len(text), [id |-> t, length |-> n]),
     breaks |-> marks]
With(t) == IF ByTokens THEN Taken(t) ELSE Walked(t)
Viable(w) == <<tables.start, 0>> \in Begun(tables.arms, w, Spans(tables.arms, w), {})

(* A mask is exactly the tokens some accepted text goes on with, however   *)
(* the ids were edited since the chart was first built and whatever        *)
(* branches earlier masks explored on it and cut off.                      *)
MaskExact ==
    call = "mask" /\ (call' = "none") => admitted' = {t \in Tokens : Viable(With(t))}
MaskEqualsRecompute == [][MaskExact]_<<vars, cursor>>
=============================================================================
