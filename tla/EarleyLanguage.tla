---------------------------- MODULE EarleyLanguage ----------------------------
(***************************************************************************)
(* What a grammar derives of a text, without a chart: the reference the    *)
(* kernel's columns are held against.  Where a terminal ends that begins   *)
(* at a place is TermEnds; a fact <<item, end>> says that the part of the  *)
(* arm before the dot spans the text from the item's origin to that end.   *)
(***************************************************************************)
EXTENDS EarleyKernel

(* An input is what a parse is given: characters, where tokens begin, and  *)
(* where a text that grew has ended, for no literal is spelled across such *)
(* a break: nobody looked further when it was scanned for.  A parse of its *)
(* own has none.                                                           *)
Input == [chars |-> text, tokens |-> bounds, breaks |-> marks]
Anew == [chars |-> text, tokens |-> bounds, breaks |-> {}]
Size(w) == Len(w.chars)
Unbroken(w, i, j) == \A k \in (i + 1)..(j - 1) : k \notin w.breaks
TermEnds(sym, w, i) ==
    {j \in (i + 1)..Size(w) :
        CASE sym.kind = "class"   -> j = i + 1 /\ w.chars[j] \in sym.chars
          [] sym.kind = "literal" -> SubSeq(w.chars, i + 1, j) = sym.string /\ Unbroken(w, i, j)
          [] sym.kind = "run"     -> /\ j - i >= sym.lo
                                     /\ \A k \in (i + 1)..j : w.chars[k] \in sym.chars
                                     /\ j < Size(w) => w.chars[j + 1] \notin sym.chars
          [] sym.kind = "token"   -> /\ i \in DOMAIN w.tokens /\ w.tokens[i].id \in sym.ids
                                     /\ j = i + w.tokens[i].length}

-----------------------------------------------------------------------------
Points == 0..Len(text)
ItemsTo(j) == UNION {{a} \X (0..Len(Body(a))) \X (0..j) : a \in DOMAIN tables.arms}
Facts == UNION {ItemsTo(j) \X {j} : j \in Points}

(* A set of facts that holds every consequence of its members: nothing     *)
(* spans the empty text, a terminal spans where it ends, and what faces a  *)
(* rule spans as far as a whole arm of the rule does from there.           *)
Deduced(w, D) ==
    /\ \A a \in DOMAIN tables.arms, i \in Points : <<<<a, 0, i>>, i>> \in D
    /\ \A f \in D : FacesTerm(f[1]) =>
            \A j \in TermEnds(Facing(f[1]), w, f[2]) : <<Advance(f[1]), j>> \in D
    /\ \A f, g \in D : Complete(g[1]) /\ FacesRule(f[1], RuleOf(g[1])) /\ Origin(g[1]) = f[2] =>
            <<Advance(f[1]), g[2]>> \in D

(* The least such set, and the texts the grammar derives.                  *)
Derivable(w, f) == \A D \in SUBSET Facts : Deduced(w, D) => f \in D
Derives(w) == \E a \in ArmsOf(tables.start) : Derivable(w, <<<<a, Len(Body(a)), 0>>, Len(text)>>)

(* Whenever no call runs, the last column holds an accepting item if and   *)
(* only if the grammar derives the text with no literal spelled across a   *)
(* break: prediction, gates, Leo's jumps, and whatever was appended,       *)
(* re-opened and cut off, lose and add nothing else.                       *)
Recognises == idle => (AcceptItems # {} <=> Derives(Input))

(* Tables whose terminals are single characters, runs and tokens, as       *)
(* split_literals makes of a grammar that quantifies no longer literal.    *)
CharGranular == \A a \in DOMAIN tables.arms : \A sym \in ToSet(Body(a)) : sym.kind # "literal"

(* Over such tables, and in a parse of a whole text, the chart says what a *)
(* parse of the text anew would: it accepts what the grammar derives.      *)
RecognisesAnew == idle /\ (recordLinks \/ CharGranular) => (AcceptItems # {} <=> Derives(Anew))
=============================================================================
