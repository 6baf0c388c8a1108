------------------------------ MODULE PdaWalk ------------------------------
(***************************************************************************)
(* Predictive descent over one text (pda/compiler/clones and               *)
(* pda/runtime/kernel): a stack of frames, each an arm of a rule or of a   *)
(* group that is being matched item by item, picked without a way back.    *)
(* Where it cannot go on it fails, and the caller asks the Earley engine.  *)
(*                                                                         *)
(* The grammars are those no rule of which is left to the engine or tried  *)
(* in order, so a frame never forks.  A clone is a rule under the          *)
(* characters that must come after it; its gates are read off the analysis *)
(* as it is entered.  What a clone builds is the tree of what it matched.  *)
(***************************************************************************)
EXTENDS PdaConflicts

Read == INSTANCE Readings

CONSTANTS
    Grammars,           \* the grammars walked
    AnalysisOf(_),      \* the analysis of one
    TextsOf(_)          \* the texts walked under one

VARIABLES
    grammar,    \* what the analysis settled of the grammar
    text, pos, stack, status, built
walk == <<grammar, text, pos, stack, status, built>>

(* A rule of characters alone that a carving could be stolen from, or that *)
(* takes its longest match, is read by other means.                        *)
Steals(a, arms) == TextOnly(arms) /\ (\E arm \in ToSet(arms) : Len(arm) > 1) /\ ~GreedyExact(a, arms)
ASSUME WalkedAssumption ==
    \A g \in Grammars :
        LET x == AnalysisOf(g)
        IN Conflicts(x) = {} /\ \A n \in DOMAIN x.taxonomy : ~x.taxonomy[n].longest /\ ~Steals(x.a, x.a.rules[n])

Analysis == grammar.a
Settled == grammar.taxonomy

CharFrom(at) == IF at < Len(text) THEN text[at + 1] ELSE Eof
LiteralAt(string, at) == at + Len(string) <= Len(text) /\ SubSeq(text, at + 1, at + Len(string)) = string
(* window_admits; past the end, all but a finite set admit only atEof.     *)
WindowAdmits(window, atEof) ==
    \A j \in DOMAIN window :
        LET c == CharFrom(pos + j - 1)
        IN IF window[j].negated THEN (atEof \/ c # Eof) /\ c \notin window[j].chars ELSE c \in window[j].chars

-----------------------------------------------------------------------------
(* Entering a clone (_enter, select_arm, select_gated): the first arm its  *)
(* window admits, or that begins with the character here, or the last of   *)
(* the arms that can be empty.                                             *)
Windows(rule, at) == UNION {{w[2]} : w \in {x \in Settled[rule].arms : x[1] = at /\ x[2] # <<>>}}
(* Mutant: a gated rule is entered by its first character.                 *)
AdmittedByOne(rule, at, arms) == {i \in DOMAIN arms : Has(SeqFirst(Analysis, arms[i]), CharFrom(pos))}
Admitted(rule, at, arms) ==
    LET begins == [i \in DOMAIN arms |-> SeqFirst(Analysis, arms[i])]
        led == {i \in DOMAIN arms : begins[i] # NoChar}
        through(window, atEof) == {i \in led : \E w \in window[i] : WindowAdmits(w, atEof)}
        here == {i \in led : Has(begins[i], CharFrom(pos))}
    IN IF Windows(rule, at) = {} THEN here
       ELSE UNION {IF through(w, FALSE) # {} THEN through(w, FALSE) ELSE through(w, TRUE) : w \in Windows(rule, at)}
Default(arms) == {i \in DOMAIN arms : SeqNullable(Analysis, arms[i])}
Chosen(rule, at, arms) ==
    IF Admitted(rule, at, arms) # {} THEN {Min(Admitted(rule, at, arms))}
    ELSE {i \in Default(arms) : \A j \in Default(arms) : j <= i}

Entered(rule, at, arms, tail, named) ==
    {[rule |-> rule, at |-> at \o <<i>>, tail |-> tail, items |-> arms[i], i |-> 1,
      runs |-> [k \in DOMAIN arms[i] |-> <<>>], named |-> named] : i \in Chosen(rule, at, arms)}
Clone(rule, tail) == Entered(rule, <<>>, Analysis.rules[rule], tail, TRUE)

Top == Last(stack)
Item == Top.items[Top.i]
(* What the clone of an item is cut against.                               *)
Cont == HardContAt(Analysis, Top.items, Top.i, Top.tail)
Child ==
    IF IsRef(Item.atom) THEN Clone(Item.atom.rule, Cont)
    ELSE Entered(Top.rule, Top.at \o <<Top.i>>, Item.atom.arms, Cont, FALSE)

-----------------------------------------------------------------------------
(* A loop's gate (_loop_gate), asked at an offset (gate_take).             *)
LoopVerdictHere ==
    (CHOOSE l \in Settled[Top.rule].loops : l[1] = Top.at \o <<Top.i>>)[2]
UnitEnd(gate, at) ==
    LET past == at + Len(gate.tail)
    IN /\ LiteralAt(gate.tail, at)
       /\ IF gate.starters # {} THEN past = Len(text) \/ \E s \in gate.starters : Has(s, CharFrom(past))
          ELSE past + Len(gate.close) = Len(text) /\ LiteralAt(gate.close, past)
GateTakes(at) ==
    CASE LoopVerdictHere.kind = "window" ->
            \E w \in LoopVerdictHere.spec : \A j \in DOMAIN w : Has(w[j], CharFrom(at + j - 1))
      [] LoopVerdictHere.kind = "greedy" -> \A gate \in LoopVerdictHere.spec : ~UnitEnd(gate, at)
      [] OTHER -> Has(Subtract(AtomFirst(Analysis, Item.atom), Cont), CharFrom(at))
Takes(count, at) ==
    \/ count < Item.lo
    \/ (UnlimitedItem(Item) \/ count < Item.hi) /\ GateTakes(at)

(* match_lit, match_cc: a whole run of a literal or a class at once.       *)
Width(at) ==
    CASE IsLiteral(Item.atom) -> IF LiteralAt(Item.atom.text, at) THEN {Len(Item.atom.text)} ELSE {}
      [] IsClass(Item.atom)   -> IF Has(Item.atom.set, CharFrom(at)) THEN {1} ELSE {}
RECURSIVE Span(_, _)
Span(run, at) ==
    IF ~Takes(Len(run), at) THEN {[run |-> run, at |-> at]}
    ELSE UNION {Span(Append(run, Read!Leaf(SubSeq(text, at + 1, at + n))), at + n) : n \in Width(at)}

-----------------------------------------------------------------------------
Begin(g, string) ==
    grammar = g /\ text = string /\ pos = 0 /\ stack = <<>> /\ status = "ready" /\ built = Read!Leaf(<<>>)
WalkInit == \E g \in Grammars : \E string \in TextsOf(g) : Begin(AnalysisOf(g), string)

Fail == status' = "failed" /\ stack' = <<>> /\ UNCHANGED <<grammar, text, pos, built>>
Push(frames) ==
    IF frames = {} THEN Fail
    ELSE \E frame \in frames : stack' = Append(stack, frame) /\ status' = "walking"
                               /\ UNCHANGED <<grammar, text, pos, built>>

(* run: the start rule, with the end of the input after it.                *)
Start == status = "ready" /\ Push(Clone(Analysis.start, Chars({Eof})))

(* _drive: one item of the frame on top.                                   *)
Under == status = "walking" /\ Top.i <= Len(Top.items)
OnTop(frame) == stack' = Append(Front(stack), frame)
MatchSpan ==
    /\ Under /\ (IsLiteral(Item.atom) \/ IsClass(Item.atom))
    /\ IF Span(<<>>, pos) = {} THEN Fail
       ELSE \E span \in Span(<<>>, pos) :
                /\ OnTop([Top EXCEPT !.i = @ + 1, !.runs[Top.i] = span.run])
                /\ pos' = span.at
                /\ UNCHANGED <<grammar, text, status, built>>
Descend ==
    /\ Under /\ (IsRef(Item.atom) \/ IsGroup(Item.atom))
    /\ Takes(Len(Top.runs[Top.i]), pos)
    /\ Push(Child)
PassOn ==
    /\ Under /\ (IsRef(Item.atom) \/ IsGroup(Item.atom))
    /\ ~Takes(Len(Top.runs[Top.i]), pos)
    /\ OnTop([Top EXCEPT !.i = @ + 1])
    /\ UNCHANGED <<grammar, text, pos, status, built>>
(* _complete; run refuses input that is left over.                         *)
Complete ==
    /\ status = "walking" /\ Top.i > Len(Top.items)
    /\ LET tree == Read!Node(IF Top.named THEN Top.rule ELSE "", Top.runs)
           under == stack[Len(stack) - 1]
       IN IF Len(stack) = 1
          THEN /\ built' = tree /\ stack' = <<>>
               /\ status' = IF pos = Len(text) THEN "done" ELSE "failed"
          ELSE /\ stack' = Append(Front(Front(stack)), [under EXCEPT !.runs[under.i] = Append(@, tree)])
               /\ UNCHANGED <<built, status>>
    /\ UNCHANGED <<grammar, text, pos>>

WalkNext == Start \/ MatchSpan \/ Descend \/ PassOn \/ Complete

-----------------------------------------------------------------------------
Passed == FlattenSeq([n \in DOMAIN stack |-> Read!SpelledOf(Read!Node("", stack[n].runs))])
WalkTypeOK ==
    /\ status \in {"ready", "walking", "done", "failed"} /\ pos \in 0..Len(text)
    /\ (status = "walking") = (stack # <<>>)
    /\ \A n \in DOMAIN stack : stack[n].i \in 1..(Len(stack[n].items) + 1)
    /\ status = "walking" => Passed = SubSeq(text, 1, pos)

Texts == Read!Over(Analysis.rules, text)
InLanguage == Read!Derives(Analysis.start, Texts)

(* A loop over single characters that stops where what must follow begins, *)
(* though a copy may begin there too.                                      *)
GivesWay ==
    \E n \in DOMAIN Analysis.rules : \E p \in Places(Analysis, n) :
        LET item == p.items[p.k]
            exits == HardContAt(Analysis, p.items, p.k, p.conts["hard"])
        IN UnlimitedItem(item) /\ IsClass(item.atom) /\ Overlaps(item.atom.set, exits)

(* What descent picks without a way back is what the whole grammar reads:  *)
(* a walk that ends has built the tree the split prefers of all the text   *)
(* has, and it gives up a text of the language only under a grammar with a *)
(* loop that stops at an exit, where the engine is asked again.            *)
AnswersAsGrammar ==
    /\ status = "done" => InLanguage /\ built = Read!AtomTree(To(Analysis.start), Texts, 0, Len(text))
    /\ status = "failed" => ~InLanguage \/ GivesWay

(* The sets the decisions are made from hold of every derivation in the    *)
(* text, not of those walked alone: what a rule begins with, holds, goes   *)
(* on with once complete and looks like through a window, and whether it   *)
(* is ever empty; and of a text that was read, what comes after a rule.    *)
Shows(window, at) == \A j \in DOMAIN window : Has(window[j], CharFrom(at + j - 1))
SeenAt(prefs, k, at, to) == \E p \in prefs : Shows(p.seen, at) /\ (Open(p, k) => to - at = Len(p.seen))
DerivationsBounded ==
    \A n \in DOMAIN Analysis.rules, at \in 0..Len(text) :
        LET ends == Read!AtomEnds(To(n), Texts, at)
        IN /\ (at \in ends) = (n \in Analysis.nullable)
           /\ \A to \in ends \ {at} :
                /\ Has(Analysis.first[n], CharFrom(at))
                /\ \A i \in at..(to - 1) : Has(Analysis.alphabet[n], CharFrom(i))
                /\ \A k \in Widths : SeenAt(RuleFirst(Analysis.rules, k, n), k, at, to)
           /\ \A to, more \in ends : to < more => Has(Analysis.extend[n], CharFrom(to))
RECURSIVE Nodes(_, _)
Nodes(tree, at) ==
    LET flat == FlattenSeq(tree.items)
        begins[j \in 1..(Len(flat) + 1)] ==
            IF j = 1 THEN at ELSE begins[j - 1] + Len(Read!SpelledOf(flat[j - 1]))
    IN {<<tree.rule, at + Len(Read!SpelledOf(tree))>>} \cup UNION {Nodes(flat[j], begins[j]) : j \in DOMAIN flat}
SetsBoundReadings ==
    /\ status = "ready" => DerivationsBounded
    /\ status = "done" =>
        \A node \in {x \in Nodes(built, 0) : x[1] # ""} :
            /\ Has(Analysis.follow["soft"][node[1]], CharFrom(node[2]))
            /\ \A k \in Widths : SeenAt(Analysis.windows[k].follow[node[1]], k, node[2], Len(text))
=============================================================================
