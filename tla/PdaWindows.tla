---------------------------- MODULE PdaWindows ----------------------------
(***************************************************************************)
(* Looking further ahead than one character (pda/analysis/gates/windows    *)
(* and kwindow): what a part, and what may follow it, look like through a  *)
(* window of k characters, and the decisions that separate there.          *)
(*                                                                         *)
(* A prefix that ENDs is a complete derivation, one with MORE goes on past *)
(* the window, and of an UNKnown one nothing is promised past what was     *)
(* seen.  A rule met again on its own path at one width is unknown; the    *)
(* memo of prefixes and the cap on how many are kept are left out.         *)
(***************************************************************************)
EXTENDS PdaPredicates

Prefix(seen, state) == [seen |-> seen, state |-> state]
Nothing == Prefix(<<>>, "END")
Poison == {Prefix(<<>>, "UNK")}
Clipped(seen, room) == SubSeq(seen, 1, Min({room, Len(seen)}))
Each(characters) == [i \in DOMAIN characters |-> Chars({characters[i]})]
Open(p, width) == p.state = "END" /\ Len(p.seen) < width

(* _apply.                                                                 *)
Extended(states, k, through) ==
    UNION {IF Open(p, k) THEN {Prefix(p.seen \o q.seen, q.state) : q \in through[k - Len(p.seen)]}
           ELSE {p} : p \in states}

(* FIRST_r under a window of k.                                            *)
RECURSIVE AtomPrefixes(_, _, _, _, _), ArmPrefixes(_, _, _, _, _)
AtomPrefixes(rules, k, atom, r, busy) ==
    CASE IsLiteral(atom) ->
            {Prefix(Each(Clipped(atom.text, r)), IF Len(atom.text) <= r THEN "END" ELSE "MORE")}
      [] IsClass(atom)   -> {Prefix(<<atom.set>>, "END")}
      [] Unknown(atom, rules) \/ <<atom, r>> \in busy -> Poison
      [] OTHER -> UNION {ArmPrefixes(rules, k, arm, r, busy \cup {<<atom, r>>}) :
                            arm \in ToSet(Below(atom, rules))}
ArmPrefixes(rules, k, items, r, busy) ==
    LET Unrolled(states, item) ==
            LET through == [room \in 1..k |-> AtomPrefixes(rules, k, item.atom, room, busy)]
                reps == IF UnlimitedItem(item) THEN r ELSE Min({item.hi, r})
                copies[n \in 0..reps] == IF n = 0 THEN states ELSE Extended(copies[n - 1], k, through)
                within == UNION {copies[n] : n \in item.lo..reps}
                past == IF item.lo > reps
                        THEN {Prefix(p.seen, IF p.state = "END" THEN "MORE" ELSE p.state) : p \in copies[reps]}
                        ELSE {}
            IN {Prefix(Clipped(p.seen, r), IF Len(p.seen) <= r THEN p.state ELSE "MORE") : p \in within \cup past}
    IN FoldLeft(LAMBDA states, item : IF \E p \in states : Open(p, r) THEN Unrolled(states, item) ELSE states,
                {Nothing}, items)
First(rules, k, items) == ArmPrefixes(rules, k, items, k, {})
RuleFirst(rules, k, rule) == AtomPrefixes(rules, k, To(rule), k, {})

-----------------------------------------------------------------------------
(* extend_follow: short complete prefixes go on into what follows.         *)
OneDeep(cs) == IF cs = NoChar THEN {} ELSE {Prefix(<<cs>>, "UNK")}
ExtendFollow(prefs, follow, k) ==
    LET onward == [room \in 1..k |->
            {Prefix(Clipped(f.seen, room), IF Len(f.seen) > room THEN "MORE" ELSE f.state) : f \in follow}]
    IN IF follow = {} THEN prefs ELSE Extended(prefs, k, onward)

(* FollowWindows: FOLLOW_k.  What is not yet known to be followed by       *)
(* anything contributes no short prefix.                                   *)
RestWindows(fw, items, i, tail) ==
    LET again == IF Repeats(items[i]) THEN <<[items[i] EXCEPT !.lo = 0]>> ELSE <<>>
        prefs == First(fw.rules, fw.k, again \o After(items, i))
    IN IF tail = {} THEN {p \in prefs : ~Open(p, fw.k)} ELSE ExtendFollow(prefs, tail, fw.k)
RECURSIVE ArmSites(_, _, _)
ArmSites(fw, items, tail) ==
    UNION {LET atom == items[i].atom
               rest == RestWindows(fw, items, i, tail)
           IN CASE IsRef(atom)   -> {<<atom.rule, rest>>}
                [] IsGroup(atom) -> UNION {ArmSites(fw, arm, rest) : arm \in ToSet(atom.arms)}
                [] OTHER         -> {}
           : i \in DOMAIN items}
AllSites(fw) ==
    UNION {UNION {ArmSites(fw, arm, fw.follow[n]) : arm \in ToSet(fw.rules[n])} : n \in DOMAIN fw.rules}
SiteWindows(fw, rule) ==
    {site[2] : site \in {s \in AllSites(fw) : s[1] = rule}} \cup {eof \in {{Nothing}} : rule = fw.start}

RECURSIVE GrowWindows(_)
GrowWindows(fw) ==
    LET sites == AllSites(fw)
        more == [fw EXCEPT !.follow = [n \in DOMAIN @ |-> @[n] \cup UNION {s[2] : s \in {x \in sites : x[1] = n}}]]
    IN IF more = fw THEN fw ELSE GrowWindows(more)
FollowWindows(rules, start, k) ==
    GrowWindows([rules |-> rules, start |-> start, k |-> k,
                 follow |-> [[n \in DOMAIN rules |-> {}] EXCEPT ![start] = {Nothing}]])

-----------------------------------------------------------------------------
(* collide: whether a text can look like both.  Asked at the end of the    *)
(* input, one that ends where the other has more cannot; asked at some     *)
(* exits, only a text that begins with one of them counts.                 *)
Shared(a, b) == 1..Min({Len(a.seen), Len(b.seen)})
Collide(a, b) == \A i \in Shared(a, b) : Overlaps(a.seen[i], b.seen[i])
EndsBefore(a, b) == Len(a.seen) < Len(b.seen) /\ a.state = "END"
CollideAtExits(a, b, exits) ==
    /\ Collide(a, b)
    /\ ~EndsBefore(a, b) /\ ~EndsBefore(b, a)
    /\ Shared(a, b) # {} => Overlaps(Meeting(a.seen[1], b.seen[1]), exits)

Separable(sets) ==
    \A i, j \in DOMAIN sets : i < j => \A a \in sets[i], b \in sets[j] : ~Collide(a, b)

MaxK == 3
FollowLoopK == 2
Widths == 2..MaxK
(* The depths a decision is asked at: a width, and what follows there.     *)
FollowDepths(cs) == [n \in 1..(MaxK - 1) |-> [k |-> n + 1, follow |-> OneDeep(cs)]]
WindowDepths(a, rule) == [n \in 1..(MaxK - 1) |-> [k |-> n + 1, follow |-> a.windows[n + 1].follow[rule]]]

(* first_separating: the sides' windows at the first depth that separates  *)
(* them; <<>> when none does.                                              *)
Gate(rules, sides, depths) ==
    LET at(n) == [i \in DOMAIN sides |->
                    ExtendFollow(First(rules, depths[n].k, sides[i]), depths[n].follow, depths[n].k)]
        apart == {n \in DOMAIN depths : Separable(at(n))}
    IN IF apart = {} THEN <<>> ELSE at(Min(apart))
WindowsOf(prefs) == {p.seen : p \in prefs}

LoopSides(items, k) == <<<<[items[k] EXCEPT !.lo = 1]>> \o After(items, k), After(items, k)>>

RECURSIVE RefsIn(_, _)
RefsIn(items, rule) ==
    FoldLeft(LAMBDA n, item :
                CASE IsRef(item.atom)   -> n + (IF item.atom.rule = rule THEN 1 ELSE 0)
                  [] IsGroup(item.atom) ->
                        n + FoldLeft(LAMBDA m, arm : m + RefsIn(arm, rule), 0, item.atom.arms)
                  [] OTHER              -> n, 0, items)
RuleReferences(rules, rule) ==
    MapThenSumSet(LAMBDA n : FoldLeft(LAMBDA m, arm : m + RefsIn(arm, rule), 0, rules[n]), DOMAIN rules)

(* The depth at which the loop that ends an arm is asked about.            *)
ArmFinalLoopDepths(a, items, k, rule) ==
    LET follow == a.windows[FollowLoopK].follow[rule]
    IN IF k = Len(items) /\ RuleReferences(a.rules, rule) = 1 /\ follow # {}
       THEN <<[k |-> FollowLoopK, follow |-> follow]>> ELSE <<>>

(* stop_exit_settles: no site of the rule lets a text go on both ways at   *)
(* an exit.                                                                *)
StopExitSettles(a, items, k, rule, exits) ==
    LET fw == a.windows[FollowLoopK]
        side(n, site) == ExtendFollow(First(a.rules, fw.k, LoopSides(items, k)[n]), site, fw.k)
    IN \A site \in SiteWindows(fw, rule) :
            \A take \in side(1, site), stop \in side(2, site) : ~CollideAtExits(take, stop, exits)
=============================================================================
