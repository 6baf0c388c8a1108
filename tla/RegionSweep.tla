----------------------------- MODULE RegionSweep -----------------------------
(***************************************************************************)
(* parallel/discovery/regions: the bracketed runs of a text, with the      *)
(* separators directly inside each - found by one walk, or window by       *)
(* window with what a window cannot settle replayed in order.              *)
(***************************************************************************)
EXTENDS SplitPlans

(* _repeated_bodies, separators: what every arm of a repeated body begins  *)
(* with, however deep in an arm's groups the repetition is.                *)
RECURSIVE RepeatedBodies(_, _)
RepeatedBodies(items, rules) ==
    LET Bodies(item) ==
            LET atom == item.atom
            IN (IF UnlimitedItem(item) /\ (IsGroup(atom) \/ (IsRef(atom) /\ ~Unknown(atom, rules)))
                THEN {Below(atom, rules)} ELSE {})
               \cup (IF IsGroup(atom) THEN UNION {RepeatedBodies(arm, rules) : arm \in ToSet(atom.arms)}
                     ELSE {})
    IN UNION {Bodies(item) : item \in ToSet(items)}

Separators(ast) ==
    LET rules == RuleMap(ast)
        bodies == UNION {UNION {RepeatedBodies(arm, rules) : arm \in ToSet(r.body)} : r \in ToSet(ast.rules)}
        Lead(body) == IF <<>> \in ToSet(body) THEN <<>>
                      ELSE Agreed({LiteralChar(arm[1], rules) : arm \in ToSet(body)})
    IN UNION {ToSet(Lead(body)) : body \in bodies}

(* skip_leads: a character that may open two regions opens none.           *)
SkipLeads(regions) ==
    LET precise == Precise(ToSet(regions))
    IN SelectSeq(regions, LAMBDA r : {q \in precise : q.opening[1] = r.opening[1]} = {r})

(* scan_vocabulary and walk_roles: what the sweep watches for.             *)
Vocabulary(ast) ==
    LET pairs == PairRules(ast)
        openers == {p.opener : p \in ToSet(pairs)}
        marks == Separators(ast) \ openers
        watched == openers \cup {p.closer : p \in ToSet(pairs)} \cup marks
    IN [pairs |-> pairs, marks |-> marks,
        skips |-> SkipLeads(SelectSeq(Interiors(ast), LAMBDA r :
                    r.opening[1] \notin watched /\ Hides(RuleMap(ast), r, {<<c>> : c \in watched})))]
Leads(vocab) == {r.opening[1] : r \in ToSet(vocab.skips)}
Openers(vocab) == {p.opener : p \in ToSet(vocab.pairs)}
Closers(vocab) == {p.closer : p \in ToSet(vocab.pairs)}
RuleOf(vocab, opener) == (CHOOSE p \in ToSet(vocab.pairs) : p.opener = opener).rule
(* Two pairs with one closer: the later of them owns it.                   *)
OpenerOf(vocab, closer) == Last(SelectSeq(vocab.pairs, LAMBDA p : p.closer = closer)).opener

(* sweep_offsets, _sweep_window.                                           *)
Swept(vocab, string, lo, hi) ==
    LET watched == Leads(vocab) \cup Openers(vocab) \cup Closers(vocab) \cup vocab.marks
        Here(at) == CharAt(string, at) \in watched
    IN SelectSeq([k \in 1..(hi - lo) |-> lo + k - 1], Here)

-----------------------------------------------------------------------------
(* A frame of the stack, the region a popped one makes, and a mark in one. *)
Frame(at, char, rule) == [opener |-> at, char |-> char, marks |-> <<>>, rule |-> rule]
Made(frame, at, minSpan) ==
    IF frame.marks # <<>> /\ at - frame.opener >= minSpan
    THEN <<[opener |-> frame.opener, closer |-> at, rule |-> frame.rule, marks |-> frame.marks]>>
    ELSE <<>>
Marked(stack, at) ==
    IF stack = <<>> THEN stack
    ELSE [stack EXCEPT ![Len(stack)].marks = Append(@, at)]
Wanted(stack, opener) == stack # <<>> /\ Last(stack).char = opener

(* What an offset means on a stack: the branches both walks take, in order.*)
(* unmet is the walk after a closer, or a mark, no open bracket wants.      *)
Turn(vocab, string, walk, at, minSpan, unmet) ==
    LET char == CharAt(string, at)
        closer == char \in Closers(vocab)
        popped == Made(Last(walk.stack), at, minSpan)
    IN CASE char \in Openers(vocab) ->
                [walk EXCEPT !.stack = Append(@, Frame(at, char, RuleOf(vocab, char)))]
         [] char \notin Openers(vocab) /\ closer /\ Wanted(walk.stack, OpenerOf(vocab, char)) ->
                [walk EXCEPT !.stack = Front(@), !.out = @ \o popped]
         [] char \notin Openers(vocab) /\ walk.stack # <<>>
                /\ ~(closer /\ Wanted(walk.stack, OpenerOf(vocab, char))) ->
                IF ~closer \/ char \in vocab.marks
                THEN [walk EXCEPT !.stack = Marked(@, at)] ELSE walk
         [] OTHER -> unmet

(* walk_regions: interiors are skipped whole, and nothing outside every    *)
(* bracket counts.                                                         *)
WalkRegions(vocab, string, minSpan) ==
    LET Skip(char) == CHOOSE r \in ToSet(vocab.skips) : r.opening[1] = char
        Step(walk, at) ==
            CASE at < walk.skipTo -> walk
              [] at >= walk.skipTo /\ CharAt(string, at) \in Leads(vocab) ->
                    [walk EXCEPT !.skipTo = SkipDelimited(string, at, Skip(CharAt(string, at)))]
              [] OTHER -> Turn(vocab, string, walk, at, minSpan, walk)
        start == [stack |-> <<>>, out |-> <<>>, skipTo |-> 0]
    IN FoldLeft(Step, start, Swept(vocab, string, 0, Len(string))).out

-----------------------------------------------------------------------------
(* _window: what one window settles, and the rest as events in order.      *)
Event(kind, at, more) == <<[kind |-> kind, at |-> at, of |-> more]>>
(* Mutant: an unwanted closer is never the mark it also is.                *)
UnsettledPlain(vocab, at, char) ==
    IF char \in Closers(vocab) THEN Event("close", at, [opener |-> OpenerOf(vocab, char), mark |-> FALSE])
    ELSE Event("mark", at, <<>>)
Unsettled(vocab, at, char) ==
    IF char \in Closers(vocab)
    THEN Event("close", at, [opener |-> OpenerOf(vocab, char), mark |-> char \in vocab.marks])
    ELSE Event("mark", at, <<>>)
WindowEvents(vocab, string, lo, hi, minSpan) ==
    LET Step(walk, at) ==
            LET unmet == [walk EXCEPT !.out = @ \o Unsettled(vocab, at, CharAt(string, at))]
                after == Turn(vocab, string, walk, at, minSpan, unmet)
                made == SubSeq(after.out, Len(walk.out) + 1, Len(after.out))
            IN IF made # <<>> /\ "kind" \notin DOMAIN made[1]
               THEN [after EXCEPT !.out = walk.out \o Event("done", at, made[1])] ELSE after
        walked == FoldLeft(Step, [stack |-> <<>>, out |-> <<>>], Swept(vocab, string, lo, hi))
    IN walked.out \o [k \in DOMAIN walked.stack |->
                        [kind |-> "open", at |-> walked.stack[k].opener, of |-> walked.stack[k]]]

(* window_bounds.                                                          *)
WindowBounds(size, windows) ==
    LET step == size \div windows
    IN [k \in 1..windows |-> <<(k - 1) * step, IF k < windows THEN k * step ELSE size>>]

(* merge_windows: every window's events, against one stack.                *)
MergeWindows(chunks, minSpan) ==
    LET Replay(walk, event) ==
            CASE event.kind = "done" -> [walk EXCEPT !.out = Append(@, event.of)]
              [] event.kind = "open" -> [walk EXCEPT !.stack = Append(@, event.of)]
              [] event.kind = "close" /\ Wanted(walk.stack, event.of.opener) ->
                    [walk EXCEPT !.stack = Front(@), !.out = @ \o Made(Last(walk.stack), event.at, minSpan)]
              [] event.kind = "close" /\ ~Wanted(walk.stack, event.of.opener) ->
                    IF event.of.mark THEN [walk EXCEPT !.stack = Marked(@, event.at)] ELSE walk
              [] OTHER -> [walk EXCEPT !.stack = Marked(@, event.at)]
    IN FoldLeft(Replay, [stack |-> <<>>, out |-> <<>>], FlattenSeq(chunks)).out

(* par_find: windows, unless an interior may straddle them.                *)
Windowed(vocab, string, workers) ==
    vocab.skips = <<>> /\ Max({1, Min({workers, Len(string)})}) >= 2
ParFind(vocab, string, minSpan, workers) ==
    LET bounds == WindowBounds(Len(string), Max({1, Min({workers, Len(string)})}))
        Events(k) == WindowEvents(vocab, string, bounds[k][1], bounds[k][2], minSpan)
    IN IF Windowed(vocab, string, workers)
       THEN MergeWindows([k \in DOMAIN bounds |-> Events(k)], minSpan)
       ELSE WalkRegions(vocab, string, minSpan)
=============================================================================
