---------------------------- MODULE EarleyKernel ----------------------------
(***************************************************************************)
(* The Earley kernel (parsing/earley/kernel/loop) and the recognizer that  *)
(* grows and truncates its chart (parsing/earley/resume.py).               *)
(*                                                                         *)
(* An item is <<arm, dot, origin>>; a column is the list of its items in   *)
(* the order they are filed, and the per-column indexes waiting, scannable *)
(* and seen are views of it: every item is filed under the symbol it faces *)
(* as it enters the list.  The kernel visits the items of one column in    *)
(* order, those filed meanwhile included; each visit is one step, and the  *)
(* scan that leads to the next column is one.                              *)
(*                                                                         *)
(* Over a text segmented into tokens the kernel is a TokenKernel, whose     *)
(* scan also jumps a whole token where one begins.                         *)
(*                                                                         *)
(* Not modelled: island delegates, the windowed longest_start_completion   *)
(* and the packing tiers.                                                  *)
(***************************************************************************)
EXTENDS EarleyTables

CONSTANTS Tables,       \* the compiled grammars a text may be parsed by, numbered
          Texts,        \* the texts they are parsed on
          Growable,     \* those a chart may be grown over, from the empty text
          Pieces,       \* the texts extend may append
          MaxText       \* the packed capacity: no text is longer

IsList(s) == s \in Seq(ToSet(s))
IsSymbol(sym) ==
    /\ sym.kind \in {"rule", "class", "literal", "run", "token"}
    /\ sym.kind = "literal" => IsList(sym.string)
IsTables(t) ==
    /\ t.start \in Rules(t.arms) /\ IsList(t.arms) /\ Solved(t)
    /\ \A a \in DOMAIN t.arms : IsList(t.arms[a].body) /\ \A sym \in ToSet(t.arms[a].body) : IsSymbol(sym)
CompiledTables(all) == {all[g] : g \in DOMAIN all}

ASSUME KernelAssumption ==
    /\ MaxText \in Nat
    /\ \A t \in CompiledTables(Tables) \cup CompiledTables(Growable) : IsTables(t)
    /\ \A w \in Texts : IsList(w) /\ Len(w) <= MaxText
    /\ \A w \in Pieces : IsList(w)

VARIABLES tables,       \* the tables this parse reads
          recordLinks,  \* whether it keeps families, or only recognises
          text,         \* the input
          bounds,       \* column -> the token that begins there and its length
          cols,         \* column -> its items
          predicted,    \* column -> the rules predicted there
          leo,          \* column -> rule -> its memoised Leo top, or NoItem
          links,        \* <<item, end>> -> its bucket of families
          groups,       \* <<rule, end>> -> the completions filed there since a promotion
          leoLinks,     \* <<top, end>> -> the bottom family of every chain that jumped to it
          topped,       \* column -> the rules all of whose arms are filed there
          junction,     \* the column being re-opened, or -1
          pos, at,      \* the column and the item the loop is at
          idle,         \* no call is running
          marks         \* where the text has ended, as mark() told, and rollback() has not passed

sppf == <<links, groups, leoLinks>>
given == <<tables, recordLinks, text, bounds>>
client == <<given, topped, junction, pos, idle, marks>>
vars == <<given, cols, predicted, leo, sppf, topped, junction, pos, at, idle, marks>>

-----------------------------------------------------------------------------
(* Items and what their dot faces.                                         *)
NoItem == <<0, 0, 0>>
Body(a) == tables.arms[a].body
RuleOf(it) == tables.arms[it[1]].rule
Advance(it) == <<it[1], it[2] + 1, it[3]>>
Origin(it) == it[3]
Complete(it) == it[2] = Len(Body(it[1]))
Facing(it) == Body(it[1])[it[2] + 1]
FacesRule(it, r) == ~Complete(it) /\ IsRule(Facing(it)) /\ Facing(it).name = r
FacesTerm(it) == ~Complete(it) /\ ~IsRule(Facing(it))
Empties(r) == IF r \in DOMAIN tables.empties THEN tables.empties[r] ELSE {}

(* The members of a list that are in a set, as they are listed.            *)
Among(list, set) ==
    LET Kept[n \in 0..Len(list)] ==
            IF n = 0 THEN <<>>
            ELSE IF list[n] \in set THEN Append(Kept[n - 1], list[n]) ELSE Kept[n - 1]
    IN Kept[Len(list)]
Waiting(i, r) == Among(cols[i], {it \in ToSet(cols[i]) : FacesRule(it, r)})

(* Append what the column has not seen: the dedup of every advanced item.  *)
Filed(col, items) ==
    LET File[n \in 0..Len(items)] ==
            IF n = 0 THEN col
            ELSE IF items[n] \in ToSet(File[n - 1]) THEN File[n - 1] ELSE Append(File[n - 1], items[n])
    IN File[Len(items)]
Advanced(items) == [k \in DOMAIN items |-> Advance(items[k])]

ArmsOf(r) == {a \in DOMAIN tables.arms : tables.arms[a].rule = r}
(* The dot-0 items of some arms at column i, in arm order.                 *)
ArmList(arms) == Among([a \in DOMAIN tables.arms |-> a], arms)
(* Mutant: the column is not packed into a seed.                           *)
SeedsUnpacked(arms, i) == [k \in DOMAIN ArmList(arms) |-> <<ArmList(arms)[k], 0, 0>>]
SeedsOf(arms, i) == [k \in DOMAIN ArmList(arms) |-> <<ArmList(arms)[k], 0, i>>]

Passes(a, w, i) ==
    AnyChar \in tables.gates[a] \/ (i < Len(w) /\ w[i + 1] \in tables.gates[a])
(* _seed: the arms whose FIRST gate lets the column's character pass.      *)
Gated(r, w, i) == SeedsOf({a \in ArmsOf(r) : Passes(a, w, i)}, i)
(* _file_seeds: every arm, or only those a gate may have dropped - here in *)
(* arm order, rule by rule in the code: a recognizer's column is a set to  *)
(* all that reads it.                                                      *)
EveryArm(r, i) == SeedsOf(ArmsOf(r), i)
DroppedArms(rules, i) == SeedsOf({a \in DOMAIN tables.arms : tables.arms[a].rule \in rules /\ AnyChar \notin tables.gates[a]}, i)

-----------------------------------------------------------------------------
(* Kernel(...), and run() up to the loop: the start rule is predicted.     *)
Init ==
    /\ recordLinks \in BOOLEAN
    /\ tables \in CompiledTables(IF recordLinks THEN Tables ELSE Growable)
    /\ text \in IF recordLinks THEN Texts ELSE {<<>>}
    /\ bounds = <<>>
    /\ cols = [i \in 0..Len(text) |-> IF i = 0 THEN Gated(tables.start, text, 0) ELSE <<>>]
    /\ predicted = [i \in 0..Len(text) |-> IF i = 0 THEN {tables.start} ELSE {}]
    /\ leo = [i \in 0..Len(text) |-> <<>>]
    /\ links = <<>> /\ groups = <<>> /\ leoLinks = <<>>
    /\ topped = <<>> /\ junction = -1
    /\ pos = 0 /\ at = 1 /\ idle = FALSE
    /\ marks = {Len(text)}

Visiting == ~idle /\ at <= Len(cols[pos])
Item == cols[pos][at]

Put(f, k, v) == [x \in DOMAIN f \cup {k} |-> IF x = k THEN v ELSE f[x]]
Families(k) == IF k \in DOMAIN links THEN links[k].families ELSE <<>>
Bucket(promoted, families) == [promoted |-> promoted, families |-> families]
WithFamily(all, k, family) ==
    IF k \notin DOMAIN all THEN Put(all, k, Bucket(FALSE, <<family>>))
    ELSE IF family \in ToSet(all[k].families) THEN all
    ELSE Put(all, k, Bucket(all[k].promoted, Append(all[k].families, family)))

-----------------------------------------------------------------------------
(* Predict - and at once past a target that may be empty, recording for    *)
(* each of its empty arms the handle its completion would have.            *)
(* Mutant: a re-opened column is gated like any other.                     *)
SeedsGated(r) == IF r \in predicted[pos] THEN <<>> ELSE Gated(r, text, pos)

Seeds(r) ==
    IF r \in predicted[pos] THEN <<>>
    ELSE IF pos = junction THEN EveryArm(r, pos) ELSE Gated(r, text, pos)
(* Mutant: what faces an empty rule waits for its completion.              *)
NotPast(r) == <<>>
PastEmpty(r) == IF Empties(r) = {} THEN <<>> ELSE <<Advance(Item)>>

Predict ==
    /\ Visiting /\ ~Complete(Item) /\ IsRule(Facing(Item))
    /\ LET r == Facing(Item).name
           handles == {<<Item, pos, <<a, Len(Body(a)), pos>>>> : a \in Empties(r)}
       IN
       /\ cols' = [cols EXCEPT ![pos] = Filed(@ \o Seeds(r), PastEmpty(r))]
       /\ predicted' = [predicted EXCEPT ![pos] = @ \cup {r}]
       /\ topped' = IF pos = junction /\ r \notin predicted[pos]
                    THEN Put(topped, pos, topped[pos] \cup {r}) ELSE topped
       /\ links' = IF recordLinks
                   THEN FoldSet(LAMBDA h, all : WithFamily(all, <<Advance(Item), pos>>, h), links, handles)
                   ELSE links
    /\ at' = at + 1
    /\ UNCHANGED <<given, leo, groups, leoLinks, junction, pos, idle, marks>>

(* A terminal waits for the scan.                                          *)
AwaitScan ==
    /\ Visiting /\ FacesTerm(Item)
    /\ at' = at + 1
    /\ UNCHANGED <<client, cols, predicted, leo, sppf>>

(* A completion over nothing is redundant: whoever faces a rule that may   *)
(* be empty has been advanced at its own visit.                            *)
SkipEmpty ==
    /\ Visiting /\ Complete(Item) /\ Origin(Item) = pos
    /\ at' = at + 1
    /\ UNCHANGED <<client, cols, predicted, leo, sppf>>

-----------------------------------------------------------------------------
(* Leo: the only waiter of a column, when the awaited rule is its last     *)
(* symbol (leo_sole).                                                      *)
SoleOf(wl) == IF Len(wl) = 1 /\ Complete(Advance(wl[1])) THEN wl[1] ELSE NoItem
Sole(i, r) == SoleOf(Waiting(i, r))

(* leo_resolve: the topmost item a chain of such waiters leads to, and the *)
(* tops memoised on the way, as <<column, rule, top>>.  A step within one  *)
(* column stops the climb.                                                 *)
Stop(i, r) == [top |-> NoItem, memos |-> {<<i, r, NoItem>>}]
Found(i, r, top, memos) == [top |-> top, memos |-> memos \cup {<<i, r, top>>}]
Resolved(i, r, sole, above) ==
    IF sole = NoItem \/ Origin(sole) = i THEN Stop(i, r)
    ELSE Found(i, r, IF above.top = NoItem THEN Advance(sole) ELSE above.top, above.memos)
MemoOr(i, r, climb) ==
    IF r \in DOMAIN leo[i] THEN [top |-> leo[i][r], memos |-> {}] ELSE climb

LeoResolve(from) ==
    LET Up[x \in (0..Len(text)) \X Rules(tables.arms)] ==
            LET sole == Sole(x[1], x[2])
            IN MemoOr(x[1], x[2], Resolved(x[1], x[2], sole, Up[<<Origin(sole), RuleOf(sole)>>]))
    IN Up[from]

Memoised(memos) ==
    [i \in DOMAIN leo |->
        [r \in DOMAIN leo[i] \cup {m[2] : m \in {n \in memos : n[1] = i}} |->
            IF r \in DOMAIN leo[i] THEN leo[i][r]
            ELSE (CHOOSE m \in memos : m[1] = i /\ m[2] = r)[3]]]

Completing == Visiting /\ Complete(Item) /\ Origin(Item) < pos
Waiters == Waiting(Origin(Item), RuleOf(Item))
ItsClimb == LeoResolve(<<Origin(Item), RuleOf(Item)>>)

(* _try_leo asks two levels at once: a chain of one is left to the         *)
(* completer, and so is one that leads nowhere.                            *)
LeoAsks(sole) == sole # NoItem /\ Sole(Origin(sole), RuleOf(sole)) # NoItem

(* Mutant: a second chain to one top is not kept.                          *)
DeferredOnce(top, family) ==
    IF <<top, pos>> \in DOMAIN leoLinks THEN leoLinks ELSE Put(leoLinks, <<top, pos>>, <<family>>)

(* What a jump defers: the bottom family of each chain to this top.        *)
Deferred(top, family) ==
    LET k == <<top, pos>> IN
    Put(leoLinks, k, Filed(IF k \in DOMAIN leoLinks THEN leoLinks[k] ELSE <<>>, <<family>>))

JumpTo(sole, climb) ==
    /\ LeoAsks(sole) /\ climb.top # NoItem
    /\ cols' = [cols EXCEPT ![pos] = Filed(@, <<climb.top>>)]
    /\ leo' = Memoised(climb.memos)
    /\ leoLinks' = IF recordLinks THEN Deferred(climb.top, <<sole, Origin(Item), Item>>) ELSE leoLinks

Jump ==
    /\ Completing /\ JumpTo(SoleOf(Waiters), ItsClimb)
    /\ at' = at + 1
    /\ UNCHANGED <<client, predicted, links, groups>>

-----------------------------------------------------------------------------
(* _index_completion: a key's first family is stored as it is; its second  *)
(* promotes it to the group of its rule and end - unless the rule may be   *)
(* empty - and from then on the group stands for the families to come.     *)
Joins(k) == IF k \in DOMAIN groups THEN Put(groups, k, Append(groups[k], Item)) ELSE groups

Indexed(wl) ==
    LET o == Origin(Item)
        r == RuleOf(Item)
        g == <<r, pos>>
        Index(acc, w) ==
            LET k == <<Advance(w), pos>>
                family == <<w, o, Item>>
            IN
            IF k \notin DOMAIN acc.links
            THEN [acc EXCEPT !.links = Put(@, k, Bucket(FALSE, <<family>>))]
            ELSE IF acc.links[k].promoted \/ family \in ToSet(acc.links[k].families) THEN acc
            ELSE IF Empties(r) # {}
            THEN [acc EXCEPT !.links = WithFamily(@, k, family)]
            ELSE [links |-> Put(acc.links, k, Bucket(TRUE, acc.links[k].families)),
                  groups |-> IF g \in DOMAIN acc.groups THEN acc.groups ELSE Put(acc.groups, g, <<Item>>)]
    IN FoldLeft(Index, [links |-> links, groups |-> Joins(g)], wl)

(* _complete: every item waiting on the finished rule is advanced.         *)
Refused(asks, climb) ==
    IF asks THEN climb.top = NoItem /\ leo' = Memoised(climb.memos) ELSE UNCHANGED leo

CompleteAll ==
    /\ Completing /\ Refused(LeoAsks(SoleOf(Waiters)), ItsClimb)
    /\ cols' = [cols EXCEPT ![pos] = Filed(@, Advanced(Waiters))]
    /\ IF recordLinks
       THEN /\ links' = Indexed(Waiters).links
            /\ groups' = IF Waiters = <<>> THEN groups ELSE Indexed(Waiters).groups
       ELSE UNCHANGED <<links, groups>>
    /\ at' = at + 1
    /\ UNCHANGED <<client, predicted, leoLinks>>

-----------------------------------------------------------------------------
(* _scan, when the column is closed: where a terminal lands that is faced  *)
(* at column i, or -1.                                                     *)
RunEnd(i, chars) ==
    CHOOSE j \in i..Len(text) :
        /\ \A k \in (i + 1)..j : text[k] \in chars
        /\ j < Len(text) => text[j + 1] \notin chars
Lands(sym, i) ==
    CASE sym.kind = "class"   -> IF text[i + 1] \in sym.chars THEN i + 1 ELSE -1
      [] sym.kind = "literal" -> IF IsPrefix(sym.string, SubSeq(text, i + 1, Len(text)))
                                 THEN i + Len(sym.string) ELSE -1
      [] sym.kind = "run"     -> IF RunEnd(i, sym.chars) - i >= sym.lo
                                 THEN RunEnd(i, sym.chars) ELSE -1
      [] sym.kind = "token"   -> IF i \in DOMAIN bounds /\ bounds[i].id \in sym.ids
                                 THEN i + bounds[i].length ELSE -1

LandingAt(j) ==
    Among(cols[pos], {it \in ToSet(cols[pos]) : FacesTerm(it) /\ Lands(Facing(it), pos) = j})

Scan ==
    /\ ~idle /\ at > Len(cols[pos]) /\ pos < Len(text)
    /\ cols' = [j \in DOMAIN cols |-> IF j > pos THEN Filed(cols[j], Advanced(LandingAt(j))) ELSE cols[j]]
    /\ links' = IF recordLinks
                THEN FoldSet(LAMBDA j, all :
                        FoldLeft(LAMBDA l, it : WithFamily(l, <<Advance(it), j>>, <<it, pos, <<>>>>),
                                 all, LandingAt(j)),
                        links, (pos + 1)..Len(text))
                ELSE links
    /\ pos' = pos + 1 /\ at' = 1 /\ junction' = -1
    /\ UNCHANGED <<given, predicted, leo, groups, leoLinks, topped, idle, marks>>

(* The last column is closed: run() or extend() returns.                   *)
Return ==
    /\ ~idle /\ at > Len(cols[pos]) /\ pos = Len(text)
    /\ idle' = TRUE /\ junction' = -1
    /\ UNCHANGED <<given, cols, predicted, leo, sppf, topped, pos, at, marks>>

-----------------------------------------------------------------------------
(* extend: new columns, and the old last one re-opened - the arms its      *)
(* close dropped, at the end of the input, are filed now, and it is closed *)
(* again from there; the columns before it are not scanned again.  Run     *)
(* terminals are refused.  mark() is taken at the end it reaches.          *)
HasRuns == \E x \in DOMAIN tables.arms : \E sym \in ToSet(Body(x)) : sym.kind = "run"
Late(n) == DroppedArms(predicted[n] \ (IF n \in DOMAIN topped THEN topped[n] ELSE {}), n)

Grown(f, n, new) == [i \in 0..n |-> IF i \in DOMAIN f THEN f[i] ELSE new]

Extend(piece) ==
    LET n == Len(text)  end == Len(text) + Len(piece) IN
    /\ idle /\ ~recordLinks /\ ~HasRuns /\ piece # <<>> /\ end <= MaxText
    /\ text' = text \o piece
    /\ cols' = [Grown(cols, end, <<>>) EXCEPT ![n] = @ \o Late(n)]
    /\ predicted' = Grown(predicted, end, {})
    /\ leo' = Grown(leo, end, <<>>)
    /\ topped' = Put(topped, n, (IF n \in DOMAIN topped THEN topped[n] ELSE {}) \cup predicted[n])
    /\ junction' = n /\ pos' = n /\ at' = Len(cols[n]) + 1
    /\ idle' = FALSE /\ marks' = marks \cup {end}
    /\ UNCHANGED <<tables, recordLinks, sppf>>

(* rollback drops every column past the mark, the column's indexes with it.*)
Cut(f, m) == [i \in 0..m |-> f[i]]
(* Mutant: the mark's own topped rules are purged as well.                 *)
ToppedBelow(m) == [i \in {c \in DOMAIN topped : c < m} |-> topped[i]]
ToppedTo(m) == [i \in {c \in DOMAIN topped : c <= m} |-> topped[i]]
(* Mutant: the memoised tops of the dropped columns are kept.              *)
TopsAll(m) == leo
TopsTo(m) == Cut(leo, m)

(* What may be marked, by a client that extends its chart.                 *)
Marks == IF recordLinks THEN {} ELSE 0..MaxText

(* rollback: the mark's own column keeps its late seeds, and their record. *)
Rollback(m) ==
    /\ idle /\ m < Len(text)
    /\ text' = SubSeq(text, 1, m)
    /\ cols' = Cut(cols, m) /\ predicted' = Cut(predicted, m) /\ leo' = TopsTo(m)
    /\ topped' = ToppedTo(m)
    /\ pos' = m /\ at' = Len(cols[m]) + 1
    /\ marks' = {c \in marks : c <= m}
    /\ UNCHANGED <<tables, recordLinks, sppf, junction, idle>>

-----------------------------------------------------------------------------
Close == Predict \/ AwaitScan \/ SkipEmpty \/ Jump \/ CompleteAll

Next ==
    \/ Close \/ Scan \/ Return
    \/ \E piece \in Pieces : Extend(piece) /\ UNCHANGED bounds
    \/ \E m \in Marks : m \in marks /\ Rollback(m) /\ UNCHANGED bounds

Spec == Init /\ [][Next]_vars
-----------------------------------------------------------------------------
(* A parse of a whole text has returned.                                   *)
Finished == idle /\ recordLinks

(* accept_items, and what frontier_viable reads off the last column.       *)
AcceptItems ==
    {it \in ToSet(cols[Len(text)]) : Complete(it) /\ RuleOf(it) = tables.start /\ Origin(it) = 0}
FrontierViable ==
    AcceptItems # {} \/ \E it \in ToSet(cols[Len(text)]) : ~Complete(it)

(* Types; a re-opened column is one the loop is closing or nothing is.     *)
TypeOK ==
    /\ tables \in CompiledTables(IF recordLinks THEN Tables ELSE Growable) /\ Len(text) <= MaxText
    /\ DOMAIN cols = 0..Len(text) /\ DOMAIN predicted = DOMAIN cols /\ DOMAIN leo = DOMAIN cols
    /\ \A i \in DOMAIN cols : \A it \in ToSet(cols[i]) :
        /\ it[1] \in DOMAIN tables.arms /\ it[2] \in 0..Len(Body(it[1])) /\ it[3] \in 0..i
        /\ it[2] = 0 => it[3] = i /\ RuleOf(it) \in predicted[i]
    /\ \A i \in DOMAIN topped : i \in DOMAIN cols /\ topped[i] \subseteq predicted[i]
    /\ junction \in {-1, pos} /\ pos \in DOMAIN cols /\ at \in 1..(Len(cols[pos]) + 1)
    /\ marks \subseteq DOMAIN cols

(* No item is filed twice: seeds skip the dedup, on the promise that no    *)
(* column and rule is ever seeded twice, re-opening and cutting included.  *)
FiledOnce == \A i \in DOMAIN cols : IsInjective(cols[i])

(* A memoised Leo top survives a cut that its column survives: it is still *)
(* what climbing the chart as it now stands would find.                    *)
LeoMemoFresh ==
    \A i \in DOMAIN cols : \A r \in DOMAIN leo[i] :
        leo[i][r] = LET sole == Sole(i, r)
                    IN Resolved(i, r, sole, LeoResolve(<<Origin(sole), RuleOf(sole)>>)).top
=============================================================================
