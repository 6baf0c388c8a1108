--------------------------- MODULE RegionPartition ---------------------------
(***************************************************************************)
(* parallel/discovery/partition: which of the regions of a text to divide, *)
(* and at which of their separators, so that each piece is one worker's    *)
(* share; and the texts that makes - every piece in its region's own       *)
(* brackets, and the shell, a stand-in where each holds a divided region.  *)
(*                                                                         *)
(* A share is size / workers, compared without dividing.  Pieces and items *)
(* are numbered from one; the shell's number as a holder is 0.             *)
(***************************************************************************)
EXTENDS CutSearch

Span(region) == region.closer - region.opener
Share(size, workers) == [size |-> size, workers |-> workers]
OverShare(width, share) == width * share.workers > share.size

(* bisect_left: how many offsets of an ascending list precede one.         *)
Preceding(offsets, at) == Cardinality({k \in DOMAIN offsets : offsets[k] < at})

-----------------------------------------------------------------------------
(* _nest: the innermost earlier region still open where one opens.         *)
Enclosing(found, region) == {r \in found : r.opener < region.opener /\ r.closer >= region.opener}
Innermost(regions) == CHOOSE r \in regions : \A other \in regions : other.opener <= r.opener
Children(found, region) ==
    {r \in found : Enclosing(found, r) # {} /\ Innermost(Enclosing(found, r)) = region}
Outermost(found) == {r \in found : Enclosing(found, r) = {}}

(* The first child of an item, where that child alone is over a share.     *)
Descended(found, region, share) ==
    LET kids == Children(found, region)
        Item(kid) == Preceding(region.marks, kid.opener)
    IN {kid \in kids : /\ OverShare(Span(kid), share)
                       /\ \A other \in kids : Item(other) = Item(kid) => kid.opener <= other.opener}

-----------------------------------------------------------------------------
(* Weights.before: the weight of a region's items before one, an item      *)
(* being its text and the separator after it less what its child sheds.    *)
(* sheds is a set of <<item, weight>>.                                     *)
WeightBefore(region, sheds, item) ==
    LET end == IF item <= Len(region.marks) THEN region.marks[item] ELSE region.closer
    IN IF item = 0 THEN 0
       ELSE end - region.opener - FoldSet(LAMBDA s, n : n + s[2], 0, {s \in sheds : s[1] < item})

(* _first: bisection over a test that, once passed, stays passed.          *)
RECURSIVE FirstPassing(_, _, _)
FirstPassing(passes, lo, hi) ==
    LET mid == (lo + hi) \div 2
    IN IF lo >= hi THEN lo
       ELSE IF passes[mid] THEN FirstPassing(passes, lo, mid) ELSE FirstPassing(passes, mid + 1, hi)

(* runs: greedy runs of adjacent items of at most a share; one is closed   *)
(* only over the floor, and a last one under it rejoins the one before.    *)
RunEndsAt(weights, start, share) ==
    LET items == Len(weights) - 1
        tested == (start + 1)..(items - 1)
        Weight(item) == weights[item + 1] - weights[start + 1]
    IN Max({FirstPassing([i \in tested |-> ClearsFloor({Weight(i)})], start + 1, items),
            FirstPassing([i \in tested |-> OverShare(Weight(i + 1), share)], start + 1, items)})
RECURSIVE RunStarts(_, _, _)
RunStarts(weights, start, share) ==
    LET next == RunEndsAt(weights, start, share)
    IN IF next >= Len(weights) - 1 THEN <<>> ELSE <<next>> \o RunStarts(weights, next, share)
LastRejoins(starts, weights) ==
    IF starts = <<>> \/ ClearsFloor({Last(weights) - weights[Last(starts) + 1]}) THEN starts ELSE Front(starts)
Runs(weights, share) == LastRejoins(RunStarts(weights, 0, share), weights)

-----------------------------------------------------------------------------
(* _divide: what of a region stays with its holder, and the divisions made *)
(* in and below it.                                                        *)
Division(region, cuts) == [region |-> region, cuts |-> cuts]
Divided(region, left, cuts, below) ==
    IF cuts # <<>> \/ (ClearsFloor({left}) /\ left < Span(region))
    THEN [left |-> 0, out |-> below \cup {Division(region, cuts)}]
    ELSE [left |-> left, out |-> below]
Closed(region, weights, starts, kids) ==
    Divided(region, Last(weights), [k \in DOMAIN starts |-> region.marks[starts[k]]],
            UNION {kids[kid].out : kid \in DOMAIN kids})
Weighed(region, weights, share, kids) == Closed(region, weights, Runs(weights, share), kids)
Shedding(region, share, kids) ==
    LET sheds == {<<Preceding(region.marks, kid.opener), Span(kid) - kids[kid].left>> : kid \in DOMAIN kids}
    IN Weighed(region, [n \in 1..(Len(region.marks) + 2) |-> WeightBefore(region, sheds, n - 1)], share, kids)
RECURSIVE Divide(_, _, _)
Divide(found, region, share) ==
    IF ~OverShare(Span(region), share) THEN [left |-> Span(region), out |-> {}]
    ELSE Shedding(region, share, [kid \in Descended(found, region, share) |-> Divide(found, kid, share)])

(* partition: top regions, largest first, until the shell is a share.      *)
ShippedWhole(region, done) ==
    IF done.left = Span(region) THEN [left |-> 0, out |-> done.out \cup {Division(region, <<>>)}] ELSE done
Taken(plan, region, done) ==
    [kept |-> plan.kept - (Span(region) - done.left), out |-> plan.out \cup done.out]
PartitionOf(size, found, workers) ==
    LET share == Share(size, workers)
        Ahead(one, other) == \/ Span(one) > Span(other)
                             \/ Span(one) = Span(other) /\ one.opener < other.opener
        Take(plan, region) ==
            IF ~OverShare(plan.kept, share) THEN plan
            ELSE Taken(plan, region, ShippedWhole(region, Divide(found, region, share)))
        plan == FoldLeft(Take, [kept |-> size, out |-> {}], SetToSortSeq(Outermost(found), Ahead))
        pieces == FoldSet(LAMBDA d, n : n + Len(d.cuts) + 1, 0, plan.out)
    IN IF pieces + (IF ClearsFloor({plan.kept}) THEN 1 ELSE 0) < 2 THEN <<>>
       ELSE SetToSortSeq(plan.out, LAMBDA d, e : d.region.opener < e.region.opener)

-----------------------------------------------------------------------------
(* Division.bounds, and where a piece lies in the text.                    *)
Bounds(division) ==
    <<division.region.opener + 1>> \o [k \in DOMAIN division.cuts |-> division.cuts[k] + 1]
        \o <<division.region.closer>>
Window(division, piece) ==
    LET bounds == Bounds(division)
    IN <<bounds[piece], bounds[piece + 1] - (IF piece < Len(bounds) - 1 THEN 1 ELSE 0)>>

(* units: the innermost other division around each, or the shell; there,   *)
(* the piece and that piece's item.                                        *)
Holder(divided, k) ==
    Max({0} \cup {j \in DOMAIN divided : /\ divided[j].region.opener < divided[k].region.opener
                                         /\ divided[j].region.closer >= divided[k].region.opener})
Place(division, at) ==
    LET piece == Cardinality({n \in DOMAIN Bounds(division) : Bounds(division)[n] <= at})
    IN [piece |-> piece,
        item |-> 1 + Preceding(division.region.marks, at) - Preceding(division.region.marks, Bounds(division)[piece])]
HeldBy(divided, owner, piece) ==
    SelectSeq([k \in DOMAIN divided |-> k], LAMBDA k :
        /\ Holder(divided, k) = owner
        /\ owner # 0 => Place(divided[owner], divided[k].region.opener).piece = piece)

(* render: each region's interior replaced, its brackets kept.             *)
Rendered(string, window, regions, keep) ==
    LET Stub(done, n) ==
            [at |-> regions[n].closer,
             text |-> done.text \o SubSeq(string, done.at + 1, regions[n].opener + 1) \o keep[n]]
        stubs == FoldLeft(Stub, [at |-> window[1], text |-> <<>>], [n \in DOMAIN regions |-> n])
    IN stubs.text \o SubSeq(string, stubs.at + 1, window[2])
Rendering(string, divided, held, window, keep) ==
    Rendered(string, window, [n \in DOMAIN held |-> divided[held[n]].region], [n \in DOMAIN held |-> keep[held[n]]])

(* _pieces, _Stubs: the text of a piece, and of the shell.                 *)
PieceText(string, divided, owner, piece, keep) ==
    LET region == divided[owner].region
    IN <<CharAt(string, region.opener)>>
          \o Rendering(string, divided, HeldBy(divided, owner, piece), Window(divided[owner], piece), keep)
          \o <<CharAt(string, region.closer)>>
ShellText(string, divided, keep) ==
    Rendering(string, divided, HeldBy(divided, 0, 0), <<0, Len(string)>>, keep)

(* Where a division is held: the text of the unit that holds it.           *)
PieceOf(divided, k) == Place(divided[Holder(divided, k)], divided[k].region.opener)
HolderText(string, divided, k, keep) ==
    IF Holder(divided, k) = 0 THEN ShellText(string, divided, keep)
    ELSE PieceText(string, divided, Holder(divided, k), PieceOf(divided, k).piece, keep)
=============================================================================
