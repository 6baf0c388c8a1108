------------------------------ MODULE CutSearch ------------------------------
(***************************************************************************)
(* parallel/discovery/scan, parallel/plan/cuts and parallel/policy, with   *)
(* the cut chooser of discovery/regions: where the marks of a plan stand   *)
(* at depth 0 in one text, and which of them it is cut at.                 *)
(*                                                                         *)
(* An ascending list of offsets is a set of them; what is asked for        *)
(* nearest first is a set and the order Nearest picks by.                  *)
(***************************************************************************)
EXTENDS SplitPlans

CONSTANTS
    MinChunk,   \* the least text one worker should own
    MinPiece,   \* and the least one piece may
    MinScan,    \* the least text a scan's window should own
    Stretch,    \* what a search reads first on each side of its target
    Sparse,     \* how far it reads before it calls a plan sparse: two bounds
    Available,  \* the workers the machine has
    SpareFrom   \* and how many of them make one worth sparing

ASSUME CutSearchAssumption ==
    /\ {MinChunk, MinPiece, MinScan, Stretch, Available, SpareFrom} \subseteq Nat \ {0}
    /\ MinPiece <= MinChunk
    /\ Sparse[1] <= Sparse[2]

-----------------------------------------------------------------------------
(* capacity, worker_count, piece_count and clears_floor.                   *)
Capacity(size) == size \div MinChunk
WorkerCount(size, splits, cores) == Max({1, Min({cores, Capacity(size), splits + 1})})
PieceCount(workers) ==
    IF workers >= Available /\ Available >= SpareFrom THEN workers - 1 ELSE workers
ClearsFloor(widths) == \A width \in widths : width >= MinPiece

-----------------------------------------------------------------------------
(* Scanner.drift: openers minus closers that start in [lo, hi).            *)
Drift(string, scanner, lo, hi) ==
    LET Those(chars) == Cardinality({at \in lo..(hi - 1) : CharAt(string, at) \in chars})
    IN Those(scanner.openers) - Those(scanner.closers)

Occurs(string, marks, at) == \E mark \in marks : StartsWith(string, mark, at)

(* Scanner.level: the marks that start in [lo, hi) at depth 0, from the    *)
(* depth at lo.                                                            *)
LevelMarks(string, scanner, lo, hi, base) ==
    {at \in lo..(hi - 1) : Occurs(string, scanner.marks, at)
                            /\ base + Drift(string, scanner, lo, at) = 0}

(* Scanner.walk: unit by unit, a region skipped where a unit begins.       *)
RECURSIVE WalkFrom(_, _, _)
WalkFrom(string, scanner, at) ==
    LET Onward(found) ==
            LET mark == Min(found)
            IN {mark} \cup WalkFrom(string, scanner, mark + Min({Len(m) : m \in
                                {n \in scanner.marks : StartsWith(string, n, mark)}}))
        From(after) == {o \in after..(Len(string) - 1) : Occurs(string, scanner.marks, o)}
        Marked(found) == IF found = {} THEN {} ELSE Onward(found)
    IN IF at >= Len(string) THEN {} ELSE Marked(From(SkipOpaque(string, at, scanner.opaque)))

(* Level: a text under a scanner, and its marks once they are listed.      *)
Level(scanner, string, workers) ==
    [scanner |-> scanner, text |-> string, workers |-> workers, listed |-> {}]

(* whole: every mark, from windows that each count the depth they begin at.*)
Windows(workers, size) == Min({PieceCount(workers), Max({1, size \div MinScan})})
ByWindows(level, windows) ==
    LET size == Len(level.text)
        Bound(k) == IF k = windows THEN size ELSE k * (size \div windows)
    IN UNION {LevelMarks(level.text, level.scanner, Bound(k), Bound(k + 1),
                         Drift(level.text, level.scanner, 0, Bound(k))) : k \in 0..(windows - 1)}
EveryMark(level) ==
    IF level.scanner.opaque # <<>> THEN WalkFrom(level.text, level.scanner, 0)
    ELSE ByWindows(level, Windows(level.workers, Len(level.text)))
Whole(level) == IF level.listed # {} THEN level ELSE [level EXCEPT !.listed = {EveryMark(level)}]

(* stretch: the marks in [lo, hi), a depth being the count up to it.       *)
Between(offsets, lo, hi) == {at \in offsets : lo <= at /\ at < hi}
Read(level, lo, hi) ==
    IF level.listed # {} THEN Between(UNION level.listed, lo, hi)
    ELSE LevelMarks(level.text, level.scanner, lo, hi, Drift(level.text, level.scanner, 0, lo))
MarksIn(level, lo, hi) ==
    Read(IF level.scanner.opaque # <<>> THEN Whole(level) ELSE level, lo, hi)

-----------------------------------------------------------------------------
(* admits: head, noise and the literal stand at an offset, with no mark    *)
(* crossed.                                                                *)
Admits(string, at, bound, mark) ==
    LET Run(cs, from) == Min({o \in from..Len(string) :
                                o = Len(string) \/ ~Has(cs, CharAt(string, o)) \/ CharAt(string, o) = mark})
        head == Run(bound.head, at)
    IN at < Len(string) /\ head > at /\ StartsWith(string, bound.literal, Run(bound.noise, head))

(* matched: the longest of the plan's spellings that stands at an offset.  *)
Matched(plan, string, at) ==
    LET found == {mark \in plan.marks : StartsWith(string, mark, at)}
    IN IF found = {} THEN <<>> ELSE CHOOSE mark \in found : \A m \in found : Len(m) <= Len(mark)

(* after_mark: where the piece after a cut begins.                         *)
AfterMark(plan, string, mark) ==
    LET after == mark + Len(Matched(plan, string, mark))
    IN IF Opening(plan) THEN mark
       ELSE Min({o \in after..Len(string) : o = Len(string) \/ CharAt(string, o) \notin plan.skip})

(* _thinned: of marks that overlap the one the grammar's boundary is.      *)
Uncovered(plan, string, read) ==
    LET Covers(one, other) == one < other /\ other - one < Len(Matched(plan, string, one))
    IN {at \in read : IF plan.trailing THEN ~\E later \in read : Covers(at, later)
                      ELSE ~\E earlier \in read : Covers(earlier, at)}
Thinned(plan, string, marks) ==
    Uncovered(plan, string, {at \in marks : Matched(plan, string, at) # <<>>})

(* PlanMarks._stretch: a plan's candidates in [lo, hi), thinned from the   *)
(* marks one spelling's width past each end, and admitted.                 *)
Margin(plan) == Max({Len(mark) : mark \in plan.marks})
Own(plan, string, marks) ==
    IF Margin(plan) = 1 THEN {at \in marks : <<CharAt(string, at)>> \in plan.marks}
    ELSE Thinned(plan, string, marks)
(* Mutant: a mark that overlaps one past the stretch's end goes unseen.    *)
InStretchAlone(plan, level, lo, hi) ==
    LET string == level.text
        bound == SoleMark(plan)
    IN {at \in Own(plan, string, MarksIn(level, lo, hi)) :
            /\ \A found \in plan.bound : Admits(string, at + Len(bound), found, bound[1])
            /\ Opening(plan) => at # 0}
InStretch(plan, level, lo, hi) ==
    LET string == level.text
        from == Max({lo - Margin(plan), 0})
        to == Min({hi + Margin(plan), Len(string)})
        bound == SoleMark(plan)
    IN {at \in Between(Own(plan, string, MarksIn(level, from, to)), lo, hi) :
            /\ \A found \in plan.bound : Admits(string, at + Len(bound), found, bound[1])
            /\ Opening(plan) => at # 0}

(* _rightward, _leftward: stretch by stretch, each twice the last.         *)
RECURSIVE Rightward(_, _, _, _, _), Leftward(_, _, _, _, _)
Rightward(plan, level, lo, hi, size) ==
    IF lo >= hi THEN {}
    ELSE InStretch(plan, level, lo, Min({lo + size, hi}))
            \cup Rightward(plan, level, lo + size, hi, 2 * size)
Leftward(plan, level, lo, hi, size) ==
    IF lo >= hi THEN {}
    ELSE InStretch(plan, level, Max({hi - size, lo}), hi)
            \cup Leftward(plan, level, lo, hi - size, 2 * size)

(* _kept, and the same rule over a list: a terminated plan's last mark is  *)
(* no cut when nothing follows it.                                         *)
EndsText(plan, level, candidates, at) ==
    /\ Terminated(plan) /\ ~Opening(plan) /\ \A other \in candidates : other <= at
    /\ AfterMark(plan, level.text, at) = Len(level.text)
Unended(plan, level, all, found) == {at \in found : ~EndsText(plan, level, all, at)}
Kept(plan, level, found) ==
    Unended(plan, level, Leftward(plan, level, 0, Len(level.text), Stretch), found)

(* _listed: every candidate, filtered from the whole level.                *)
ReadyOf(plan, level, all) == Unended(plan, level, all, all)
ReadyMarks(plan, level) == ReadyOf(plan, level, InStretch(plan, level, 0, Len(level.text)))

(* PlanMarks: what a plan reads, and whether its candidates are listed.    *)
Marks(plan, level) == [plan |-> plan, level |-> level, ready |-> level.listed # {}]

(* around: the candidates in [lo, hi), read outward from the target.       *)
FromTarget(marks, first, split, end) ==
    Leftward(marks.plan, marks.level, first, split, Stretch)
        \cup Rightward(marks.plan, marks.level, split, end, Stretch)
Around(marks, target, lo, hi) ==
    LET first == Max({lo, 0})
        end == Min({hi, Len(marks.level.text)})
        split == Min({Max({target, first}), end})
    IN IF marks.ready THEN Between(ReadyMarks(marks.plan, marks.level), lo, hi)
       ELSE Kept(marks.plan, marks.level, FromTarget(marks, first, split, end))

(* found, counted: how many candidates there are, as far as is of use.     *)
Reaches(marks, lo, hi) ==
    Cardinality(Kept(marks.plan, marks.level,
        Rightward(marks.plan, marks.level, lo, Min({hi, Len(marks.level.text)}), Stretch)))
Enough(marks, count, near) ==
    \/ near >= count
    \/ near > 0 /\ Sparse[1] < Len(marks.level.text) /\ near + Reaches(marks, Sparse[1], Sparse[2]) >= count
Counted(marks) == [marks |-> marks, count |-> Cardinality(ReadyMarks(marks.plan, marks.level))]
Listing(marks) == Marks(marks.plan, Whole(marks.level))

Found(marks, count) ==
    CASE marks.ready -> [Counted(marks) EXCEPT !.count = Min({count, @})]
      [] ~marks.ready /\ Enough(marks, count, Reaches(marks, 0, Sparse[1])) ->
            [marks |-> IF marks.level.scanner.opaque # <<>> THEN Listing(marks) ELSE marks, count |-> count]
      [] OTHER -> Counted(Listing(marks))

-----------------------------------------------------------------------------
(* cut_spans: what each piece owns, and the lead that stands before each   *)
(* piece but the first.                                                    *)
CutSpans(plan, string, cuts) ==
    LET Begins(k) == AfterMark(plan, string, cuts[k])
        Stops(k) == IF Terminated(plan) THEN Begins(k) ELSE cuts[k]
    IN [spans |-> [k \in 1..(Len(cuts) + 1) |->
                    <<IF k = 1 THEN 0 ELSE Begins(k - 1), IF k > Len(cuts) THEN Len(string) ELSE Stops(k)>>],
        leads |-> [k \in DOMAIN cuts |->
                    IF Terminated(plan) THEN <<0, 0>> ELSE <<cuts[k], Begins(k)>>]]
Width(span) == span[2] - span[1]
Widths(spans) == {Width(span) : span \in ToSet(spans)}

(* Nearest a target, the earlier on a tie; a target may be a fraction.     *)
Nearest(offsets, of, parts) ==
    LET Away(at) == IF at * parts < of THEN of - at * parts ELSE at * parts - of
    IN CHOOSE at \in offsets : \A other \in offsets :
            Away(at) < Away(other) \/ (Away(at) = Away(other) /\ at <= other)

(* floor_cuts, _nearest_fit: of the marks that leave the piece before them *)
(* and what is after them enough, the nearest to each even share.          *)
Fits(marks, k, workers, need) ==
    LET plan == marks.plan
        string == marks.level.text
        size == Len(string)
        room == size - (workers - k) * MinPiece
        slack == IF Terminated(plan) /\ ~Opening(plan) THEN Margin(plan) ELSE 0
        Clears(at, start) == start <= room /\ (IF Terminated(plan) THEN start ELSE at) >= need
    IN {at \in Around(marks, (size * k + workers - 1) \div workers, need - slack, room) :
            Clears(at, AfterMark(plan, string, at))}
Needed(marks, cuts) ==
    MinPiece + IF cuts = <<>> THEN 0 ELSE AfterMark(marks.plan, marks.level.text, Last(cuts))
Extended(marks, cuts, k, workers, fits) ==
    IF fits = {} THEN cuts ELSE Append(cuts, Nearest(fits, Len(marks.level.text) * k, workers))
FloorCuts(marks, workers) ==
    FoldLeft(LAMBDA cuts, k : Extended(marks, cuts, k, workers,
                IF Len(cuts) < k - 1 THEN {} ELSE Fits(marks, k, workers, Needed(marks, cuts))),
             <<>>, [k \in 1..(workers - 1) |-> k])

(* _balanced_cuts, and cut_offsets' loop over fewer and fewer workers: cuts *)
(* that are all there and leave every piece enough.                        *)
Balanced(marks, workers, cuts) ==
    IF Len(cuts) = workers - 1 /\ ClearsFloor(Widths(CutSpans(marks.plan, marks.level.text, cuts).spans))
    THEN cuts ELSE <<>>
BestCuts(marks, workers) ==
    FoldLeft(LAMBDA cuts, fewer :
                IF cuts = <<>> THEN Balanced(marks, fewer, FloorCuts(marks, fewer)) ELSE cuts,
             <<>>, [k \in 1..(workers - 1) |-> workers + 1 - k])

Chosen(found, cores, size) ==
    [marks |-> found.marks,
     cuts |-> BestCuts(found.marks, PieceCount(WorkerCount(size, found.count, cores)))]
CutOffsets(plan, cores, level) ==
    LET size == Len(level.text)
        ceiling == WorkerCount(size, size, cores)
    IN IF ceiling < 2 THEN [marks |-> Marks(plan, level), cuts |-> <<>>]
       ELSE Chosen(Found(Marks(plan, level), ceiling - 1), cores, size)
=============================================================================
