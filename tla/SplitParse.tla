----------------------------- MODULE SplitParse -----------------------------
(***************************************************************************)
(* parallel/orchestrate: one document parsed in pieces.  The plans its     *)
(* grammar licenses are tried in order, each cut where its marks are or    *)
(* proposed and corrected by the pieces that fail; the regions come last:  *)
(* divided, each held by a stand-in, and laid back over it when all parsed.*)
(*                                                                         *)
(* What a plan's piece answers is what the grammar derives: whichever of a *)
(* span's readings the engine prefers, it refuses a span that has none.    *)
(* The pieces of regions are read as the engine's order reads them.        *)
(***************************************************************************)
EXTENDS CutSearch, RegionSweep, RegionStitch

CONSTANTS
    Grammars,       \* each grammar, whether its pieces are predicted, and the
                    \* streams of heads its generator may draw, by its name
    TextsOf(_),     \* the texts each is tried on
    Cores,          \* the workers a caller may ask for
    Retries         \* how often one proposed cut may be moved

VARIABLES
    grammar,    \* what is derived from the grammar of the document
    text,       \* the document
    cores,      \* how many workers the caller asked for
    phase,      \* what the orchestration is about to do
    turn,       \* which plan it is at
    level,      \* the depth-0 marks the plans share
    cuts,       \* where the plan is cut
    ready,      \* whether the candidates it was cut at are listed
    spent,      \* how often each cut was moved
    rounds,     \* how many verifications are left
    swept,      \* what the region scan found
    works,      \* the regions to divide, each with its stand-in once chosen
    streams,    \* the heads drawn as stand-ins, by the rule of the head
    pieces,     \* each region's pieces, parsed
    attached,   \* the regions whose pieces are joined
    whole       \* the shell, parsed, and then the document

cutVars == <<turn, level, cuts, ready, spent, rounds>>
regionVars == <<works, streams, pieces, attached, whole>>
vars == <<grammar, text, cores, phase, cutVars, swept, regionVars>>

-----------------------------------------------------------------------------
(* What split_model derives from a grammar once: the plans it may be cut   *)
(* by, the scanner they share - a plan whose own skips regions walks the   *)
(* text itself -, what a region sweep watches for and how regions repeat.  *)
ReadsASweep(plan) == plan.scanner.opaque = <<>>
SharedScanner(roles, plans) ==
    Scanner(roles.pairs, UNION {p.marks : p \in {q \in ToSet(plans) : ReadsASweep(q)}}, <<>>)
DerivedWith(ast, predictive, draws, roles, plans) ==
    [ast |-> ast, predictive |-> predictive, draws |-> draws, rules |-> RuleMap(ast), plans |-> plans,
     scanner |-> SharedScanner(roles, plans), vocab |-> Vocabulary(ast),
     regions |-> RegionPlans(ast)]
DerivedFrom(ast, predictive, draws, roles) ==
    DerivedWith(ast, predictive, draws, roles, PlansUnder(ast, roles, predictive))
Derived(given) == DerivedFrom(given.ast, given.predictive, given.draws, Roles(given.ast))

ASSUME GrammarsAssumption ==
    \A g \in DOMAIN Grammars : \A draw \in Grammars[g].draws : \A head \in DOMAIN draw :
        \A n \in DOMAIN draw[head] : Derives(head, Over(RuleMap(Grammars[g].ast), draw[head][n]))

RuleTable == grammar.rules
Start == grammar.ast.start
Plans == grammar.plans

-----------------------------------------------------------------------------
TheText == Over(RuleTable, text)
RuleEnds(rule, at) == AtomEnds(To(rule), TheText, at)
(* worker_parse, _piece: whether a span of the text parses alone.          *)
Parses(rule, span) == span[2] \in RuleEnds(rule, span[1])

-----------------------------------------------------------------------------
Current == Plans[turn]
OwnLevel(plan) == IF ReadsASweep(plan) THEN level ELSE Level(plan.scanner, text, cores)
Pieces == CutSpans(Current, text, cuts)

Init ==
    /\ \E g \in DOMAIN Grammars : grammar \in {Derived(Grammars[g])} /\ text \in TextsOf(g)
    /\ cores \in Cores
    /\ level = Level(grammar.scanner, text, cores)
    /\ phase = "start" /\ turn = 1
    /\ cuts = <<>> /\ ready = FALSE /\ spent = <<>> /\ rounds = 0
    /\ swept = <<>>
    /\ works = <<>> /\ streams = <<>> /\ pieces = <<>> /\ attached = <<>> /\ whole = {}

(* split_model's gates.                                                    *)
Begin ==
    /\ phase = "start"
    /\ phase' = IF cores < 2 \/ Capacity(Len(text)) < 2 THEN "declined" ELSE "plans"
    /\ UNCHANGED <<grammar, text, cores, cutVars, swept, regionVars>>

(* _split_on: a plan with no cuts is passed over.                          *)
Propose ==
    /\ phase = "plans" /\ turn <= Len(Plans)
    /\ \E found \in {CutOffsets(Current, cores, OwnLevel(Current))} :
        /\ level' = IF ReadsASweep(Current) THEN found.marks.level ELSE level
        /\ cuts' = found.cuts
        /\ ready' = found.marks.ready
        /\ spent' = [k \in DOMAIN found.cuts |-> 0]
        /\ rounds' = Len(found.cuts) + 1
        /\ turn' = IF found.cuts = <<>> THEN turn + 1 ELSE turn
        /\ phase' = CASE found.cuts = <<>> -> "plans"
                      [] found.cuts # <<>> /\ Opening(Current) -> "verify"
                      [] OTHER -> "parse"
    /\ UNCHANGED <<grammar, text, cores, swept, regionVars>>

(* Mutant: a plan that failed is not passed over.                          *)
SettleInPlace(outcome) ==
    /\ phase' = outcome
    /\ UNCHANGED <<grammar, text, cores, cutVars, swept, regionVars>>
Settle(outcome) ==
    /\ phase' = outcome
    /\ turn' = IF outcome = "plans" THEN turn + 1 ELSE turn
    /\ UNCHANGED <<grammar, text, cores, level, cuts, ready, spent, rounds, swept, regionVars>>

-----------------------------------------------------------------------------
(* split_parse: every piece under the whole grammar, every lead under its  *)
(* own rule or as the mark's spelling.                                     *)
LeadFits(lead) ==
    LET sep == Current.sep[1]
    IN IF sep.lead = NoLead THEN SubSeq(text, lead[1] + 1, lead[2]) = sep.mark ELSE Parses(sep.lead, lead)
PiecesParse == \A span \in ToSet(Pieces.spans) : Parses(Start, span)
LeadsParse == ~Terminated(Current) => \A lead \in ToSet(Pieces.leads) : LeadFits(lead)

(* stitch_routed: a separated piece must be read with nothing after its    *)
(* container, and one of them with more than one unit.                     *)
RECURSIVE TailEnds(_, _)
TailEnds(wrappers, from) ==
    LET tail == Tail(RuleTable[Last(wrappers)][1])
    IN IF wrappers = <<>> THEN from
       ELSE TailEnds(Front(wrappers), UNION {ArmEnds(tail, TheText, e) : e \in from})
Bare(span) == Parses(Current.sep[1].container, span)
Trails(span) ==
    \E e \in RuleEnds(Current.sep[1].container, span[1]) : e < span[2] /\ span[2] \in TailEnds(Current.wrappers, {e})
Joined(span) ==
    LET rest == RuleTable[Current.sep[1].container][1][2]
    IN \E e \in RuleEnds(Current.owner, span[1]) : e < span[2] /\ span[2] \in ItemEnds(rest, TheText, e)
Lone(span) == Parses(Current.owner, span)

CanStitch ==
    ~Terminated(Current) => /\ \A span \in ToSet(Pieces.spans) : Bare(span)
                            /\ \E span \in ToSet(Pieces.spans) : Joined(span)
CanRefuse ==
    ~Terminated(Current) /\ (\/ \E span \in ToSet(Pieces.spans) : Trails(span)
                          \/ \A span \in ToSet(Pieces.spans) : Lone(span))

Stitch ==
    /\ phase = "parse" /\ PiecesParse /\ LeadsParse /\ CanStitch
    /\ Settle("split")
Refuse ==
    /\ phase = "parse" /\ (PiecesParse /\ LeadsParse => CanRefuse)
    /\ Settle("plans")

-----------------------------------------------------------------------------
(* _speculate: the first piece that fails has a wrong end; the last has    *)
(* none of its own, and answers for the cut before it.                     *)
Failing == {k \in DOMAIN Pieces.spans : ~Parses(Start, Pieces.spans[k])}
Blamed == Min({Min(Failing), Len(cuts)})
(* Mutant: one move too many.                                              *)
MayMoveOnceMore == spent[Blamed] <= Retries
MayMove == spent[Blamed] < Retries

(* _reselect: the nearest candidate between a cut's neighbours.            *)
(* Mutant: a cut may be moved past its neighbours.                         *)
RoomAnywhere(at) == [lo |-> 0, hi |-> Len(text)]
Room(at) == [lo |-> IF at = 1 THEN 0 ELSE cuts[at - 1],
             hi |-> IF at = Len(cuts) THEN Len(text) ELSE cuts[at + 1]]
Others(at) ==
    LET room == Room(at)
    IN {other \in Around([plan |-> Current, level |-> OwnLevel(Current), ready |-> ready],
                          cuts[at], room.lo, room.hi + 1) \ ToSet(cuts) :
            ClearsFloor({other - room.lo, room.hi - other})}

Accept ==
    /\ phase = "verify" /\ rounds > 0 /\ Failing = {}
    /\ Settle("split")
Move ==
    /\ phase = "verify" /\ rounds > 0 /\ Failing # {}
    /\ MayMove /\ Others(Blamed) # {}
    /\ cuts' = [cuts EXCEPT ![Blamed] = Nearest(Others(Blamed), cuts[Blamed], 1)]
    /\ spent' = [spent EXCEPT ![Blamed] = @ + 1]
    /\ rounds' = rounds - 1
    /\ UNCHANGED <<grammar, text, cores, phase, turn, level, ready, swept, regionVars>>
GiveUp ==
    /\ phase = "verify"
    /\ rounds > 0 => Failing # {} /\ (~MayMove \/ Others(Blamed) = {})
    /\ Settle("plans")

(* split_regions: what the scan finds, but for the document itself.        *)
Inner(found) == SelectSeq(found, LAMBDA r : r.rule # Start)
MinSpan == 2 * MinChunk
Sweep ==
    /\ phase = "plans" /\ turn > Len(Plans)
    /\ swept' = Inner(ParFind(grammar.vocab, text, MinSpan, PieceCount(cores)))
    /\ phase' = "swept"
    /\ UNCHANGED <<grammar, text, cores, cutVars, regionVars>>

-----------------------------------------------------------------------------
(* partition and bound_works: what of the regions is divided.              *)
Bind ==
    /\ phase = "swept"
    /\ \E bound \in {BoundWorks(grammar.regions, text, PartitionOf(Len(text), ToSet(swept), PieceCount(cores)))},
          drawn \in grammar.draws :
        /\ works' = bound
        /\ streams' = drawn
        /\ phase' = IF bound = <<>> THEN "declined" ELSE "choosing"
    /\ UNCHANGED <<grammar, text, cores, cutVars, swept, pieces, attached, whole>>

(* assign_witnesses: a region that can have no stand-in goes back to what  *)
(* holds it, and all the others choose again.                              *)
Choose ==
    /\ phase = "choosing"
    /\ \E chosen \in {Assign(works, streams, text, RuleTable)} :
        LET standing == [k \in DOMAIN works |-> [works[k] EXCEPT !.stand = chosen[k]]]
            kept == SelectSeq(standing, LAMBDA w : w.stand # {})
        IN /\ works' = kept
           /\ phase' = CASE kept = <<>> -> "declined"
                         [] kept # <<>> /\ kept # standing -> "choosing"
                         [] OTHER -> "units"
    /\ UNCHANGED <<grammar, text, cores, cutVars, swept, streams, pieces, attached, whole>>

(* _parse_units: the pieces under their region's rule and the shell under  *)
(* the document's.  What is read of a leaf before the stand-ins are chosen *)
(* is what is read of it after.                                            *)
Stand(k) == CHOOSE stand \in works[k].stand : TRUE
Stubs == [k \in DOMAIN works |-> Stand(k).witness]
ParsedPieces(k) ==
    [p \in 1..(Len(works[k].cuts) + 1) |->
        Parse(works[k].plan.rule, Over(RuleTable, PieceText(text, works, k, p, Stubs)))]
ParseUnits ==
    /\ phase = "units"
    /\ \E parsed \in {[k \in DOMAIN works |-> ParsedPieces(k)]},
          shell \in {Parse(Start, Over(RuleTable, ShellText(text, works, Stubs)))} :
        /\ pieces' = parsed
        /\ whole' = shell
        /\ phase' = IF shell = {} \/ \E k \in DOMAIN works : {} \in ToSet(parsed[k])
                    THEN "declined" ELSE "stitching"
    /\ UNCHANGED <<grammar, text, cores, cutVars, swept, works, streams, attached>>

(* stitch_units: innermost first.                                          *)
HeldItem(k) == IF Holder(works, k) = 0 THEN 0 ELSE PieceOf(works, k).item
RoutesTo(tree, k, owner) ==
    IF owner = 0 THEN SoleRoute(tree, Stand(k).needle)
    ELSE HeldRoute(tree, works[owner].plan, HeldItem(k), Stand(k).needle)
Attach(tree, owner, held) ==
    AttachedAll(tree, [n \in DOMAIN held |-> attached[held[n]]],
                [n \in DOMAIN held |-> RoutesTo(tree, held[n], owner)], text, RuleTable)
Filled(k) ==
    [p \in DOMAIN pieces[k] |-> UNION {Attach(t, k, HeldBy(works, k, p)) : t \in pieces[k][p]}]
Only(trees) == CHOOSE t \in trees : TRUE
Attachments(work, filled) ==
    IF {} \in ToSet(filled) THEN {}
    ELSE {[work |-> work, items |-> items, first |-> Only(Head(filled)), last |-> Only(Last(filled))] :
            items \in Merged(work, [p \in DOMAIN filled |-> Only(filled[p])],
                             streams[work.plan.head][1], text, RuleTable)}

Unattached == DOMAIN works \ DOMAIN attached
StitchRegion ==
    /\ phase = "stitching" /\ Unattached # {}
    /\ \E k \in {Max(Unattached)} : \E done \in {Attachments(works[k], Filled(k))} :
        /\ attached' = IF done = {} THEN attached ELSE [j \in k..Len(works) |-> IF j = k THEN Only(done) ELSE attached[j]]
        /\ phase' = IF done = {} THEN "declined" ELSE phase
    /\ UNCHANGED <<grammar, text, cores, cutVars, swept, works, streams, pieces, whole>>
StitchShell ==
    /\ phase = "stitching" /\ Unattached = {}
    /\ whole' = UNION {Attach(t, 0, HeldBy(works, 0, 0)) : t \in whole}
    /\ phase' = IF whole' = {} THEN "declined" ELSE "stitched"
    /\ UNCHANGED <<grammar, text, cores, cutVars, swept, works, streams, pieces, attached>>

Settled == phase \in {"split", "stitched", "declined"}
Done == Settled /\ UNCHANGED vars

Next == \/ Begin \/ Propose \/ Stitch \/ Refuse \/ Accept \/ Move \/ GiveUp \/ Sweep
        \/ Bind \/ Choose \/ ParseUnits \/ StitchRegion \/ StitchShell \/ Done

(* Weak fairness of Next, which is enabled to change the state until the   *)
(* orchestration has settled: the thread that asked for the document goes  *)
(* on, and every piece's parse ends.                                       *)
Running == <>[]Settled \/ []<><<TRUE>>_vars
Spec == Init /\ [][Next]_vars /\ Running

-----------------------------------------------------------------------------
Offsets == 0..Len(text)
TypeOK ==
    /\ phase \in {"start", "plans", "parse", "verify", "swept", "choosing", "units", "stitching"} \/ Settled
    /\ turn \in 1..(Len(Plans) + 1)
    /\ cuts \in Seq(Offsets) /\ ready \in BOOLEAN
    /\ UNION level.listed \subseteq Offsets
    /\ DOMAIN spent = DOMAIN cuts /\ \A k \in DOMAIN spent : spent[k] \in 0..Retries
    /\ rounds \in 0..(Len(cuts) + 1)
    /\ \A r \in ToSet(swept) : r.opener < r.closer /\ ToSet(r.marks) \subseteq (r.opener + 1)..(r.closer - 1)

-----------------------------------------------------------------------------
(* The readings of a document as its units: from a unit's beginning to its *)
(* end, and over what leads the next.  A place is an offset and whether a  *)
(* unit begins there or ends there.                                        *)
OpensAt(at) == <<at, "begins">>
EndsAt(at) == <<at, "ends">>
Onward(place) ==
    IF place[2] = "begins" THEN {EndsAt(e) : e \in RuleEnds(Current.owner, place[1])}
    ELSE IF Terminated(Current) THEN {OpensAt(place[1])}
    ELSE {OpensAt(e) : e \in ItemEnds(RuleTable[Current.sep[1].item][1][1], TheText, place[1])}

RECURSIVE Reach(_, _)
Reach(places, without) ==
    LET more == (places \cup UNION {Onward(p) : p \in places}) \ without
    IN IF more = places THEN places ELSE Reach(more, without)
Reads(without) ==
    \E place \in Reach({OpensAt(0)} \ without, without) :
        place[2] = "ends" /\ Len(text) \in IF Terminated(Current) THEN {place[1]}
                                            ELSE TailEnds(Current.wrappers, {place[1]})

(* The pieces and leads of a document are the document, in order, and no   *)
(* piece is under the floor - also after a cut was moved.                  *)
PiecesTile ==
    /\ \A k \in DOMAIN cuts :
          IF Terminated(Current) THEN Pieces.spans[k][2] = Pieces.spans[k + 1][1]
          ELSE Pieces.leads[k] = <<Pieces.spans[k][2], Pieces.spans[k + 1][1]>>
    /\ Pieces.spans[1][1] = 0 /\ Pieces.spans[Len(cuts) + 1][2] = Len(text)
    /\ ClearsFloor(Widths(Pieces.spans))

(* A document that is split is read as its pieces: they are the document,  *)
(* wherever cuts were moved; it has a reading, and there is none in which  *)
(* a unit does not end where a piece does and the next not begin where the *)
(* next piece does - so no reading the whole could have had is lost or     *)
(* added, whichever the engine would have preferred.                       *)
SplitIsWhole ==
    /\ phase \in {"parse", "verify", "split"} => PiecesTile
    /\ phase = "split" =>
        /\ Reads({})
        /\ \A k \in DOMAIN cuts : /\ ~Reads({EndsAt(Pieces.spans[k][2])})
                                  /\ ~Reads({OpensAt(Pieces.spans[k + 1][1])})

(* However few stretches a search reads, whichever depths it counts them   *)
(* from and whatever earlier plans had listed, a plan is cut where it      *)
(* would be with every mark of the document listed from its start.         *)
AllListed(plan) ==
    LET own == OwnLevel(plan)
    IN [own EXCEPT !.listed =
            {IF ReadsASweep(plan) THEN LevelMarks(text, own.scanner, 0, Len(text), 0)
             ELSE WalkFrom(text, own.scanner, 0)}]
CutsAsListed ==
    phase = "plans" /\ turn <= Len(Plans) =>
        CutOffsets(Current, cores, OwnLevel(Current)).cuts = CutOffsets(Current, cores, AllListed(Current)).cuts

(* What windows find apart is what one walk finds, brackets that straddle  *)
(* their seams and marks between them included.                            *)
WindowsAsSerial ==
    phase = "swept" => swept = Inner(WalkRegions(grammar.vocab, text, MinSpan))

(* A stand-in whose text is nowhere else in the unit that holds it is the  *)
(* node of at most one place there: no two are ever mistaken.              *)
HolderTree(k) ==
    IF Holder(works, k) = 0 THEN whole ELSE pieces[Holder(works, k)][PieceOf(works, k).piece]
StandInsSole ==
    phase = "stitching" =>
        \A k \in DOMAIN works : \A tree \in HolderTree(k) : Cardinality(Routes(tree, Stand(k).needle)) <= 1

(* A document put together from its regions is the tree the whole document *)
(* is parsed to, slot for slot, and one that is not derived never is.      *)
StitchedIsParsed ==
    phase = "stitched" => whole = Parse(Start, TheText)

(* ... but for the noise a piece reads before the closer of its region     *)
(* where the document has it before a separator: it is lost.               *)
PaddedCut ==
    \E k \in DOMAIN works : \E p \in DOMAIN works[k].cuts :
        LET work == works[k]
        IN work.plan.end # 0 /\ \E tree \in pieces[k][p] :
              RunText(tree.items[work.plan.end]) \notin {<<>>, <<CharAt(text, work.region.closer)>>}
StitchIsWhole ==
    phase = "stitched" /\ ~PaddedCut => whole = Parse(Start, TheText)

(* However the pieces fail, the cuts stop being moved: every document is   *)
(* split, stitched from its regions, or left whole.                        *)
Settles == <>Settled
=============================================================================
