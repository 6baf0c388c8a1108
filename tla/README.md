# lexic in TLA+

Lexic compiles grammars into parsers and parses documents with them, on several threads when it
pays. This directory holds TLA+ models of its stateful parts, the TLC configurations that check
them on small instances, and TLAPS proofs of what holds on every instance. `PROJECT.json` maps
every definition to the lines it stands for and lists the runs, the mutants that show each
property can fail, the theorems, the findings and the hazards.

All paths below are under `src/src/lexic/`.

## The system

| Part | State it keeps | Operations | Modelled in |
|---|---|---|---|
| Worker pool phase (`parsing/parallel/pool.py`) | a slot per item, the pending futures, refusals so far, whether the pool is retired | `map` with its beside share, late items, take-back, drain, cancel, `close` | `WorkPool`, `PhaseContract`, `WorkPoolProofs` |
| Warm pool cache (same file) | `IDLE_POOLS` per width, lease numbers, retired marks | `PoolLease.__enter__/__exit__`, `lend`, `reset_pools` | `PoolLease`, `PoolLeaseProofs` |
| Worker replicas (`parallel/replicas.py`) | claims per pair, thread-local views, the retirement queue, one lock | `worker_parse`, `document`, settling, warming, the finalizers of exited threads | `Replicas`, `ReplicasProofs` |
| Identity memos (`parsing/caches.py`, `products.py`, `compile/artifact.py`) | `CLAIMED`, `ADOPTED`, the memos keyed by identity, per-key locks | `track`, `adopt`, `release`, `once`, the product and the reduction lookups | `IdentityMemos`, `IdentityMemosProofs` |
| Earley kernel (`parsing/earley/kernel`, `resume.py`) | columns of items and their indexes, Leo memos, families and groups, re-opened columns | predict, complete, jump, scan, `extend`, `mark`, `rollback` | `EarleyTables`, `EarleyKernel`, `EarleyLanguage`, `EarleyKernelProofs` |
| Earley forest (`kernel/forest`, `kernel/tables/splits.py`) | the families a chart kept | expanding deferred chains, reading promoted keys, the fast tree | `EarleyForest` |
| Earley front (`earley/normalize.py`, `lexruns.py`) | immutable grammars | hoist groups, expand quantifiers, collapse repeated characters to runs | `Normalize`, `AuthoredForest` |
| Earley masks (`tokenscan.py`) | the spelled prefix and a mark per token, over a live chart | cut to the common prefix, extend, explore the trie and cut back | `MaskCursor`, `MaskOracle`, `MaskCursorProofs` |
| Split plans (`parallel/planner.py`, `plan/`, `roles.py`, `stitch/safety.py`) | plans memoised per grammar | prove where a grammar's texts may be cut | `SplitPlans`, `GrammarRoles`, `OpaqueInteriors`, `GrammarShapes` |
| Cut search (`parallel/plan/cuts.py`, `discovery/scan.py`, `policy.py`) | the marks listed and the depths known so far | scan stretches at depth, choose balanced cuts | `CutSearch` |
| Region discovery (`parallel/discovery/regions.py`, `partition.py`) | per-window events | sweep windows apart, replay, choose what to divide | `RegionSweep`, `RegionPartition` |
| Stitching (`parallel/stitch`) | stand-ins chosen, pieces attached | place stand-ins, rebuild joints and edges, lay over the shell | `RegionStitch`, `Readings` |
| Split orchestration (`parallel/orchestrate.py`) | plan, cuts, retries, regions in work | propose, verify, move or refuse cuts; then the regions | `SplitParse` |
| Product state (`parsing/product/state.py`) | builders, verdicts and an undo log | mark, mutate, roll back, commit | `ProductState`, `TransactionStack`, `ProductStateProofs` |
| PDA analysis (`parsing/pda/analysis`, `lift.py`) | immutable facts of a grammar | solve the fixpoints, find gates, say which rules may be walked | `PdaPredicates`, `PdaWindows`, `PdaConflicts` |
| PDA compiler and runtime (`parsing/pda/compiler`, `runtime`) | a stack of frames, a position | enter, match a span, ask a loop's gate, complete, fail; attempts; islands | `PdaWalk`, without attempts and islands |
| Compile pipeline, IR, notations, models, API | immutable data | pure passes | no |

How they interact. A document thread asks the orchestration for a split; it leases a pool
(`PoolLease`), runs phases on it (`WorkPool.map`), and each task parses its chunk through a
replica of the compiled pair (`Replicas`). Which view a thread may use depends on the *lease number*
its task carries, so the replicas rely on the pool cache for "one number, one split"
(`OneSplitPerLease`), and the cache relies on the phase for "a pool that is not retired has
nothing running in it" (`PoolWhole`). Every view fills memos keyed by object identity;
`IdentityMemos` is about when they are emptied. A parse itself runs the PDA or the Earley kernel, and
builds its model in `ProductState`'s builders; the generation mask keeps one Earley chart alive and
grows and cuts it. What the phases of a split are *for* is `SplitParse`: each phase parses one set of
pieces, and the orchestration between phases decides by what came back. It sees a phase only as its
contract - every piece's verdict -, so the two are modelled apart.

What is hard here: an item submitted late overtakes an earlier one; a caller takes back an item a
worker is about to pop; a bug must leave past siblings that wait for the caller; a finalizer runs on
any thread at any point, also under the lock it needs; addresses are re-used; a Leo jump skips what
the forest needs; a re-opened column must be seeded for every character that may follow; a mask explores
on the live chart and must leave no trace; a cut is licensed by a static proof about the grammar, and
pieces that all parse may still not be the document's reading; a stand-in must not be mistaken for
anything else; descent picks an arm and never comes back to it, on the word of sets and windows solved beforehand;
nested transactions undo through one log. The
`hazards` list in `PROJECT.json` puts each at its line with the properties that watch it, or says
why none does.

What makes each part right:

* phase - each item runs at most once; the results are complete; a refusal leaves nothing running;
  a pool that may be lent again is whole; `map` always returns; a bug leaves at once.
* pool cache - one owner per pool, none lost, none stranded, only fit pools wait, a number names a split.
* replicas - no two running threads parse through one view; no exited thread leaves anything behind;
  a finalizer never waits.
* memos - what belongs to a dead artefact is swept; nothing stale is served; nobody holds a dead claim.
* Earley - the chart accepts the grammar's language and reports exactly its live prefixes; the forest
  is the set of derivations; the fast path answers only where there is one.
* masks - a mask is what recomputing each token from nothing would give, however the ids were edited.
* split - a document is split only into pieces of its own reading; cuts are where a full listing would
  put them; windows merge to the serial scan; the regions' tree is the whole's tree; it always settles.
* PDA - the facts a choice rests on hold of every derivation; a walk that ends built the tree the grammar has, and
  one that gives up had none to build, or gave way at a loop's exit.
* transactions - a rollback restores exactly what its mark saw.

## Modules

### WorkPool, PhaseContract, WorkPoolProofs, MCWorkPool

`WorkPool` is one phase. The calling thread is a program counter over the loop of `map`: `Loop`
sends what `Ready` allows (`Admit`), runs `beside` once, takes back unstarted items (`TakeBack`,
`BackEnds`), waits (`Collect`), drains after a refusal (`DrainCancels`, `Drained`), cancels after a bug
(`Fails`, `Cancels`, `LeavesAtOnce`). `ThreadPoolExecutor` is external and modelled from its use: a FIFO
queue, a future cancellable only while queued, and a cancelled future that `wait` counts as done
only once a worker popped it. What an item comes to is chosen at the start: it succeeds, refuses,
hits a bug, or waits for the caller to leave.

`PhaseContract` is what `map`'s docstring promises, without executor or queue. `Contract` maps the
model to it: a slot has started once it ran, has ended once nobody has it in hand, and how the phase was left
counts once the caller is outside `map`. `MCWorkPool` only bounds the bugs and the items that wait.

### PoolLease, PoolLeaseProofs

One action per critical section of `_IDLE_LOCK`; everything between them interleaves. A phase appears
as its contract: `PhaseDrained` leaves the pool whole, `PhaseRetires` may leave tasks in it, and those
end, or not, at any later time (`TasksEnd`). `reset_pools` takes all lists at once (`Reset`) and
closes what it took one by one (`CloseDoomed`).

### Replicas, ReplicasProofs

Document threads and workers, the `_MINTING` lock, the registry `_REPLICAS`, the thread caches and the
retirement queue. An exited thread's finalizer runs on some `host` thread, which does not go on until it
ends - also when the host is inside the lock. The drain loop is three steps, as in the code:
the queue seen empty under the lock (`Drained`), the release (`LetGo`), the second look (`Recheck`).
The release that retirement calls uses `_expand` of `caches.py`. A document thread asks for its view of the document's pair
(`AskDocument`), or of the pair of a chunk it takes back from its own phase (`TakeBack`): that is the original or a copy it owns already, and a
copy may then be claimed a second time, as a pair of its own.

### IdentityMemos, IdentityMemosProofs

Artefacts bound from one another share an authored product and have a codegen grammar each. Each dict
or set operation is atomic; sequences of them interleave. A finalizer is `Release`, one step per loop
of `release`. Addresses are re-used once their artefact is gone. A product, a grammar and a set
are objects: `NamesAssumption` says that none of them is another. A parse keeps its artefact alive, so between the
store of a product and what is adopted under it only *other* artefacts are released, over the memos they share. A chunk that an abandoned
split left behind holds its grammar and binding only; that its artefact is released under it is not modelled.

### ProductState, TransactionStack, ProductStateProofs

`ProductState` is the builders of one parse with the log as the code keeps it: one entry per mutation
while a transaction is open, and beside it what keep-last replacements wrote over; a mark is five
lengths. `Undone` takes one entry back with what its builder does for it (`Popped`, `PutBack`).
`TransactionStack` is what that is for: a value and a stack of remembered values, no log. The
refinement mapping undoes the log down to each open mark.

### PdaPredicates, PdaWindows, PdaConflicts, PdaWalk, MCPda

What the predictive parser makes of a grammar, then of a text; each module EXTENDS the one before.

* `PdaPredicates` - `predicates.py` and the fixpoints of `GrammarAnalysis`: which parts derive nothing, FIRST and
  hard FIRST, ALPHABET, EXTEND, and FOLLOW three times over (soft, hard, structural).
* `PdaWindows` - `gates/windows.py`, `kwindow.py`: prefixes of up to k characters, complete, going on or unknown;
  FOLLOW_k; when two sides collide; the shallowest depth that tells them apart.
* `PdaConflicts` - `_classify` with `demote.py`, `leftrec.py`, `greedy.py`, `conflicts.py`: for every alternation and
  every loop the gate that settles it, or that none does. `Predictive` is what the split asks of a grammar.
* `PdaWalk` - a clone is a rule under what must come after it; the loop's gate is cut against that (`GateTakes`). A
  frame is an arm being matched: `MatchSpan` takes a literal's or a class's whole run, `Descend` enters the next copy of a
  reference or a group, `PassOn` leaves a loop, `Complete` hands the tree up. No choice is ever revised: where nothing
  fits the walk fails, and the caller asks the Earley engine. The grammars walked have no conflict and no rule that takes its longest match
  (`WalkedAssumption`), so there is no attempt and no island.

`MCPda` EXTENDS the walk and `ProductState` and runs each apart from the other: a walk that never forks marks nothing.
`TypesOK` is the types of both.
`GivesWay` is the documented exception: where a character may begin both the next copy and what must follow, and no text
goes on both ways, the loop stops at it; when that was wrong the walk fails and the engine reads the text.

### EarleyTables, EarleyKernel, EarleyLanguage, EarleyKernelProofs, EarleyForest, MCEarley

`EarleyTables` is what `compile_tables` derives: interned arms, nullable rules, FIRST sets and seed
gates. `EarleyKernel` is the loop. An item is `<<arm, dot, origin>>`; the indexes `waiting`, `scannable`
and `seen` are views of the columns, since every item is filed as it enters. Visiting one item is one
action (`Predict`, `AwaitScan`, `SkipEmpty`, `Jump`, `CompleteAll`), a scan and a return another;
`Extend` and `Rollback` are the resumable recognizer's. The families are kept as the code keeps them: a
bucket per key, *promoted* at its second family to the completion group of its rule and end, and deferred
chains under a Leo top. Only the order among terminals in a scan is not kept: items land in column
order.

`EarleyLanguage` is not code: it is what a grammar derives of a text, told without a chart. A fact `<<item, end>>` says that the
part of an arm before the dot spans the text from the item's origin to that end; what is derivable is in every set of facts
that holds its own consequences (`Deduced`). An input is a text, its tokens, and where the text has once ended (`breaks`). A literal of
several characters cannot be spelled across such a place: when the column before it was scanned, the text ended too soon, and `extend`
scans no column again. `Recognises` says the chart accepts exactly the texts derived so; `RecognisesAnew`, that over tables of single characters, and
in a parse of a whole text over any, these are the texts a parse anew derives. `split_literals` makes such tables of most grammars, not of all (see
the observations below).

`EarleyForest` reads a finished chart back (`Expanded`, `Read`), builds the fast tree with its lazy
expansion (`FastTree`), and defines the derivations of a text from the grammar alone (`Derived`,
`TrueFamilies`, `Begun`), with which the properties compare.

### Normalize, AuthoredForest, MCAuthored

`GrammarShapes` has the grammar as it is authored: rules of arms of items, an item an atom with bounds,
an atom a literal, a character set, a reference or a group. `Normalize` turns it into the arms
`EarleyTables` compiles, as `normalize.py` does (`HoistItem`, the minted rules of quantifiers), and as
`lexruns.py` does collapses a repetition of single characters to a run where what may follow cannot go
on with it (`Safe`). `AuthoredForest` counts a text's readings under the authored grammar and compares.

### MaskCursor, MaskOracle, MaskCursorProofs, MCMaskCursor

Both cursors of `tokenscan.py` over one `EarleyKernel` chart. The caller assigns ids as it likes;
`Purged` and the sync actions bring the chart back to the common prefix and on; the character cursor
walks the trie of spellings on the chart and cuts back after each branch, the token cursor reads the
frontier. A chart serves one `user` from its first step on: the parse of a whole text, a free client, or a
cursor (`ChartSpec`). What a mask should be is in `MaskOracle`, which defines it from the grammar alone; it is
apart because the derivations it needs are RECURSIVE, and `MaskCursor` is proved about. Two of the code's limits are in it: a trie
spells no literal that was left whole (`Walked`), and the token cursor's mask is read off token terminals alone, so no id is admitted
for what character terminals beside them would read (`Taken`).

### The split: GrammarShapes to SplitParse

Six layers, each a module that EXTENDS the one before. All but the last are operators: they translate
passes over a grammar or a text.

* `GrammarShapes` - `discovery/shapes.py`: what an item spells, whether it repeats, what a rule's arms
  begin and end with, which characters it can emit where. Character sets are finite or cofinite.
* `GrammarRoles`, `OpaqueInteriors` - `anchors.py`, `roles.py`, `interiors.py`: which characters are
  punctuation and what for; which delimited regions hide it, and where each ends.
* `SplitPlans` - `planner.py`, `plan/speculation.py`, `stitch/safety.py`: separated, terminated and
  predicted plans, and the proof that licenses each (`EndsOnce`, `BoundsUnits`, `LeadsOnce` ...).
* `CutSearch` - `plan/cuts.py`, `discovery/scan.py`: a plan's marks at depth 0, found a stretch at a time
  on both sides of where a cut is wanted, and the cuts chosen.
* `RegionSweep`, `RegionPartition`, `RegionStitch` - brackets found by windows and replayed; which regions to divide and
  where; their plans, stand-ins, pieces, joints, edges and the overlay. `Readings` is not code: it is
  what a grammar reads, the reference the split is compared with.
* `SplitParse` - `split_model`: `Begin` chooses the workers, `Propose` cuts the plan at hand, `Stitch` and
  `Refuse` are what a plan with certain cuts comes to, `Accept`, `Move` and `GiveUp` one round of a predicted
  one, then `Sweep`, `Bind`, `Choose`, `ParseUnits`, `StitchRegion` (in every order the regions' holders
  allow) and `StitchShell`. `Settle` goes to the next plan, or on to the regions.

A slot of a model is the number of the arm's item, as every item that refers to a rule is captured. The
seeded generator that draws stand-ins is external: a grammar is given the streams it may draw. Whether a
grammar is parsed by prediction is given too, and `PredictedAssumption` of `MCSplit` checks each answer
against `PdaConflicts!Predictive`.

## Runs

| Run | Instance | Shows |
|---|---|---|
| `work_pool` | 2 workers, window 2, up to 3 items and 1 late one, at most one bug and one blocking item | `PoolWhole`; the refinement `MeetsContract`; `MapReturns` and `BugLeavesAtOnce` under fairness |
| `work_pool_earliest` | 1 worker, window 4, 5 items, 1 late | violation: a late item's refusal is raised before an earlier item that also refuses was submitted |
| `pool_lease` | 2 callers, 2 widths, 2 pools, 1 retained, 5 leases | `OneOwner`, `NoneDropped`, `IdleFit`, `OneSplitPerLease`, and `NoPoolStranded` under fairness |
| `replicas` | 2 documents, 1 worker, original and 2 copies, 2 splits each | `PrivateViews`, `NoLostRetirement`, `TablesAreClaimed`, `GoneHoldsNothing`, `NeverAwaitedByFinalizer` |
| `identity_memos` | 2 artefacts, 2 threads, 2 addresses, 3 products | `PrivateReleased`, `NoStaleClaim` |
| `memos_sweep`, `memos_once`, `memos_reduce` | 2 or 3 artefacts | violations of three docstrings, see Findings |
| `earley_chart` | 16 grammars in normal form, 11 authored ones (each normalised, and again with its runs collapsed) and 3 over tokens, one of them with characters and a literal between; every text over two letters up to length 4, grown by pieces of 1 or 2, masks over 2 ids and 3 spellings | `FamiliesExact`, `FastTreeOnlyWhenSole`, `ReadsAsAuthored` for a text parsed once; `ChartExact`, `FiledOnce`, `LeoMemoFresh` for a chart grown and cut; `CursorInStep`, `MaskEqualsRecompute` for the masks |
| `predictive_parse` | 10 grammars, every text over their characters up to length 6; 1 builder of each lane, of length up to 2, 1 verdict, 2 nested marks, 2 logged mutations | `AnswersAsGrammar`, `SetsBoundReadings` for the walk and its analysis; the refinement `RollsBackExactly` |
| `split_parse` | 21 grammars, texts of up to 8 fragments or 3 items in a bracket, 2, 3 or 5 workers | `SplitIsWhole`, `CutsAsListed`, `WindowsAsSerial`, `StandInsSole`, `StitchIsWhole`; `Settles` under fairness |
| `split_padded` | 1 grammar with noise before its separators and its closer | violation: a region is stitched without the noise before a cut |

Every property is also run against a mutant of the model - a dropped guard, a missing reset, an
off-by-one - which it must refute; the mutated definition stands next to the one it replaces.

Why the bounds are enough. In `work_pool` three items and one late item exceed the window of two, so
items wait outside it, a late one overtakes, and both workers and the caller compete for the queue. In
`pool_lease` one retained pool per width and two pools let the cache be full, empty and reset between any
two steps, and five leases let a pool be lent again while another holds tasks of an old split. In `replicas`
two documents race for the original, either can exit and be finalized on the other, and two copies
are what a worker under a replica needs. In `identity_memos` two addresses suffice for one to be
re-used while the other artefact lives. In `earley_chart` length 4 is where a Leo chain of three
levels, a promoted key with Leo families behind it (grammar `Mixed`), a nullable cycle and an ambiguity
inside an ambiguity all occur. The grammars were chosen for that; the forest properties were also tried on
60 random grammars, on every text up to length 3, without a failure. Two ids and a spelling of two
characters let the common prefix be empty, proper or whole, and end inside a spelling. One grammar that grows keeps a quantified literal of two characters
whole, so texts end inside it, and one mixes token terminals with characters and a literal. In `predictive_parse` there is a grammar for each way a
choice is settled: by one character, by the arms' windows alone and with what follows the rule, by a loop's windows near and arm-final, by the
order of the split, by an exit two deep, by default where an arm may be empty, and past an item barred by a bound of 0 and a
negated class; length 6 is where a window of 3 ends inside, at and past a
second copy. A
mutation of a builder older than the mark and of one begun inside it, each under the inner or the outer
mark, fit in two logged mutations. In `split_parse` the code's thresholds are constants scaled down to the
texts: a piece of at least 1 and a chunk of at least 2 characters, stretches of 1, 2 retries as in the code, the sparse scan
tried at 2 and 4 marks, and 4 or 5 workers where a spare one is lent. So short texts still have more
marks than cuts, cuts that are moved and run out of retries, and brackets that straddle windows. Each
grammar is there for one kind of plan, proof, scan or region, named in `MCSplit`.

Bounds are constants: `MaxItems`, `MaxLate`, `Pools`, `MaxLease`, `Copies`, `MaxSplits`, `MaxMint`,
`MaxText`, `MaxIds`, `MaxBuilders`, `MaxLength`, `MaxVerdicts`, `MaxMarks`, `MaxLog`; and the texts a
configuration lists. Where deadlock is not checked the system may really stop: a phase ends, callers need
not come back, threads exit, transactions are over.

Fairness. `WorkPool`: weak fairness of the caller and of each worker, which is what the
operating system gives; an item that waits for the caller is not assumed to end. `PoolLease`: weak
fairness of a caller's own progress, and strong fairness of leaving the lease, as a split runs finitely
many phases; nothing makes a caller ask for a pool or a task in a retired pool end. `SplitParse`
(`Running`): the one thread that orchestrates goes on until the split is settled, since the parse of a
piece always ends; the run checks deadlock too, so something can be done until then. The other
modules state no fairness and no liveness property.

## Proofs

| Module | Proves, of every behaviour | Assumes |
|---|---|---|
| `PoolLeaseProofs` | `TypeOK`, `OneOwner`, `NoneDropped`, `IdleFit`, `OneSplitPerLease` | `PoolLeaseAssumption`, `NoneAssumption` |
| `WorkPoolProofs` | `TypeOK`, `PoolWhole`, the refinement `MeetsContract` | `WorkPoolAssumption` |
| `ReplicasProofs` | `TypeOK`, `PrivateViews`, `NoLostRetirement`, `GoneHoldsNothing`, `Unawaited`; `TablesAreClaimed` | `ReplicasAssumption`; the last also `Abandons = FALSE` |
| `IdentityMemosProofs` | `TypeOK`, `NoStaleClaim`, `PrivateReleased` | `MemosAssumption`, `NamesAssumption` |
| `ProductStateProofs` | the refinement `RollsBackExactly` | nothing |
| `EarleyKernelProofs` | `Recognises`, `RecognisesAnew`; `TypeOK`, `FiledOnce`, `LeoMemoFresh`, of the kernel under a free client | `KernelAssumption` |
| `MaskCursorProofs` | `CursorInStep`; `Recognises`, `RecognisesAnew`, `TypeOK`, `FiledOnce`, `LeoMemoFresh`, of every chart | `KernelAssumption`, `SpellingsAssumption` |

Each holds for any values of the constants: any threads, workers, items, addresses, values, grammars, texts, and any bounds.
Nothing is assumed finite but what the code makes finite (the slots of a phase). The assumptions say that bounds are
naturals, that different things have different names, that compiled tables and texts are lists whose start rule has an
arm, and that a token's spelling is not empty; TLC evaluates them on every run. Of the tables they say one thing more.
They are `Solved`: gates and empty arms are what `EarleyTables` computes, and both fixpoints ended because a further round would add
nothing, which is how the loops of `builder.py` end. Nothing is assumed of their terminals: a chart may be grown over literals and tokens, and is
not over runs because `Extend` has the guard of `extend`, which refuses them.

`DataInduction` has what several of them need. `Climb` is induction over the naturals stated of a set: a set with 0 and
the successor of each of its members has them all. Induction over an operator is out of the provers' reach, so a
proof by induction first names the set of the numbers it is good for. `Recursion` says that a function defined by recursion over
the naturals exists, which is what a model's recursive function needs before anything can be said of its values. The other lemmas there are about the least member of a set,
and what a sequence's members are as it grows and shrinks.

### PoolLease

The conjunction of the five is not inductive: that a pool handed back has no task left
(`IdleFit`) depends on what happened to it while it was lent. `Bookkeeping` adds it: a caller
that is about to lend, or between phases with a pool not retired, holds one without tasks; a pool in a
phase is not retired before the phase ends; only a caller inside `reset_pools` has pools to close; pools not
built have no tasks; and no pool's lease number exceeds the counter, so a new number is new
(`OneSplitPerLease`). One lemma per action shows that it preserves `Inv`; `NoPoolMoves` serves the
actions that leave every pool where it is.

### WorkPool

Both results rest on an account of the slots (`Account`). Until a bug, or an abandoned wait, gives the account up,
every slot that was sent is among the pending futures, the results, the refusals, or the one the caller took back; and
whatever is queued or running is pending. `Agree` ties a slot's status to how often it ran and to its verdict, `Crew` says the
queue has a slot once and a worker's slot is running. So when the pending futures are used up the pool is whole
(`Whole`). When the account is given up, the pool is retired (`Departure`), and what is still queued is on the caller's list to cancel.

The refinement (`Fulfilled`) needs three facts more. A drain cancels only what comes after the earliest refusal,
so that refusal is among those that ran (`Withdrawn`). A late item is sent only once no early one is left
inside the window (`Overtaking`). A bug that is raised is that of an item which has ended (`Departure`). Then each action is a
step of `PhaseContract` or leaves its variables alone: a worker's pop is its start, a return or the last cancel is its leave.

### Replicas

Privacy rests on the original: its entry is never released, at most one document thread has a claim
of it (`Claimable`), and that claim is withdrawn only once its thread is dead; so an own view is either a copy
made for that thread, or the original under that claim (`Custody`). That no retirement is lost needs two more parts:
whoever has a claim is alive, has exited and is still to be finalized, or is in the queue (`Owed`); and the lock is
held exactly while somebody is at a step that will look at the queue again (`NoLostRetirement` itself, with
`Stations` on where a thread can be). `Busy` is what a chunk taken back needs: the copy a document thread claims as a pair is the one it
owns in the original's place, and that view is not lost meanwhile, as the original's entry stays.

`NeverAwaits` is what `NeverAwaitedByFinalizer` asks, with the guard of `Try` in place of ENABLED, which the provers do not
know: a finalizer at the lock is never itself interrupted (`Interrupts`), so it can go on.

`TablesAreClaimed` needs a ledger of its own (`Booked`): a copy is claimed once under the pair it was minted
under, and a second time only by its owner, as a pair, while the first claim stands (`Parents`); a thread's views are of pairs that were made (`Kept`); whose chunk a worker runs is alive and parses by the
same view (`Served`); and an own copy is claimed as long as its pair stands (`OwnHeld`). `Served` is where `Abandons =
FALSE` comes in, and it is false without: a document thread that leaves its split with tasks running may exit, its
pair is released, and its worker then claims a copy under a pair nobody adopts any more. That is the code's
behaviour in that case (see the observations below), so the theorem has the hypothesis.

### IdentityMemos

An artefact's codegen grammar is always among its claims, and no other artefact's (`Lives`): hence `NoStaleClaim`.

`PrivateReleased` is about what is *not* any more in a memo, so the proof follows every product from the time it is
made. As long as some memo has an entry for it, the product is in the hands of the thread that made it, in
its own artefact's set of `ADOPTED`, or in a release that has still to sweep it (`DerivedOwed`, `SharedOwed`). The hard
case is the set of the *shared* product, which every artefact's release walks. A product is adopted by its own
artefact's set first (`OwnFirst`), and one that is in the shared set is in no set that the release of
another artefact has taken or dropped (`Apart`, `PassApart`), so a release never withdraws what is not its own to sweep. A release
that fails (finding 2) is excepted, as in the property.

### ProductState

`RollsBackExactly` says that the log is as good as the snapshots of `TransactionStack`, and the mapping undoes the
log down to every open mark. `Rewound` names what that leaves, and the lemmas before the invariant say how undoing behaves:
undoing in two goes is undoing in one; a logged mutation is undone exactly, the keys of a mapping
included; undoing entries about older builders, and forgetting younger builders, may be done in either
order. `Inv` is that the log fits the builders there are (`LogFits`), that every mapping indexes exactly its entries (`Sound`), now and
at every open mark, and that no mark reaches past the one after it (`Nested`). Then growth and logged mutation leave
what every mark sees as it was, and each action is a `Build`, `Open`, `Keep` or `Abandon`, or a stutter.

### Earley kernel

Seeds enter a column without a look at what is there, so `FiledOnce` is about *when* they may. A rule that has a seed
in a column is predicted there (`Seeded`), so a rule not predicted yet has none. The re-opened column is the hard case: its rules
are predicted and *some* of their arms filed. At the end of the text no gate lets anything pass, so what was seeded
there has an open gate, or its rule has been topped up (`Ended`); and `extend` files the closed gates of the rest. After a cut
that must be true of the mark's column, which is then the last: there the topped-up rules are all the predicted ones, since
the text has once grown past it (`Topped`). This is why `rollback` must keep the record of the mark itself.

`LeoMemoFresh` compares a memo with a climb that reads other memos, so the proof takes the top the columns alone determine
(`TopOf`). `ClimbExists` shows there is one: a climb goes to an earlier column at each step, and one within its column stops. It is unique
by `ColumnInduction`; every memo is that top (`Memos`), and so is what a climb finds through them (`Resolves`). It stays so because a memo is made
only in a column nothing more will be filed into (`Closed`): one before the loop's, or one all of whose rules are topped up, so that
re-opening files nothing there; and because the top depends on no later column (`TopsStay`), those being the ones a cut drops.

`Recognition` is about the whole: the chart accepts what the grammar derives with no literal spelled across a break, and no more. *No more* is `Sound`: each item of a column is
derivable, since an advance is a consequence of two facts the chart has. For a Leo jump that has to be earned: the items between the bottom
and the top are never filed, and are derived one by one up the chain (by `ColumnInduction`). *No less* is `Worked`: every item the loop has passed
has had its effect (`AllHandled`), every terminal before the loop's column has been scanned, every predicted rule has the
arms its gate lets pass (`Sown`) or, where recorded, all of them (`SownWhole`). When the chart is done, the facts it accounts for
(`Accounted`) hold their own consequences, so what is derivable is among them. A fact is accounted for when its item is in the chart, and in two
cases when it is not. Its arm was dropped by a gate (`Muted`): then the arm derives nothing that begins here, because tables are
solved, and no fact further on needs it. Or a jump passed it by (`Hidden`): then it is complete, and what it would have advanced has been,
at the top. What accepts is never hidden: it began in column 0, and a climb that has a top starts by going to an earlier
column. Growing and cutting change the text an old column was made for.
`Follows` and `Reverted` name what `extend` and `rollback` leave, `Agree` says that two texts with a common beginning scan alike up to it, and
the last column before an extend is re-opened since its gates had read the end of the text. An extend makes a break where the text ended:
a literal scanned for in an earlier column would have had to reach past it. `BreaksIdle` is the step from `Recognises` to `RecognisesAnew`: a terminal of one
character, a run and a token have no place inside where a break could be, and a parse of a whole text has no break.

These theorems are of `EarleyKernel`'s own `Spec`, whose client extends by any of `Pieces` and cuts as it likes, with
`bounds` as it was. The lemmas under them are stated of one action each, for any piece and for any mark, so that a chart in other
hands can use them.

### Mask cursor

The kernel's invariant survives a cut only to a column that was *marked*, that is, where the chart ended once and has not been cut
below since: what was topped up is right there and nowhere else. A client cuts to its marks by its own choice; a cursor
cuts to where it has computed that a token ended, and in a walk to the mark kept in a frame. So `Whole` is the kernel's `Inv` with the
cursor's book: every committed token's column is a mark, and is the length of what the tokens up to it spell
(`Recorded`); and, in a walk, the frames stand one below the other, each one letter deeper and each marked where the text ended
above it, over the committed text (`Standing`). It holds however deep in the trie, and it is needed there: the next cut may be to any of
those frames, and after the walk to any of those tokens.

The walk and `_sync` use one chart and do not collide, since `_sync` comes first in every read, and nothing can be assigned
until the read is over: a walk has `Held(committed) = ids`, so neither `SyncBack` nor `SyncOn` can step in.
`PurgedPast` is what would break `Recorded`: the token that began at the cut is gone, and its beginning would stay. The lemmas before
are about `FlattenSeq` (what a list of tokens spells grows by the spelling of the next one, and an earlier
list spells a prefix), proved by `Climb` and `Recursion`, as the library states nothing of it.

From `Whole` the kernel's three promises hold of every chart, whoever uses it, and `CursorInStep` is what the book says when no
frame is left.

`ChartsRecognise` carries `Recognition` over: the chart a mask is read off accepts exactly what the grammar derives, with token terminals and
the tokens the cursor has recorded, and with breaks where a token, or a letter of a walk, has ended; `ChartsRecogniseAnew` is the same over tables of
single characters, where breaks say nothing. Tokens are what is new, for `_purge` and the recording of a token change the input itself. Tokens lie in the text one
after the other (`Laid`), so a cut at the beginning of one cuts none in two and what is left is a text and its tokens again; and
a token is recorded where the text ends, a column nothing has been scanned from.

### Only model-checked

* Liveness, as the prover has no fairness: `MapReturns`, `BugLeavesAtOnce`, `NoPoolStranded`, `Settles`; and
  `NeverAwaitedByFinalizer` as it is stated, with ENABLED.
* `TypeOK` of `ProductState`, which counts the replacements in the log with `SelectSeq`, an operator over an operator: the
  theorem's own invariant says what the refinement needs of the log instead.
* `ChartExact`: its first half, acceptance, is proved as `Recognises`, where derivability is a least set of facts; TLC cannot
  enumerate those sets, so the run compares with the recursive `Spans`. Its second half, that a frontier is alive exactly where some continuation is
  accepted, needs an account of what every rule can still derive.
* That the Earley forest is that of the text (`FamiliesExact`, `FastTreeOnlyWhenSole`,
  `ReadsAsAuthored`), and that a mask is what recomputing would give (`MaskEqualsRecompute`); the PDA; the split. They compare what the code builds with what a recursive
  reference defines (derivations, readings, serial scans): an induction over data, and most of these modules declare
  RECURSIVE operators, which the provers do not take.

## Findings

1. `work_pool_earliest` - `map` promises "the earliest failing item's own refusal"; the items
   outside the ready window are not submitted once a late item's refusal is seen.
2. `memos_sweep` - `_expand` iterates the set it popped from `ADOPTED` while `adopt` on another thread,
   which had found the set before, is adding to it; `release` promises that cannot raise.
3. `memos_once` - the lock table of `once` is itself a swept memo, so a release can drop the lock a
   compile runs under, and the next miss compiles beside it.
4. `memos_reduce` - reductions are keyed by the identity of an artefact nobody tracks: one made at the
   address of a collected one is served that one's reduction.

5. `split_padded` - a joint between two pieces is rebuilt from the cut's separator and what follows
   it. Noise *before* a separator at which a region is cut belongs to the earlier piece's closing slot and is dropped:
   `(a ,a)` is stitched as `(a,a)`. `outer_trail` is derived for this and never read. `split_model`'s docstring says
   "Returns exactly what `parse_model` returns".

Observations without a run of their own:

* With `Abandons = TRUE` in `Replicas`, a task of an abandoned split can fill tables under a view whose claim is
  gone (`TablesAreClaimed` fails); the pool is retired and nothing is served from them, they only live as long as
  the pair.
* `extend` says that "the chart afterwards equals a fresh parse of the whole text" (`resume.py:70`). A literal of several characters
  spelled across the place where the text ended is missed. `split_literals` is there against it, but leaves a quantified literal whole
  (`tokenscan.py:55`, `65`), token grammars are compiled unsplit (`tokenscan.py:299`), and `extend` refuses runs alone. `Recognises` says what the
  chart accepts then, and the instances have such grammars.
* `TokenTermCursor.mask` admits only ids that a token terminal takes; in a grammar that mixes them with characters, an id whose spelling the
  characters would read is left out (`tokenscan.py:407`).
* A chart over the empty text that was never extended reports no frontier where the start rule's arms
  are all gated, so `ChartExact` leaves that one state out.
* `Scanner.walk` looks for a region only where a unit starts, though a certified region may open inside one; then
  its punctuation is listed, and the verification or the pieces' parses refuse the cut.
* A re-selected cut may go back to a position already refuted; with one cut there are two rounds, so its second
  retry is never used.
* Noise next to a separator at a region's edge is also lost where the head may begin with it, or where the opener
  is followed by inline noise; a direct region whose closer may have noise around it is declined.

## Not modelled

In the modelled parts: `slot()` and `ParsePool`; the tally of `warm_census`; the grammar half of a
pair; memos of `products.py` that hang off a product in the same way as those shown; island delegates,
`longest_start_completion` and the packing tiers (a text that exceeds one is refused). Of the split: the envelope,
folded and routed plans (taken to decline); the `decide` gate, when a choice other than leftmost-longest is asked for;
`known`, the cache of depths; the view of a grammar the analysis rewrote; arms that read one span twice; `engine.py`.
The draws of stand-ins are given. Of the PDA: attempts and their windows, the sides of an ambiguity, islands and their ends,
rules that take their longest match, the build modes and the programs they are lowered to, patterns that match a rule of characters
at once (they match what the rule does), token atoms, and the gates that skip noise or a run by its shape - the grammars
taken have no noise rules, for which these gates decline.

Pure passes - the compile pipeline, the IR, notations, lowering, emission, the product programs - keep no state;
generation and the API are thin users of the rest.

## Plan

In this order; the most important behaviour first.

1. `PdaWalk` with attempts and islands: arms tried in order over marks of `ProductState`, the second side of an
   ambiguity, and the hand-over to `EarleyKernel`; then the gates over noise.
2. Forest deciders - the choice among derivations, and when a second one is a second meaning.
3. The envelope, folded and routed plans, in `SplitPlans`.
4. Proofs: the frontier half of `ChartExact` on top of `Recognition`; then the families, with the links of `EarleyKernel` added to
   `Worked`.
