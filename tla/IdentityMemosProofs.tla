------------------------ MODULE IdentityMemosProofs ------------------------
(***************************************************************************)
(* Proofs about IdentityMemos, for any artefacts, threads, addresses and   *)
(* bound: no claim is stale, and what an artefact's parses left in the     *)
(* memos is gone when the releases are over.  The second rests on an       *)
(* account of every minted product: as long as a memo has an entry for it, *)
(* it is in a thread's hand on its way to its artefact's own set, or in    *)
(* that set, or in the hands of a release that has still to sweep it; and  *)
(* a product in the shared product's set is in no set any other release    *)
(* ever took, so only its own artefact's release takes it from there.      *)
(***************************************************************************)
EXTENDS IdentityMemos, TLAPS

Pcs == {"idle", "read", "wait", "look", "derive", "reduced"} \cup Locked
(* Where a release is, between the death and the end of the finalizer.     *)
Sweeping == {"expand", "iterate", "disown", "locks", "derived", "products", "reductions"}
Sizes == {0} \cup {Cardinality(c) : c \in SUBSET Minted}
Passes == [step : Steps, frontier : SUBSET Idents, dropped : SUBSET Idents,
           set : Sets \cup {None}, size : Sizes, records : SUBSET Sets]

Objects ==
    /\ life \in [Artefacts -> {"unborn", "binding", "live", "dying", "gone"}]
    /\ at \in [Artefacts -> Addresses \cup {None}]
    /\ fresh \in [Artefacts -> SUBSET Idents] /\ CLAIMED \subseteq Idents
    /\ rel \in [Artefacts -> Passes]
Filing ==
    /\ ADOPTED \in [Owners -> Sets \cup {None}] /\ contents \in [Sets -> SUBSET Minted]
    /\ MODEL_CACHE \in [Artefacts -> Minted \cup {None}] /\ derived \subseteq Minted
    /\ ONCE \in [Artefacts -> Locks \cup {None}]
    /\ REDUCE_ENTRIES \in [Addresses -> Artefacts \cup {None}]
    /\ minted \in 0..MaxMint /\ sets \in 0..2 * MaxMint /\ locks \in 0..MaxMint
Running ==
    /\ holder \in [Locks -> Threads \cup {None}]
    /\ pc \in [Threads -> Pcs] /\ on \in [Threads -> Artefacts \cup {None}]
    /\ made \in [Threads -> Minted \cup {None}] /\ lock \in [Threads -> Locks \cup {None}]
    /\ set \in [Threads -> Sets \cup {None}] /\ adopting \in [Threads -> SUBSET Owners]

(* An artefact's life and its release; its codegen grammar is always among *)
(* what it claimed, for no other artefact claims it.                       *)
Lives ==
    \A a \in Artefacts :
        /\ life[a] \in {"unborn", "binding", "live"} <=> rel[a].step = "none"
        /\ life[a] = "dying" <=> rel[a].step \in Sweeping
        /\ life[a] = "unborn" => fresh[a] = {}
        /\ life[a] # "unborn" => Codegen(a) \in fresh[a]
        /\ fresh[a] \subseteq Tracks(a)
        /\ rel[a].step = "none" => rel[a].dropped = {}
        /\ rel[a].step # "none" => fresh[a] \subseteq rel[a].dropped
        /\ rel[a].frontier \subseteq Tracks(a) \cup Minted
        /\ rel[a].dropped \subseteq Tracks(a) \cup Minted
        /\ rel[a].step \notin {"none", "expand", "iterate", "failed"} => rel[a].frontier = {}
        /\ rel[a].step = "iterate" => rel[a].set # None

(* A thread's parse, of an artefact that lives as long as it runs.         *)
Parses ==
    \A t \in Threads :
        /\ pc[t] = "idle" <=> on[t] = None
        /\ on[t] # None => life[on[t]] = "live"
        /\ pc[t] \in {"store", "adopt", "update"} <=> made[t] # None
        /\ made[t] # None => made[t][1] = on[t]
        /\ pc[t] \in {"wait"} \cup Locked <=> lock[t] # None
        /\ pc[t] = "update" <=> set[t] # None
        /\ pc[t] \in {"adopt", "update"} => adopting[t] \subseteq {Codegen(on[t]), Shared}
        /\ pc[t] = "update" => Codegen(on[t]) \notin adopting[t]
        /\ pc[t] = "adopt" /\ Codegen(on[t]) \in adopting[t] => Shared \in adopting[t]

Held == \A l \in Locks, t \in Threads : holder[l] = t <=> lock[t] = l /\ pc[t] \in Locked

(* The sets of ADOPTED: each is one owner's; none is made twice.           *)
Shelves ==
    /\ \A o \in Owners : ADOPTED[o] # None => ADOPTED[o] <= sets
    /\ \A o, p \in Owners : ADOPTED[o] # None /\ ADOPTED[o] = ADOPTED[p] => o = p
    /\ \A s \in Sets : s > sets => contents[s] = {}
    /\ \A t \in Threads : set[t] # None => set[t] <= sets
(* The one a release took is nobody's.                                     *)
TakenOut ==
    \A a \in Artefacts : rel[a].step = "iterate" => rel[a].set <= sets /\ \A o \in Owners : ADOPTED[o] # rel[a].set
(* A codegen grammar's set holds what was minted for its artefact ...      *)
OwnSets ==
    /\ \A t \in Threads, a \in Artefacts : set[t] # None /\ set[t] = ADOPTED[Codegen(a)] => on[t] = a
    /\ \A a \in Artefacts : ADOPTED[Codegen(a)] # None => \A m \in contents[ADOPTED[Codegen(a)]] : m[1] = a
    /\ \A t \in Threads : pc[t] = "update" /\ Shared \in adopting[t] => set[t] = ADOPTED[Codegen(on[t])]
(* ... and is given up as that artefact dies.                              *)
GivenUp ==
    \A a \in Artefacts : life[a] \in {"dying", "gone"} =>
        Codegen(a) \in rel[a].frontier \/ ADOPTED[Codegen(a)] = None

Numbers ==
    /\ \A m \in derived : m[2] <= minted
    /\ \A s \in Sets : \A m \in contents[s] : m[2] <= minted
    /\ \A a \in Artefacts : \A m \in rel[a].dropped \cap Minted : m[2] <= minted
    /\ \A t \in Threads : made[t] # None => made[t][2] <= minted
    /\ \A t, u \in Threads : made[t] # None /\ made[t] = made[u] => t = u

InShared(m) == ADOPTED[Shared] # None /\ m \in contents[ADOPTED[Shared]]
InOwn(m) == ADOPTED[Codegen(m[1])] # None /\ m \in contents[ADOPTED[Codegen(m[1])]]
(* What a thread made is not yet in a set of the shared product ...        *)
Unshared(t) ==
    \/ pc[t] = "store"
    \/ pc[t] \in {"adopt", "update"} /\ Shared \in adopting[t]
    \/ pc[t] = "update" /\ adopting[t] = {}
(* ... and this is where it is to go next.                                 *)
Sharing(t) == (pc[t] = "adopt" /\ adopting[t] = {Shared}) \/ (pc[t] = "update" /\ adopting[t] = {})

(* Until it is shared, only its own artefact's set has it and no release   *)
(* has met it.                                                             *)
Unmet ==
    \A t \in Threads : Unshared(t) =>
        /\ \A s \in Sets : made[t] \in contents[s] => s = ADOPTED[Codegen(on[t])]
        /\ \A b \in Artefacts : made[t] \notin rel[b].dropped
OwnFirst == \A t \in Threads : Sharing(t) => InOwn(made[t])
(* What the shared product's set has is in no set another artefact's       *)
(* release took.                                                           *)
Apart ==
    \A m \in Minted, b \in Artefacts : InShared(m) /\ b # m[1] => m \notin rel[b].dropped
PassApart ==
    \A m \in Minted, b \in Artefacts :
        InShared(m) /\ b # m[1] /\ rel[b].step = "iterate" => m \notin contents[rel[b].set]

InHand(m) ==
    \E t \in Threads :
        /\ made[t] = m
        /\ \/ pc[t] = "store"
           \/ pc[t] = "adopt" /\ Codegen(on[t]) \in adopting[t]
           \/ pc[t] = "update" /\ Shared \in adopting[t]
InPass(m) == rel[m[1]].step = "iterate" /\ m \in contents[rel[m[1]].set]
Failed(a) == rel[a].step = "failed"
(* Dropped by a release that has yet to sweep it.                          *)
ToSweep(m) ==
    \E b \in Artefacts :
        /\ m \in rel[b].dropped
        /\ \/ rel[b].step \in {"locks", "derived"}
           \/ b = m[1] /\ rel[b].step \in {"expand", "iterate", "disown"}

(* The account of what other memos hold entries for, and of what the       *)
(* shared product's set holds.                                             *)
DerivedOwed == \A m \in derived : InHand(m) \/ InOwn(m) \/ InPass(m) \/ ToSweep(m) \/ Failed(m[1])
SharedOwed ==
    \A m \in Minted : InShared(m) => InOwn(m) \/ InPass(m) \/ m \in rel[m[1]].dropped \/ Failed(m[1])
(* What a release has behind it.                                           *)
Disowned ==
    \A m \in Minted : InShared(m) =>
        /\ rel[m[1]].step = "disown" => m \in rel[m[1]].dropped /\ ADOPTED[Shared] \in rel[m[1]].records
        /\ rel[m[1]].step \notin {"locks", "derived", "products", "reductions", "done"}
Swept ==
    /\ \A a \in Artefacts : rel[a].step \in {"derived", "products", "reductions", "done"} => ONCE[a] = None
    /\ \A a \in Artefacts : rel[a].step \in {"reductions", "done"} => MODEL_CACHE[a] = None

(* The inductive invariant.                                                *)
Inv ==
    /\ Objects /\ Filing /\ Running
    /\ Lives /\ NoStaleClaim /\ Parses /\ Held
    /\ Shelves /\ TakenOut /\ OwnSets /\ GivenUp /\ Numbers
    /\ Unmet /\ OwnFirst /\ Apart /\ PassApart
    /\ DerivedOwed /\ SharedOwed /\ Disowned /\ Swept

(* A release takes identity i off its frontier.                            *)
Opens(a, i) ==
    /\ rel[a].step = "expand" /\ i \in rel[a].frontier
    /\ LET s == IF i \in Owners THEN ADOPTED[i] ELSE None
       IN  /\ ADOPTED' = IF i \in Owners THEN [ADOPTED EXCEPT ![i] = None] ELSE ADOPTED
           /\ rel' = [rel EXCEPT ![a].frontier = @ \ {i},
                                 ![a].step = IF s = None THEN "expand" ELSE "iterate",
                                 ![a].set = s,
                                 ![a].size = IF s = None THEN 0 ELSE Cardinality(contents[s])]
    /\ UNCHANGED <<births, CLAIMED, contents, memos, holder, counts, thread>>
-----------------------------------------------------------------------------
(* The names of things are told apart by what they name.                   *)
LEMMA Names ==
    /\ \A a \in Artefacts : Codegen(a) \in Owners \cap Idents /\ Codegen(a) # Shared /\ Codegen(a) \notin Minted
    /\ \A a, b \in Artefacts : Codegen(a) = Codegen(b) => a = b
    /\ Shared \in Owners \cap Idents /\ Shared \notin Minted /\ Minted \subseteq Idents
    /\ \A o \in Owners : o # Shared => \E a \in Artefacts : o = Codegen(a)
    /\ \A m \in Minted : m # None /\ m \notin Owners /\ m[1] \in Artefacts /\ m[2] \in 1..MaxMint /\ m = <<m[1], m[2]>>
    /\ MaxMint \in Nat /\ Sets \subseteq Nat /\ Locks \subseteq Nat
    /\ None \notin Sets /\ None \notin Locks /\ None \notin Artefacts /\ None \notin Threads
BY MemosAssumption, NamesAssumption DEF Codegen, Owners, Idents, Grammars, Minted, Sets, Locks

(* What is where, by type.                                                 *)
LEMMA Within == ASSUME Inv
    PROVE  /\ derived \subseteq Minted /\ \A s \in Sets : contents[s] \subseteq Minted
           /\ \A o \in Owners : ADOPTED[o] \in Sets \cup {None}
           /\ \A t \in Threads : on[t] \in Artefacts \cup {None} /\ made[t] \in Minted \cup {None}
                /\ set[t] \in Sets \cup {None} /\ adopting[t] \subseteq Owners
           /\ \A a \in Artefacts : rel[a].step = "iterate" => rel[a].set \in Sets
BY DEF Inv, Filing, Running, Objects, Passes, Lives

-----------------------------------------------------------------------------
(* The claims go back: with the frontier empty the artefact's own set is   *)
(* given up, so all it shared is dropped.                                  *)
LEMMA StepUnclaim == ASSUME Inv, NEW a \in Artefacts, Unclaim(a) PROVE Inv'
<1>1. /\ life' = life /\ at' = at /\ fresh' = fresh /\ ADOPTED' = ADOPTED /\ contents' = contents
      /\ MODEL_CACHE' = MODEL_CACHE /\ derived' = derived /\ ONCE' = ONCE /\ REDUCE_ENTRIES' = REDUCE_ENTRIES /\ holder' = holder
      /\ minted' = minted /\ sets' = sets /\ locks' = locks /\ pc' = pc /\ on' = on
      /\ made' = made /\ lock' = lock /\ set' = set /\ adopting' = adopting /\ answer' = answer
    BY DEF Unclaim, births, owning, memos, counts, thread
<1>2. rel[a].step = "expand"
    BY <1>1 DEF Unclaim
<1>3. rel[a].frontier = {} /\ CLAIMED' = CLAIMED \ rel[a].dropped
    BY <1>1, <1>2 DEF Unclaim
<1>4. Codegen(a) \in rel[a].dropped
    BY <1>1, <1>2, <1>3 DEF Inv, Lives
<1>5. {ADOPTED[o] : o \in Owners} \ {None} \subseteq Sets
    BY <1>1, <1>2, <1>3, <1>4, Within
<1>6. rel[a] \in Passes
    BY <1>1, <1>2, <1>3, <1>4, <1>5 DEF Inv, Objects
<1>7. rel' = [rel EXCEPT ![a] = [rel[a] EXCEPT !.step = "disown", !.records = {ADOPTED[o] : o \in Owners} \ {None}]]
    BY <1>1, <1>2, <1>3, <1>4, <1>5, <1>6 DEF Unclaim
<1>8. /\ rel' \in [Artefacts -> Passes]
      /\ rel'[a].step = "disown" /\ rel'[a].records = {ADOPTED[o] : o \in Owners} \ {None}
      /\ \A c \in Artefacts \ {a} : rel'[c] = rel[c]
      /\ \A c \in Artefacts : rel'[c].frontier = rel[c].frontier /\ rel'[c].dropped = rel[c].dropped /\ rel'[c].set = rel[c].set
    BY <1>1, <1>2, <1>3, <1>4, <1>5, <1>6, <1>7, Names DEF Inv, Objects, Passes, Steps
<1>20. Objects'
    BY <1>1, <1>2, <1>3, <1>4, <1>5, <1>8, Names DEF Inv, Objects
<1>21. Filing'
    BY <1>1 DEF Inv, Filing
<1>22. Running'
    BY <1>1 DEF Inv, Running
<1>23. Lives'
    BY <1>1, <1>2, <1>3, <1>4, <1>5, <1>8, Names, Within DEF Inv, Lives, Sweeping
<1>24. NoStaleClaim'
    BY <1>1, <1>2, <1>3, <1>4, <1>5, <1>8, Names, Within DEF Inv, NoStaleClaim, Lives
<1>25. Parses'
    BY <1>1 DEF Inv, Parses, Locked
<1>26. Held'
    BY <1>1 DEF Inv, Held, Locked
<1>27. Shelves'
    BY <1>1 DEF Inv, Shelves
<1>28. TakenOut'
    BY <1>1, <1>2, <1>3, <1>4, <1>5, <1>8, Names, Within DEF Inv, TakenOut
<1>29. OwnSets'
    BY <1>1 DEF Inv, OwnSets
<1>30. GivenUp'
    BY <1>1, <1>2, <1>3, <1>4, <1>5, <1>8, Names, Within DEF Inv, GivenUp
<1>31. Numbers'
    BY <1>1, <1>2, <1>3, <1>4, <1>5, <1>8, Names, Within DEF Inv, Numbers
<1>32. Unmet'
    BY <1>1, <1>2, <1>3, <1>4, <1>5, <1>8, Names, Within DEF Inv, Unmet, Unshared
<1>33. OwnFirst'
    BY <1>1 DEF Inv, OwnFirst, Sharing, InOwn
<1>34. Apart'
    BY <1>1, <1>2, <1>3, <1>4, <1>5, <1>8, Names, Within DEF Inv, Apart, InShared
<1>35. PassApart'
    BY <1>1, <1>2, <1>3, <1>4, <1>5, <1>8, Names, Within DEF Inv, PassApart, InShared
<1>36. DerivedOwed'
    BY <1>1, <1>2, <1>3, <1>4, <1>5, <1>8, Names, Within
       DEF Inv, DerivedOwed, InHand, InOwn, InPass, ToSweep, Failed
<1>37. SharedOwed'
    BY <1>1, <1>2, <1>3, <1>4, <1>5, <1>8, Names, Within DEF Inv, SharedOwed, InShared, InOwn, InPass, Failed
<1>38. Disowned'
    BY <1>1, <1>2, <1>3, <1>4, <1>5, <1>8, Names, Within
       DEF Inv, Disowned, InShared, SharedOwed, InOwn, InPass, Failed, GivenUp, Lives, Sweeping
<1>39. Swept'
    BY <1>1, <1>2, <1>3, <1>4, <1>5, <1>8, Names, Within DEF Inv, Swept
<1>. QED
    BY <1>20, <1>21, <1>22, <1>23, <1>24, <1>25, <1>26, <1>27, <1>28, <1>29, <1>30, <1>31, <1>32, <1>33,
       <1>34, <1>35, <1>36, <1>37, <1>38, <1>39
       DEF Inv

(* What was dropped leaves the sets that were copied; from here the        *)
(* release owes it to the sweep.                                           *)
LEMMA StepDisown == ASSUME Inv, NEW a \in Artefacts, Disown(a) PROVE Inv'
<1>1. /\ life' = life /\ at' = at /\ fresh' = fresh /\ CLAIMED' = CLAIMED /\ ADOPTED' = ADOPTED
      /\ MODEL_CACHE' = MODEL_CACHE /\ derived' = derived /\ ONCE' = ONCE /\ REDUCE_ENTRIES' = REDUCE_ENTRIES /\ holder' = holder
      /\ minted' = minted /\ sets' = sets /\ locks' = locks /\ pc' = pc /\ on' = on
      /\ made' = made /\ lock' = lock /\ set' = set /\ adopting' = adopting /\ answer' = answer
    BY DEF Disown, Releases, births, owning, memos, counts, thread
<1>2. rel[a].step = "disown"
    BY <1>1 DEF Disown, Releases
<1>3. rel[a] \in Passes
    BY <1>1, <1>2 DEF Inv, Objects
<1>4. rel' = [rel EXCEPT ![a] = [rel[a] EXCEPT !.step = "locks"]]
    BY <1>1, <1>2, <1>3 DEF Disown, Releases
<1>5. /\ rel' \in [Artefacts -> Passes]
      /\ rel'[a].step = "locks"
      /\ \A c \in Artefacts \ {a} : rel'[c] = rel[c]
      /\ \A c \in Artefacts : rel'[c].frontier = rel[c].frontier /\ rel'[c].dropped = rel[c].dropped /\ rel'[c].set = rel[c].set /\ rel'[c].records = rel[c].records
    BY <1>1, <1>2, <1>3, <1>4, Names DEF Inv, Objects, Passes, Steps
<1>6. /\ contents' \in [Sets -> SUBSET Minted]
      /\ \A s \in Sets : contents'[s] = IF s \in rel[a].records THEN contents[s] \ rel[a].dropped ELSE contents[s]
    BY <1>1, <1>2, <1>3, <1>4, <1>5 DEF Disown, Inv, Filing
<1>20. Objects'
    BY <1>1, <1>2, <1>5, <1>6, Names DEF Inv, Objects
<1>21. Filing'
    BY <1>1, <1>2, <1>5, <1>6, Names DEF Inv, Filing
<1>22. Running'
    BY <1>1 DEF Inv, Running
<1>23. Lives'
    BY <1>1, <1>2, <1>5, <1>6, Names, Within DEF Inv, Lives, Sweeping
<1>24. NoStaleClaim'
    BY <1>1, <1>2, <1>5, <1>6, Names, Within DEF Inv, NoStaleClaim
<1>25. Parses'
    BY <1>1 DEF Inv, Parses, Locked
<1>26. Held'
    BY <1>1 DEF Inv, Held, Locked
<1>27. Shelves'
    BY <1>1, <1>2, <1>5, <1>6, Names, Within DEF Inv, Shelves
<1>28. TakenOut'
    BY <1>1, <1>2, <1>5, <1>6, Names, Within DEF Inv, TakenOut
<1>29. OwnSets'
    BY <1>1, <1>2, <1>5, <1>6, Names, Within DEF Inv, OwnSets
<1>30. GivenUp'
    BY <1>1, <1>2, <1>5, <1>6, Names, Within DEF Inv, GivenUp
<1>31. Numbers'
    BY <1>1, <1>2, <1>5, <1>6, Names, Within DEF Inv, Numbers
<1>32. Unmet'
    BY <1>1, <1>2, <1>5, <1>6, Names, Within DEF Inv, Unmet, Unshared
<1>33. OwnFirst'
    BY <1>1, <1>2, <1>5, <1>6, Names, Within DEF Inv, OwnFirst, Sharing, InOwn, Unmet, Unshared, Parses
<1>34. Apart'
    BY <1>1, <1>2, <1>5, <1>6, Names, Within DEF Inv, Apart, InShared
<1>35. PassApart'
    BY <1>1, <1>2, <1>5, <1>6, Names, Within DEF Inv, PassApart, InShared
<1>36. DerivedOwed'
    <2>. SUFFICES ASSUME NEW m \in derived PROVE (InHand(m) \/ InOwn(m) \/ InPass(m) \/ ToSweep(m) \/ Failed(m[1]))'
        BY <1>1 DEF DerivedOwed
    <2>1. m \in Minted /\ m[1] \in Artefacts
        BY Names, Within
    <2>2. CASE m \in rel[a].dropped
        <3>. ToSweep(m)'
            BY <1>5, <2>2 DEF ToSweep
        <3>. QED OBVIOUS
    <2>3. CASE m \notin rel[a].dropped
        <3>1. \A s \in Sets : m \in contents[s] => m \in contents'[s]
            BY <1>6, <2>3
        <3>2. InHand(m) => InHand(m)'
            BY <1>1 DEF InHand
        <3>3. InOwn(m) => InOwn(m)'
            BY <1>1, <2>1, <3>1, Names, Within DEF InOwn
        <3>4. InPass(m) => InPass(m)'
            BY <1>2, <1>5, <2>1, <3>1, Within DEF InPass
        <3>5. ToSweep(m) => ToSweep(m)'
            BY <1>5, <2>3 DEF ToSweep
        <3>6. Failed(m[1]) => Failed(m[1])'
            BY <1>2, <1>5, <2>1 DEF Failed
        <3>. QED BY <3>2, <3>3, <3>4, <3>5, <3>6 DEF Inv, DerivedOwed
    <2>. QED BY <2>2, <2>3
<1>37. SharedOwed'
    <2>. SUFFICES ASSUME NEW m \in Minted, InShared(m)'
                  PROVE  (InOwn(m) \/ InPass(m) \/ m \in rel[m[1]].dropped \/ Failed(m[1]))'
        BY DEF SharedOwed
    <2>1. InShared(m) /\ m[1] \in Artefacts
        BY <1>1, <1>6, Names, Within DEF InShared
    <2>2. CASE m[1] = a
        BY <1>2, <1>5, <2>1, <2>2 DEF Inv, Disowned
    <2>3. CASE m[1] # a
        <3>1. m \notin rel[a].dropped
            BY <2>1, <2>3 DEF Inv, Apart
        <3>2. \A s \in Sets : m \in contents[s] => m \in contents'[s]
            BY <1>6, <3>1
        <3>3. InOwn(m) => InOwn(m)'
            BY <1>1, <2>1, <3>2, Names, Within DEF InOwn
        <3>4. InPass(m) => InPass(m)'
            BY <1>5, <2>1, <2>3, <3>2, Within DEF InPass
        <3>5. Failed(m[1]) => Failed(m[1])'
            BY <1>5, <2>1, <2>3 DEF Failed
        <3>. QED BY <1>5, <2>1, <2>3, <3>3, <3>4, <3>5 DEF Inv, SharedOwed
    <2>. QED BY <2>2, <2>3
<1>38. Disowned'
    BY <1>1, <1>2, <1>5, <1>6, Names, Within DEF Inv, Disowned, InShared
<1>39. Swept'
    BY <1>1, <1>2, <1>5, <1>6, Names, Within DEF Inv, Swept
<1>. QED
    BY <1>20, <1>21, <1>22, <1>23, <1>24, <1>25, <1>26, <1>27, <1>28, <1>29, <1>30, <1>31, <1>32, <1>33,
       <1>34, <1>35, <1>36, <1>37, <1>38, <1>39
       DEF Inv

(* The pair's lock goes.                                                   *)
LEMMA StepSweepLocks == ASSUME Inv, NEW a \in Artefacts, SweepLocks(a) PROVE Inv'
<1>1. /\ life' = life /\ at' = at /\ fresh' = fresh /\ CLAIMED' = CLAIMED /\ ADOPTED' = ADOPTED
      /\ contents' = contents /\ MODEL_CACHE' = MODEL_CACHE /\ derived' = derived /\ REDUCE_ENTRIES' = REDUCE_ENTRIES /\ holder' = holder
      /\ minted' = minted /\ sets' = sets /\ locks' = locks /\ pc' = pc /\ on' = on
      /\ made' = made /\ lock' = lock /\ set' = set /\ adopting' = adopting /\ answer' = answer
    BY DEF SweepLocks, Releases, births, owning, memos, counts, thread
<1>2. rel[a].step = "locks"
    BY <1>1 DEF SweepLocks, Releases
<1>3. Codegen(a) \in rel[a].dropped
    BY <1>1, <1>2 DEF Inv, Lives
<1>4. rel[a] \in Passes
    BY <1>1, <1>2, <1>3 DEF Inv, Objects
<1>5. rel' = [rel EXCEPT ![a] = [rel[a] EXCEPT !.step = "derived"]]
    BY <1>1, <1>2, <1>3, <1>4 DEF SweepLocks, Releases
<1>6. /\ rel' \in [Artefacts -> Passes]
      /\ rel'[a].step = "derived"
      /\ \A c \in Artefacts \ {a} : rel'[c] = rel[c]
      /\ \A c \in Artefacts : rel'[c].frontier = rel[c].frontier /\ rel'[c].dropped = rel[c].dropped /\ rel'[c].set = rel[c].set /\ rel'[c].records = rel[c].records
    BY <1>1, <1>2, <1>3, <1>4, <1>5, Names DEF Inv, Objects, Passes, Steps
<1>7. /\ ONCE' \in [Artefacts -> Locks \cup {None}] /\ ONCE'[a] = None
      /\ \A b \in Artefacts : ONCE'[b] = None \/ ONCE'[b] = ONCE[b]
    BY <1>1, <1>2, <1>3, <1>4, <1>5, <1>6 DEF SweepLocks, KeyDropped, Inv, Filing
<1>20. Objects'
    BY <1>1, <1>2, <1>3, <1>6, <1>7, Names DEF Inv, Objects
<1>21. Filing'
    BY <1>1, <1>2, <1>3, <1>6, <1>7, Names DEF Inv, Filing
<1>22. Running'
    BY <1>1 DEF Inv, Running
<1>23. Lives'
    BY <1>1, <1>2, <1>3, <1>6, <1>7, Names, Within DEF Inv, Lives, Sweeping
<1>24. NoStaleClaim'
    BY <1>1, <1>2, <1>3, <1>6, <1>7, Names, Within DEF Inv, NoStaleClaim
<1>25. Parses'
    BY <1>1 DEF Inv, Parses, Locked
<1>26. Held'
    BY <1>1 DEF Inv, Held, Locked
<1>27. Shelves'
    BY <1>1 DEF Inv, Shelves
<1>28. TakenOut'
    BY <1>1, <1>2, <1>3, <1>6, <1>7, Names, Within DEF Inv, TakenOut
<1>29. OwnSets'
    BY <1>1 DEF Inv, OwnSets
<1>30. GivenUp'
    BY <1>1, <1>2, <1>3, <1>6, <1>7, Names, Within DEF Inv, GivenUp
<1>31. Numbers'
    BY <1>1, <1>2, <1>3, <1>6, <1>7, Names, Within DEF Inv, Numbers
<1>32. Unmet'
    BY <1>1, <1>2, <1>3, <1>6, <1>7, Names, Within DEF Inv, Unmet, Unshared
<1>33. OwnFirst'
    BY <1>1 DEF Inv, OwnFirst, Sharing, InOwn
<1>34. Apart'
    BY <1>1, <1>2, <1>3, <1>6, <1>7, Names, Within DEF Inv, Apart, InShared
<1>35. PassApart'
    BY <1>1, <1>2, <1>3, <1>6, <1>7, Names, Within DEF Inv, PassApart, InShared
<1>36. DerivedOwed'
    <2>1. \A m \in Minted : (InHand(m)' <=> InHand(m)) /\ (InOwn(m)' <=> InOwn(m))
        BY <1>1, Names DEF InHand, InOwn
    <2>2. \A m \in Minted : m \in derived' /\ (InPass(m) \/ ToSweep(m) \/ Failed(m[1])) =>
                (InPass(m) \/ ToSweep(m) \/ Failed(m[1]))'
        BY <1>1, <1>2, <1>6, Names, Within DEF InPass, ToSweep, Failed
    <2>. QED BY Within, <1>1, <1>2, <1>6, <2>1, <2>2 DEF Inv, DerivedOwed
<1>37. SharedOwed'
    BY <1>1, <1>2, <1>3, <1>6, <1>7, Names, Within DEF Inv, SharedOwed, InShared, InOwn, InPass, Failed
<1>38. Disowned'
    BY <1>1, <1>2, <1>3, <1>6, <1>7, Names, Within DEF Inv, Disowned, InShared
<1>39. Swept'
    BY <1>1, <1>2, <1>3, <1>6, <1>7, Names, Within DEF Inv, Swept
<1>. QED
    BY <1>20, <1>21, <1>22, <1>23, <1>24, <1>25, <1>26, <1>27, <1>28, <1>29, <1>30, <1>31, <1>32, <1>33,
       <1>34, <1>35, <1>36, <1>37, <1>38, <1>39
       DEF Inv

(* What was dropped leaves the memos keyed on it.                          *)
LEMMA StepSweepDerived == ASSUME Inv, NEW a \in Artefacts, SweepDerived(a) PROVE Inv'
<1>1. /\ life' = life /\ at' = at /\ fresh' = fresh /\ CLAIMED' = CLAIMED /\ ADOPTED' = ADOPTED
      /\ contents' = contents /\ MODEL_CACHE' = MODEL_CACHE /\ ONCE' = ONCE /\ REDUCE_ENTRIES' = REDUCE_ENTRIES /\ holder' = holder
      /\ minted' = minted /\ sets' = sets /\ locks' = locks /\ pc' = pc /\ on' = on
      /\ made' = made /\ lock' = lock /\ set' = set /\ adopting' = adopting /\ answer' = answer
    BY DEF SweepDerived, Releases, births, owning, memos, counts, thread
<1>2. rel[a].step = "derived"
    BY <1>1 DEF SweepDerived, Releases
<1>3. derived' = derived \ rel[a].dropped
    BY <1>1, <1>2 DEF SweepDerived
<1>4. rel[a] \in Passes
    BY <1>1, <1>2, <1>3 DEF Inv, Objects
<1>5. rel' = [rel EXCEPT ![a] = [rel[a] EXCEPT !.step = "products"]]
    BY <1>1, <1>2, <1>3, <1>4 DEF SweepDerived, Releases
<1>6. /\ rel' \in [Artefacts -> Passes]
      /\ rel'[a].step = "products"
      /\ \A c \in Artefacts \ {a} : rel'[c] = rel[c]
      /\ \A c \in Artefacts : rel'[c].frontier = rel[c].frontier /\ rel'[c].dropped = rel[c].dropped /\ rel'[c].set = rel[c].set /\ rel'[c].records = rel[c].records
    BY <1>1, <1>2, <1>3, <1>4, <1>5, Names DEF Inv, Objects, Passes, Steps
<1>20. Objects'
    BY <1>1, <1>2, <1>3, <1>6, Names DEF Inv, Objects
<1>21. Filing'
    BY <1>1, <1>2, <1>3, <1>6, Names DEF Inv, Filing
<1>22. Running'
    BY <1>1 DEF Inv, Running
<1>23. Lives'
    BY <1>1, <1>2, <1>3, <1>6, Names, Within DEF Inv, Lives, Sweeping
<1>24. NoStaleClaim'
    BY <1>1, <1>2, <1>3, <1>6, Names, Within DEF Inv, NoStaleClaim
<1>25. Parses'
    BY <1>1 DEF Inv, Parses, Locked
<1>26. Held'
    BY <1>1 DEF Inv, Held, Locked
<1>27. Shelves'
    BY <1>1 DEF Inv, Shelves
<1>28. TakenOut'
    BY <1>1, <1>2, <1>3, <1>6, Names, Within DEF Inv, TakenOut
<1>29. OwnSets'
    BY <1>1 DEF Inv, OwnSets
<1>30. GivenUp'
    BY <1>1, <1>2, <1>3, <1>6, Names, Within DEF Inv, GivenUp
<1>31. Numbers'
    BY <1>1, <1>2, <1>3, <1>6, Names, Within DEF Inv, Numbers
<1>32. Unmet'
    BY <1>1, <1>2, <1>3, <1>6, Names, Within DEF Inv, Unmet, Unshared
<1>33. OwnFirst'
    BY <1>1 DEF Inv, OwnFirst, Sharing, InOwn
<1>34. Apart'
    BY <1>1, <1>2, <1>3, <1>6, Names, Within DEF Inv, Apart, InShared
<1>35. PassApart'
    BY <1>1, <1>2, <1>3, <1>6, Names, Within DEF Inv, PassApart, InShared
<1>36. DerivedOwed'
    BY <1>1, <1>2, <1>3, <1>6, Names, Within DEF Inv, DerivedOwed, InHand, InOwn, InPass, ToSweep, Failed
<1>37. SharedOwed'
    BY <1>1, <1>2, <1>3, <1>6, Names, Within DEF Inv, SharedOwed, InShared, InOwn, InPass, Failed
<1>38. Disowned'
    BY <1>1, <1>2, <1>3, <1>6, Names, Within DEF Inv, Disowned, InShared
<1>39. Swept'
    BY <1>1, <1>2, <1>3, <1>6, Names, Within DEF Inv, Swept
<1>. QED
    BY <1>20, <1>21, <1>22, <1>23, <1>24, <1>25, <1>26, <1>27, <1>28, <1>29, <1>30, <1>31, <1>32, <1>33,
       <1>34, <1>35, <1>36, <1>37, <1>38, <1>39
       DEF Inv

(* The pair's product goes.                                                *)
LEMMA StepSweepProducts == ASSUME Inv, NEW a \in Artefacts, SweepProducts(a) PROVE Inv'
<1>1. /\ life' = life /\ at' = at /\ fresh' = fresh /\ CLAIMED' = CLAIMED /\ ADOPTED' = ADOPTED
      /\ contents' = contents /\ derived' = derived /\ ONCE' = ONCE /\ REDUCE_ENTRIES' = REDUCE_ENTRIES /\ holder' = holder
      /\ minted' = minted /\ sets' = sets /\ locks' = locks /\ pc' = pc /\ on' = on
      /\ made' = made /\ lock' = lock /\ set' = set /\ adopting' = adopting /\ answer' = answer
    BY DEF SweepProducts, Releases, births, owning, memos, counts, thread
<1>2. rel[a].step = "products"
    BY <1>1 DEF SweepProducts, Releases
<1>3. Codegen(a) \in rel[a].dropped
    BY <1>1, <1>2 DEF Inv, Lives
<1>4. rel[a] \in Passes
    BY <1>1, <1>2, <1>3 DEF Inv, Objects
<1>5. rel' = [rel EXCEPT ![a] = [rel[a] EXCEPT !.step = "reductions"]]
    BY <1>1, <1>2, <1>3, <1>4 DEF SweepProducts, Releases
<1>6. /\ rel' \in [Artefacts -> Passes]
      /\ rel'[a].step = "reductions"
      /\ \A c \in Artefacts \ {a} : rel'[c] = rel[c]
      /\ \A c \in Artefacts : rel'[c].frontier = rel[c].frontier /\ rel'[c].dropped = rel[c].dropped /\ rel'[c].set = rel[c].set /\ rel'[c].records = rel[c].records
    BY <1>1, <1>2, <1>3, <1>4, <1>5, Names DEF Inv, Objects, Passes, Steps
<1>7. /\ MODEL_CACHE' \in [Artefacts -> Minted \cup {None}] /\ MODEL_CACHE'[a] = None
      /\ \A b \in Artefacts : MODEL_CACHE'[b] = None \/ MODEL_CACHE'[b] = MODEL_CACHE[b]
    BY <1>1, <1>2, <1>3, <1>4, <1>5, <1>6 DEF SweepProducts, KeyDropped, Inv, Filing
<1>20. Objects'
    BY <1>1, <1>2, <1>3, <1>6, <1>7, Names DEF Inv, Objects
<1>21. Filing'
    BY <1>1, <1>2, <1>3, <1>6, <1>7, Names DEF Inv, Filing
<1>22. Running'
    BY <1>1 DEF Inv, Running
<1>23. Lives'
    BY <1>1, <1>2, <1>3, <1>6, <1>7, Names, Within DEF Inv, Lives, Sweeping
<1>24. NoStaleClaim'
    BY <1>1, <1>2, <1>3, <1>6, <1>7, Names, Within DEF Inv, NoStaleClaim
<1>25. Parses'
    BY <1>1 DEF Inv, Parses, Locked
<1>26. Held'
    BY <1>1 DEF Inv, Held, Locked
<1>27. Shelves'
    BY <1>1 DEF Inv, Shelves
<1>28. TakenOut'
    BY <1>1, <1>2, <1>3, <1>6, <1>7, Names, Within DEF Inv, TakenOut
<1>29. OwnSets'
    BY <1>1 DEF Inv, OwnSets
<1>30. GivenUp'
    BY <1>1, <1>2, <1>3, <1>6, <1>7, Names, Within DEF Inv, GivenUp
<1>31. Numbers'
    BY <1>1, <1>2, <1>3, <1>6, <1>7, Names, Within DEF Inv, Numbers
<1>32. Unmet'
    BY <1>1, <1>2, <1>3, <1>6, <1>7, Names, Within DEF Inv, Unmet, Unshared
<1>33. OwnFirst'
    BY <1>1 DEF Inv, OwnFirst, Sharing, InOwn
<1>34. Apart'
    BY <1>1, <1>2, <1>3, <1>6, <1>7, Names, Within DEF Inv, Apart, InShared
<1>35. PassApart'
    BY <1>1, <1>2, <1>3, <1>6, <1>7, Names, Within DEF Inv, PassApart, InShared
<1>36. DerivedOwed'
    BY <1>1, <1>2, <1>3, <1>6, <1>7, Names, Within DEF Inv, DerivedOwed, InHand, InOwn, InPass, ToSweep, Failed
<1>37. SharedOwed'
    BY <1>1, <1>2, <1>3, <1>6, <1>7, Names, Within DEF Inv, SharedOwed, InShared, InOwn, InPass, Failed
<1>38. Disowned'
    BY <1>1, <1>2, <1>3, <1>6, <1>7, Names, Within DEF Inv, Disowned, InShared
<1>39. Swept'
    BY <1>1, <1>2, <1>3, <1>6, <1>7, Names, Within DEF Inv, Swept
<1>. QED
    BY <1>20, <1>21, <1>22, <1>23, <1>24, <1>25, <1>26, <1>27, <1>28, <1>29, <1>30, <1>31, <1>32, <1>33,
       <1>34, <1>35, <1>36, <1>37, <1>38, <1>39
       DEF Inv

(* The last memo, and the release is over.                                 *)
LEMMA StepSweepReductions == ASSUME Inv, NEW a \in Artefacts, SweepReductions(a) PROVE Inv'
<1>1. /\ at' = at /\ fresh' = fresh /\ CLAIMED' = CLAIMED /\ ADOPTED' = ADOPTED /\ contents' = contents
      /\ MODEL_CACHE' = MODEL_CACHE /\ derived' = derived /\ ONCE' = ONCE /\ holder' = holder /\ minted' = minted
      /\ sets' = sets /\ locks' = locks /\ pc' = pc /\ on' = on /\ made' = made
      /\ lock' = lock /\ set' = set /\ adopting' = adopting /\ answer' = answer
    BY DEF SweepReductions, Releases, Over, births, owning, memos, counts, thread
<1>2. rel[a].step = "reductions"
    BY <1>1 DEF SweepReductions, Releases
<1>3. rel[a] \in Passes
    BY <1>1, <1>2 DEF Inv, Objects
<1>4. rel' = [rel EXCEPT ![a] = [rel[a] EXCEPT !.step = "done"]]
    BY <1>1, <1>2, <1>3 DEF SweepReductions, Releases
<1>5. /\ rel' \in [Artefacts -> Passes]
      /\ rel'[a].step = "done"
      /\ \A c \in Artefacts \ {a} : rel'[c] = rel[c]
      /\ \A c \in Artefacts : rel'[c].frontier = rel[c].frontier /\ rel'[c].dropped = rel[c].dropped /\ rel'[c].set = rel[c].set /\ rel'[c].records = rel[c].records
    BY <1>1, <1>2, <1>3, <1>4, Names DEF Inv, Objects, Passes, Steps
<1>6. /\ life[a] = "dying" /\ life'[a] = "gone" /\ \A c \in Artefacts \ {a} : life'[c] = life[c]
      /\ life' \in [Artefacts -> {"unborn", "binding", "live", "dying", "gone"}]
    BY <1>1, <1>2, <1>3, <1>4, <1>5 DEF SweepReductions, Over, Inv, Objects, Lives, Sweeping
<1>7. REDUCE_ENTRIES' \in [Addresses -> Artefacts \cup {None}]
    BY <1>1, <1>2, <1>3, <1>4, <1>5, <1>6 DEF SweepReductions, Inv, Filing
<1>20. Objects'
    BY <1>1, <1>2, <1>5, <1>6, <1>7, Names DEF Inv, Objects
<1>21. Filing'
    BY <1>1, <1>2, <1>5, <1>6, <1>7, Names DEF Inv, Filing
<1>22. Running'
    BY <1>1 DEF Inv, Running
<1>23. Lives'
    BY <1>1, <1>2, <1>5, <1>6, <1>7, Names, Within DEF Inv, Lives, Sweeping
<1>24. NoStaleClaim'
    BY <1>1, <1>2, <1>5, <1>6, <1>7, Names, Within DEF Inv, NoStaleClaim
<1>25. Parses'
    BY <1>1, <1>2, <1>5, <1>6, <1>7, Names, Within DEF Inv, Parses, Locked
<1>26. Held'
    BY <1>1 DEF Inv, Held, Locked
<1>27. Shelves'
    BY <1>1 DEF Inv, Shelves
<1>28. TakenOut'
    BY <1>1, <1>2, <1>5, <1>6, <1>7, Names, Within DEF Inv, TakenOut
<1>29. OwnSets'
    BY <1>1 DEF Inv, OwnSets
<1>30. GivenUp'
    BY <1>1, <1>2, <1>5, <1>6, <1>7, Names, Within DEF Inv, GivenUp
<1>31. Numbers'
    BY <1>1, <1>2, <1>5, <1>6, <1>7, Names, Within DEF Inv, Numbers
<1>32. Unmet'
    BY <1>1, <1>2, <1>5, <1>6, <1>7, Names, Within DEF Inv, Unmet, Unshared
<1>33. OwnFirst'
    BY <1>1 DEF Inv, OwnFirst, Sharing, InOwn
<1>34. Apart'
    BY <1>1, <1>2, <1>5, <1>6, <1>7, Names, Within DEF Inv, Apart, InShared
<1>35. PassApart'
    BY <1>1, <1>2, <1>5, <1>6, <1>7, Names, Within DEF Inv, PassApart, InShared
<1>36. DerivedOwed'
    BY <1>1, <1>2, <1>5, <1>6, <1>7, Names, Within DEF Inv, DerivedOwed, InHand, InOwn, InPass, ToSweep, Failed
<1>37. SharedOwed'
    BY <1>1, <1>2, <1>5, <1>6, <1>7, Names, Within DEF Inv, SharedOwed, InShared, InOwn, InPass, Failed
<1>38. Disowned'
    BY <1>1, <1>2, <1>5, <1>6, <1>7, Names, Within DEF Inv, Disowned, InShared
<1>39. Swept'
    BY <1>1, <1>2, <1>5, <1>6, <1>7, Names, Within DEF Inv, Swept
<1>. QED
    BY <1>20, <1>21, <1>22, <1>23, <1>24, <1>25, <1>26, <1>27, <1>28, <1>29, <1>30, <1>31, <1>32, <1>33,
       <1>34, <1>35, <1>36, <1>37, <1>38, <1>39
       DEF Inv

(* A release that fails there keeps what it holds, and owes nothing more.  *)
LEMMA StepIterateFails == ASSUME Inv, NEW a \in Artefacts, IterateFails(a) PROVE Inv'
<1>1. /\ at' = at /\ fresh' = fresh /\ CLAIMED' = CLAIMED /\ ADOPTED' = ADOPTED /\ contents' = contents
      /\ MODEL_CACHE' = MODEL_CACHE /\ derived' = derived /\ ONCE' = ONCE /\ REDUCE_ENTRIES' = REDUCE_ENTRIES /\ holder' = holder
      /\ minted' = minted /\ sets' = sets /\ locks' = locks /\ pc' = pc /\ on' = on
      /\ made' = made /\ lock' = lock /\ set' = set /\ adopting' = adopting /\ answer' = answer
    BY DEF IterateFails, Releases, Over, births, owning, memos, counts, thread
<1>2. rel[a].step = "iterate"
    BY <1>1 DEF IterateFails, Releases
<1>3. rel[a] \in Passes
    BY <1>1, <1>2 DEF Inv, Objects
<1>4. rel' = [rel EXCEPT ![a] = [rel[a] EXCEPT !.step = "failed"]]
    BY <1>1, <1>2, <1>3 DEF IterateFails, Releases
<1>5. /\ rel' \in [Artefacts -> Passes]
      /\ rel'[a].step = "failed"
      /\ \A c \in Artefacts \ {a} : rel'[c] = rel[c]
      /\ \A c \in Artefacts : rel'[c].frontier = rel[c].frontier /\ rel'[c].dropped = rel[c].dropped /\ rel'[c].set = rel[c].set /\ rel'[c].records = rel[c].records
    BY <1>1, <1>2, <1>3, <1>4, Names DEF Inv, Objects, Passes, Steps
<1>6. /\ life[a] = "dying" /\ life'[a] = "gone" /\ \A c \in Artefacts \ {a} : life'[c] = life[c]
      /\ life' \in [Artefacts -> {"unborn", "binding", "live", "dying", "gone"}]
    BY <1>1, <1>2, <1>3, <1>4, <1>5 DEF IterateFails, Over, Inv, Objects, Lives, Sweeping
<1>20. Objects'
    BY <1>1, <1>2, <1>5, <1>6, Names DEF Inv, Objects
<1>21. Filing'
    BY <1>1 DEF Inv, Filing
<1>22. Running'
    BY <1>1 DEF Inv, Running
<1>23. Lives'
    BY <1>1, <1>2, <1>5, <1>6, Names, Within DEF Inv, Lives, Sweeping
<1>24. NoStaleClaim'
    BY <1>1, <1>2, <1>5, <1>6, Names, Within DEF Inv, NoStaleClaim
<1>25. Parses'
    BY <1>1, <1>2, <1>5, <1>6, Names, Within DEF Inv, Parses, Locked
<1>26. Held'
    BY <1>1 DEF Inv, Held, Locked
<1>27. Shelves'
    BY <1>1 DEF Inv, Shelves
<1>28. TakenOut'
    BY <1>1, <1>2, <1>5, <1>6, Names, Within DEF Inv, TakenOut
<1>29. OwnSets'
    BY <1>1 DEF Inv, OwnSets
<1>30. GivenUp'
    BY <1>1, <1>2, <1>5, <1>6, Names, Within DEF Inv, GivenUp
<1>31. Numbers'
    BY <1>1, <1>2, <1>5, <1>6, Names, Within DEF Inv, Numbers
<1>32. Unmet'
    BY <1>1, <1>2, <1>5, <1>6, Names, Within DEF Inv, Unmet, Unshared
<1>33. OwnFirst'
    BY <1>1 DEF Inv, OwnFirst, Sharing, InOwn
<1>34. Apart'
    BY <1>1, <1>2, <1>5, <1>6, Names, Within DEF Inv, Apart, InShared
<1>35. PassApart'
    BY <1>1, <1>2, <1>5, <1>6, Names, Within DEF Inv, PassApart, InShared
<1>36. DerivedOwed'
    BY <1>1, <1>2, <1>5, <1>6, Names, Within DEF Inv, DerivedOwed, InHand, InOwn, InPass, ToSweep, Failed
<1>37. SharedOwed'
    BY <1>1, <1>2, <1>5, <1>6, Names, Within DEF Inv, SharedOwed, InShared, InOwn, InPass, Failed
<1>38. Disowned'
    BY <1>1, <1>2, <1>5, <1>6, Names, Within DEF Inv, Disowned, InShared
<1>39. Swept'
    BY <1>1, <1>2, <1>5, <1>6, Names, Within DEF Inv, Swept
<1>. QED
    BY <1>20, <1>21, <1>22, <1>23, <1>24, <1>25, <1>26, <1>27, <1>28, <1>29, <1>30, <1>31, <1>32, <1>33,
       <1>34, <1>35, <1>36, <1>37, <1>38, <1>39
       DEF Inv

(* The members of a set nobody else has are dropped; none is in the shared *)
(* product's set, nor on its way there.                                    *)
LEMMA StepIterate == ASSUME Inv, NEW a \in Artefacts, Iterate(a) PROVE Inv'
<1>1. /\ life' = life /\ at' = at /\ fresh' = fresh /\ CLAIMED' = CLAIMED /\ ADOPTED' = ADOPTED
      /\ contents' = contents /\ MODEL_CACHE' = MODEL_CACHE /\ derived' = derived /\ ONCE' = ONCE /\ REDUCE_ENTRIES' = REDUCE_ENTRIES
      /\ holder' = holder /\ minted' = minted /\ sets' = sets /\ locks' = locks /\ pc' = pc
      /\ on' = on /\ made' = made /\ lock' = lock /\ set' = set /\ adopting' = adopting
      /\ answer' = answer
    BY DEF Iterate, births, owning, memos, counts, thread
<1>2. rel[a].step = "iterate"
    BY <1>1 DEF Iterate
<1>3. rel[a].set \in Sets /\ contents[rel[a].set] \subseteq Minted
    BY <1>1, <1>2 DEF Inv, Objects, Passes, Filing, Lives
<1>4. rel[a] \in Passes
    BY <1>1, <1>2, <1>3 DEF Inv, Objects
<1>5. rel' = [rel EXCEPT ![a] = [rel[a] EXCEPT !.step = "expand", !.dropped = @ \cup contents[rel[a].set],
                                    !.frontier = @ \cup (contents[rel[a].set] \ rel[a].dropped)]]
    BY <1>1, <1>2, <1>3, <1>4 DEF Iterate
<1>6. /\ rel' \in [Artefacts -> Passes]
      /\ rel'[a].step = "expand" /\ rel'[a].frontier = rel[a].frontier \cup (contents[rel[a].set] \ rel[a].dropped) /\ rel'[a].dropped = rel[a].dropped \cup contents[rel[a].set]
      /\ \A c \in Artefacts \ {a} : rel'[c] = rel[c]
      /\ \A c \in Artefacts : rel'[c].set = rel[c].set /\ rel'[c].records = rel[c].records
    BY <1>1, <1>2, <1>3, <1>4, <1>5, Names DEF Inv, Objects, Passes, Steps
<1>20. Objects'
    BY <1>1, <1>2, <1>3, <1>6, Names DEF Inv, Objects
<1>21. Filing'
    BY <1>1 DEF Inv, Filing
<1>22. Running'
    BY <1>1 DEF Inv, Running
<1>23. Lives'
    BY <1>1, <1>2, <1>3, <1>6, Names, Within DEF Inv, Lives, Sweeping
<1>24. NoStaleClaim'
    BY <1>1, <1>2, <1>3, <1>6, Names, Within DEF Inv, NoStaleClaim
<1>25. Parses'
    BY <1>1 DEF Inv, Parses, Locked
<1>26. Held'
    BY <1>1 DEF Inv, Held, Locked
<1>27. Shelves'
    BY <1>1 DEF Inv, Shelves
<1>28. TakenOut'
    BY <1>1, <1>2, <1>3, <1>6, Names, Within DEF Inv, TakenOut
<1>29. OwnSets'
    BY <1>1 DEF Inv, OwnSets
<1>30. GivenUp'
    BY <1>1, <1>2, <1>3, <1>6, Names, Within DEF Inv, GivenUp
<1>31. Numbers'
    BY <1>1, <1>2, <1>3, <1>6, Names, Within DEF Inv, Numbers
<1>32. Unmet'
    BY <1>1, <1>2, <1>3, <1>6, Names, Within DEF Inv, Unmet, Unshared, TakenOut, Parses
<1>33. OwnFirst'
    BY <1>1 DEF Inv, OwnFirst, Sharing, InOwn
<1>34. Apart'
    BY <1>1, <1>2, <1>3, <1>6, Names, Within DEF Inv, Apart, InShared, PassApart
<1>35. PassApart'
    BY <1>1, <1>2, <1>3, <1>6, Names, Within DEF Inv, PassApart, InShared
<1>36. DerivedOwed'
    BY <1>1, <1>2, <1>3, <1>6, Names, Within DEF Inv, DerivedOwed, InHand, InOwn, InPass, ToSweep, Failed
<1>37. SharedOwed'
    BY <1>1, <1>2, <1>3, <1>6, Names, Within DEF Inv, SharedOwed, InShared, InOwn, InPass, Failed
<1>38. Disowned'
    BY <1>1, <1>2, <1>3, <1>6, Names, Within DEF Inv, Disowned, InShared
<1>39. Swept'
    BY <1>1, <1>2, <1>3, <1>6, Names, Within DEF Inv, Swept
<1>. QED
    BY <1>20, <1>21, <1>22, <1>23, <1>24, <1>25, <1>26, <1>27, <1>28, <1>29, <1>30, <1>31, <1>32, <1>33,
       <1>34, <1>35, <1>36, <1>37, <1>38, <1>39
       DEF Inv

(* A death starts a release with what was claimed.                         *)
LEMMA StepDrop == ASSUME Inv, NEW a \in Artefacts, Drop(a) PROVE Inv'
<1>1. /\ at' = at /\ fresh' = fresh /\ CLAIMED' = CLAIMED /\ ADOPTED' = ADOPTED /\ contents' = contents
      /\ MODEL_CACHE' = MODEL_CACHE /\ derived' = derived /\ ONCE' = ONCE /\ REDUCE_ENTRIES' = REDUCE_ENTRIES /\ holder' = holder
      /\ minted' = minted /\ sets' = sets /\ locks' = locks /\ pc' = pc /\ on' = on
      /\ made' = made /\ lock' = lock /\ set' = set /\ adopting' = adopting /\ answer' = answer
    BY DEF Drop, NoRelease, births, owning, memos, counts, thread
<1>2. /\ life[a] = "live" /\ rel[a].step = "none" /\ \A t \in Threads : on[t] # a
      /\ \A m \in Minted : m \notin fresh[a] /\ m \notin rel[a].dropped
      /\ life'[a] = "dying" /\ \A c \in Artefacts \ {a} : life'[c] = life[c]
      /\ life' \in [Artefacts -> {"unborn", "binding", "live", "dying", "gone"}]
    BY <1>1, Names DEF Drop, Inv, Objects, Lives, Tracks
<1>3. rel' = [rel EXCEPT ![a] = [NoRelease EXCEPT !.step = "expand", !.frontier = fresh[a], !.dropped = fresh[a]]]
    BY <1>1, <1>2 DEF Drop
<1>4. /\ rel' \in [Artefacts -> Passes] /\ rel'[a].step = "expand"
      /\ rel'[a].frontier = fresh[a] /\ rel'[a].dropped = fresh[a] /\ Codegen(a) \in fresh[a]
      /\ \A c \in Artefacts \ {a} : rel'[c] = rel[c]
    BY <1>1, <1>2, <1>3 DEF Inv, Objects, Passes, Steps, Sizes, NoRelease, Lives
<1>20. Objects'
    BY <1>1, <1>2, <1>4, Names DEF Inv, Objects
<1>21. Filing'
    BY <1>1 DEF Inv, Filing
<1>22. Running'
    BY <1>1 DEF Inv, Running
<1>23. Lives'
    BY <1>1, <1>2, <1>4, Names, Within DEF Inv, Lives, Sweeping
<1>24. NoStaleClaim'
    BY <1>1, <1>2, <1>4, Names, Within DEF Inv, NoStaleClaim
<1>25. Parses'
    BY <1>1, <1>2, <1>4, Names, Within DEF Inv, Parses, Locked
<1>26. Held'
    BY <1>1 DEF Inv, Held, Locked
<1>27. Shelves'
    BY <1>1 DEF Inv, Shelves
<1>28. TakenOut'
    BY <1>1, <1>2, <1>4, Names, Within DEF Inv, TakenOut
<1>29. OwnSets'
    BY <1>1 DEF Inv, OwnSets
<1>30. GivenUp'
    BY <1>1, <1>2, <1>4, Names, Within DEF Inv, GivenUp
<1>31. Numbers'
    BY <1>1, <1>2, <1>4, Names, Within DEF Inv, Numbers
<1>32. Unmet'
    BY <1>1, <1>2, <1>4, Names, Within DEF Inv, Unmet, Unshared, Parses
<1>33. OwnFirst'
    BY <1>1 DEF Inv, OwnFirst, Sharing, InOwn
<1>34. Apart'
    BY <1>1, <1>2, <1>4, Names, Within DEF Inv, Apart, InShared
<1>35. PassApart'
    BY <1>1, <1>2, <1>4, Names, Within DEF Inv, PassApart, InShared
<1>36. DerivedOwed'
    BY <1>1, <1>2, <1>4, Names, Within DEF Inv, DerivedOwed, InHand, InOwn, InPass, ToSweep, Failed
<1>37. SharedOwed'
    BY <1>1, <1>2, <1>4, Names, Within DEF Inv, SharedOwed, InShared, InOwn, InPass, Failed
<1>38. Disowned'
    BY <1>1, <1>2, <1>4, Names, Within DEF Inv, Disowned, InShared
<1>39. Swept'
    BY <1>1, <1>2, <1>4, Names, Within DEF Inv, Swept
<1>. QED
    BY <1>20, <1>21, <1>22, <1>23, <1>24, <1>25, <1>26, <1>27, <1>28, <1>29, <1>30, <1>31, <1>32, <1>33,
       <1>34, <1>35, <1>36, <1>37, <1>38, <1>39
       DEF Inv

(* A birth: nobody else claims the artefact's codegen grammar.             *)
LEMMA StepBind == ASSUME Inv, NEW a \in Artefacts, Bind(a) PROVE Inv'
<1>1. /\ CLAIMED' = CLAIMED /\ ADOPTED' = ADOPTED /\ contents' = contents /\ MODEL_CACHE' = MODEL_CACHE /\ derived' = derived
      /\ ONCE' = ONCE /\ REDUCE_ENTRIES' = REDUCE_ENTRIES /\ holder' = holder /\ minted' = minted /\ sets' = sets
      /\ locks' = locks /\ pc' = pc /\ on' = on /\ made' = made /\ lock' = lock
      /\ set' = set /\ adopting' = adopting /\ answer' = answer /\ rel' = rel
    BY DEF Bind, births, owning, memos, counts, thread
<1>2. /\ life[a] = "unborn" /\ life'[a] = "binding" /\ \A c \in Artefacts \ {a} : life'[c] = life[c]
      /\ life' \in [Artefacts -> {"unborn", "binding", "live", "dying", "gone"}]
    BY <1>1 DEF Bind, Inv, Objects
<1>3. /\ fresh[a] = {} /\ Codegen(a) \notin CLAIMED
    BY <1>1, <1>2, Names DEF Inv, Lives, NoStaleClaim, Tracks
<1>4. /\ fresh' \in [Artefacts -> SUBSET Idents] /\ at' \in [Artefacts -> Addresses \cup {None}]
      /\ fresh'[a] \subseteq Tracks(a) /\ Codegen(a) \in fresh'[a]
      /\ \A c \in Artefacts \ {a} : fresh'[c] = fresh[c]
    BY <1>1, <1>2, <1>3, Names DEF Bind, Inv, Objects, Tracks
<1>20. Objects'
    BY <1>1, <1>2, <1>3, <1>4, Names DEF Inv, Objects
<1>21. Filing'
    BY <1>1 DEF Inv, Filing
<1>22. Running'
    BY <1>1 DEF Inv, Running
<1>23. Lives'
    BY <1>1, <1>2, <1>3, <1>4, Names, Within DEF Inv, Lives, Sweeping
<1>24. NoStaleClaim'
    BY <1>1, <1>2, <1>3, <1>4, Names, Within DEF Inv, NoStaleClaim
<1>25. Parses'
    BY <1>1, <1>2, <1>3, <1>4, Names, Within DEF Inv, Parses, Locked
<1>26. Held'
    BY <1>1 DEF Inv, Held, Locked
<1>27. Shelves'
    BY <1>1 DEF Inv, Shelves
<1>28. TakenOut'
    BY <1>1 DEF Inv, TakenOut
<1>29. OwnSets'
    BY <1>1 DEF Inv, OwnSets
<1>30. GivenUp'
    BY <1>1, <1>2, <1>3, <1>4, Names, Within DEF Inv, GivenUp
<1>31. Numbers'
    BY <1>1 DEF Inv, Numbers
<1>32. Unmet'
    BY <1>1 DEF Inv, Unmet, Unshared
<1>33. OwnFirst'
    BY <1>1 DEF Inv, OwnFirst, Sharing, InOwn
<1>34. Apart'
    BY <1>1 DEF Inv, Apart, InShared
<1>35. PassApart'
    BY <1>1 DEF Inv, PassApart, InShared
<1>36. DerivedOwed'
    BY <1>1 DEF Inv, DerivedOwed, InHand, InOwn, InPass, ToSweep, Failed
<1>37. SharedOwed'
    BY <1>1 DEF Inv, SharedOwed, InShared, InOwn, InPass, Failed
<1>38. Disowned'
    BY <1>1 DEF Inv, Disowned, InShared
<1>39. Swept'
    BY <1>1 DEF Inv, Swept
<1>. QED
    BY <1>20, <1>21, <1>22, <1>23, <1>24, <1>25, <1>26, <1>27, <1>28, <1>29, <1>30, <1>31, <1>32, <1>33,
       <1>34, <1>35, <1>36, <1>37, <1>38, <1>39
       DEF Inv

(* The claim is made.                                                      *)
LEMMA StepClaim == ASSUME Inv, NEW a \in Artefacts, Claim(a) PROVE Inv'
<1>1. /\ at' = at /\ fresh' = fresh /\ ADOPTED' = ADOPTED /\ contents' = contents /\ MODEL_CACHE' = MODEL_CACHE
      /\ derived' = derived /\ ONCE' = ONCE /\ REDUCE_ENTRIES' = REDUCE_ENTRIES /\ holder' = holder /\ minted' = minted
      /\ sets' = sets /\ locks' = locks /\ pc' = pc /\ on' = on /\ made' = made
      /\ lock' = lock /\ set' = set /\ adopting' = adopting /\ answer' = answer /\ rel' = rel
    BY DEF Claim, births, owning, memos, counts, thread
<1>2. /\ life[a] = "binding" /\ life'[a] = "live" /\ \A c \in Artefacts \ {a} : life'[c] = life[c]
      /\ life' \in [Artefacts -> {"unborn", "binding", "live", "dying", "gone"}]
    BY <1>1 DEF Claim, Inv, Objects
<1>3. /\ CLAIMED' = CLAIMED \cup fresh[a] /\ rel[a].step = "none" /\ fresh[a] \subseteq Idents
    BY <1>1, <1>2 DEF Claim, Inv, Objects, Lives
<1>20. Objects'
    BY <1>1, <1>2, <1>3, Names DEF Inv, Objects
<1>21. Filing'
    BY <1>1 DEF Inv, Filing
<1>22. Running'
    BY <1>1 DEF Inv, Running
<1>23. Lives'
    BY <1>1, <1>2, <1>3, Names, Within DEF Inv, Lives, Sweeping
<1>24. NoStaleClaim'
    BY <1>1, <1>2, <1>3, Names, Within DEF Inv, NoStaleClaim
<1>25. Parses'
    BY <1>1, <1>2, <1>3, Names, Within DEF Inv, Parses, Locked
<1>26. Held'
    BY <1>1 DEF Inv, Held, Locked
<1>27. Shelves'
    BY <1>1 DEF Inv, Shelves
<1>28. TakenOut'
    BY <1>1 DEF Inv, TakenOut
<1>29. OwnSets'
    BY <1>1 DEF Inv, OwnSets
<1>30. GivenUp'
    BY <1>1, <1>2, <1>3, Names, Within DEF Inv, GivenUp
<1>31. Numbers'
    BY <1>1 DEF Inv, Numbers
<1>32. Unmet'
    BY <1>1 DEF Inv, Unmet, Unshared
<1>33. OwnFirst'
    BY <1>1 DEF Inv, OwnFirst, Sharing, InOwn
<1>34. Apart'
    BY <1>1 DEF Inv, Apart, InShared
<1>35. PassApart'
    BY <1>1 DEF Inv, PassApart, InShared
<1>36. DerivedOwed'
    BY <1>1 DEF Inv, DerivedOwed, InHand, InOwn, InPass, ToSweep, Failed
<1>37. SharedOwed'
    BY <1>1 DEF Inv, SharedOwed, InShared, InOwn, InPass, Failed
<1>38. Disowned'
    BY <1>1 DEF Inv, Disowned, InShared
<1>39. Swept'
    BY <1>1 DEF Inv, Swept
<1>. QED
    BY <1>20, <1>21, <1>22, <1>23, <1>24, <1>25, <1>26, <1>27, <1>28, <1>29, <1>30, <1>31, <1>32, <1>33,
       <1>34, <1>35, <1>36, <1>37, <1>38, <1>39
       DEF Inv

(* A parse starts, of a live artefact.                                     *)
LEMMA StepParse == ASSUME Inv, NEW t \in Threads, NEW a \in Artefacts, Parse(t, a) PROVE Inv'
<1>1. /\ life' = life /\ at' = at /\ fresh' = fresh /\ CLAIMED' = CLAIMED /\ ADOPTED' = ADOPTED
      /\ contents' = contents /\ MODEL_CACHE' = MODEL_CACHE /\ derived' = derived /\ ONCE' = ONCE /\ REDUCE_ENTRIES' = REDUCE_ENTRIES
      /\ holder' = holder /\ minted' = minted /\ sets' = sets /\ locks' = locks /\ made' = made
      /\ lock' = lock /\ set' = set /\ adopting' = adopting /\ answer' = answer /\ rel' = rel
    BY DEF Parse, Goes, births, owning, memos, counts, thread
<1>2. /\ pc[t] = "idle" /\ pc' \in [Threads -> Pcs]
      /\ pc'[t] = "read" /\ \A u \in Threads \ {t} : pc'[u] = pc[u]
    BY <1>1 DEF Parse, Goes, Inv, Running, Pcs, Locked
<1>3. life[a] = "live"
    BY <1>1, <1>2 DEF Parse
<1>4. /\ on' \in [Threads -> Artefacts \cup {None}]
      /\ on'[t] = a /\ \A u \in Threads \ {t} : on'[u] = on[u]
    BY <1>1, <1>2, <1>3, Names DEF Parse, Goes, Inv, Running
<1>20. Objects'
    BY <1>1 DEF Inv, Objects
<1>21. Filing'
    BY <1>1 DEF Inv, Filing
<1>22. Running'
    BY <1>1, <1>2, <1>3, <1>4, Names DEF Inv, Running
<1>23. Lives'
    BY <1>1 DEF Inv, Lives, Sweeping
<1>24. NoStaleClaim'
    BY <1>1 DEF Inv, NoStaleClaim
<1>25. Parses'
    BY <1>1, <1>2, <1>3, <1>4, Names, Within DEF Inv, Parses, Locked
<1>26. Held'
    BY <1>1, <1>2, <1>3, <1>4, Names, Within DEF Inv, Held, Locked
<1>27. Shelves'
    BY <1>1 DEF Inv, Shelves
<1>28. TakenOut'
    BY <1>1 DEF Inv, TakenOut
<1>29. OwnSets'
    BY <1>1, <1>2, <1>3, <1>4, Names, Within DEF Inv, OwnSets, Parses
<1>30. GivenUp'
    BY <1>1 DEF Inv, GivenUp
<1>31. Numbers'
    BY <1>1 DEF Inv, Numbers
<1>32. Unmet'
    BY <1>1, <1>2, <1>3, <1>4, Names, Within DEF Inv, Unmet, Unshared
<1>33. OwnFirst'
    BY <1>1, <1>2, <1>3, <1>4, Names, Within DEF Inv, OwnFirst, Sharing, InOwn
<1>34. Apart'
    BY <1>1 DEF Inv, Apart, InShared
<1>35. PassApart'
    BY <1>1 DEF Inv, PassApart, InShared
<1>36. DerivedOwed'
    BY <1>1, <1>2, <1>3, <1>4, Names, Within DEF Inv, DerivedOwed, InHand, InOwn, InPass, ToSweep, Failed
<1>37. SharedOwed'
    BY <1>1 DEF Inv, SharedOwed, InShared, InOwn, InPass, Failed
<1>38. Disowned'
    BY <1>1 DEF Inv, Disowned, InShared
<1>39. Swept'
    BY <1>1 DEF Inv, Swept
<1>. QED
    BY <1>20, <1>21, <1>22, <1>23, <1>24, <1>25, <1>26, <1>27, <1>28, <1>29, <1>30, <1>31, <1>32, <1>33,
       <1>34, <1>35, <1>36, <1>37, <1>38, <1>39
       DEF Inv

(* A reduction starts.                                                     *)
LEMMA StepReduce == ASSUME Inv, NEW t \in Threads, NEW a \in Artefacts, Reduce(t, a) PROVE Inv'
<1>1. /\ life' = life /\ at' = at /\ fresh' = fresh /\ CLAIMED' = CLAIMED /\ ADOPTED' = ADOPTED
      /\ contents' = contents /\ MODEL_CACHE' = MODEL_CACHE /\ derived' = derived /\ ONCE' = ONCE /\ REDUCE_ENTRIES' = REDUCE_ENTRIES
      /\ holder' = holder /\ minted' = minted /\ sets' = sets /\ locks' = locks /\ made' = made
      /\ lock' = lock /\ set' = set /\ adopting' = adopting /\ answer' = answer /\ rel' = rel
    BY DEF Reduce, Goes, births, owning, memos, counts, thread
<1>2. /\ pc[t] = "idle" /\ pc' \in [Threads -> Pcs]
      /\ pc'[t] = "look" /\ \A u \in Threads \ {t} : pc'[u] = pc[u]
    BY <1>1 DEF Reduce, Goes, Inv, Running, Pcs, Locked
<1>3. life[a] = "live"
    BY <1>1, <1>2 DEF Reduce
<1>4. /\ on' \in [Threads -> Artefacts \cup {None}]
      /\ on'[t] = a /\ \A u \in Threads \ {t} : on'[u] = on[u]
    BY <1>1, <1>2, <1>3, Names DEF Reduce, Goes, Inv, Running
<1>20. Objects'
    BY <1>1 DEF Inv, Objects
<1>21. Filing'
    BY <1>1 DEF Inv, Filing
<1>22. Running'
    BY <1>1, <1>2, <1>3, <1>4, Names DEF Inv, Running
<1>23. Lives'
    BY <1>1 DEF Inv, Lives, Sweeping
<1>24. NoStaleClaim'
    BY <1>1 DEF Inv, NoStaleClaim
<1>25. Parses'
    BY <1>1, <1>2, <1>3, <1>4, Names, Within DEF Inv, Parses, Locked
<1>26. Held'
    BY <1>1, <1>2, <1>3, <1>4, Names, Within DEF Inv, Held, Locked
<1>27. Shelves'
    BY <1>1 DEF Inv, Shelves
<1>28. TakenOut'
    BY <1>1 DEF Inv, TakenOut
<1>29. OwnSets'
    BY <1>1, <1>2, <1>3, <1>4, Names, Within DEF Inv, OwnSets, Parses
<1>30. GivenUp'
    BY <1>1 DEF Inv, GivenUp
<1>31. Numbers'
    BY <1>1 DEF Inv, Numbers
<1>32. Unmet'
    BY <1>1, <1>2, <1>3, <1>4, Names, Within DEF Inv, Unmet, Unshared
<1>33. OwnFirst'
    BY <1>1, <1>2, <1>3, <1>4, Names, Within DEF Inv, OwnFirst, Sharing, InOwn
<1>34. Apart'
    BY <1>1 DEF Inv, Apart, InShared
<1>35. PassApart'
    BY <1>1 DEF Inv, PassApart, InShared
<1>36. DerivedOwed'
    BY <1>1, <1>2, <1>3, <1>4, Names, Within DEF Inv, DerivedOwed, InHand, InOwn, InPass, ToSweep, Failed
<1>37. SharedOwed'
    BY <1>1 DEF Inv, SharedOwed, InShared, InOwn, InPass, Failed
<1>38. Disowned'
    BY <1>1 DEF Inv, Disowned, InShared
<1>39. Swept'
    BY <1>1 DEF Inv, Swept
<1>. QED
    BY <1>20, <1>21, <1>22, <1>23, <1>24, <1>25, <1>26, <1>27, <1>28, <1>29, <1>30, <1>31, <1>32, <1>33,
       <1>34, <1>35, <1>36, <1>37, <1>38, <1>39
       DEF Inv

(* The product was kept.                                                   *)
LEMMA StepHit == ASSUME Inv, NEW t \in Threads, Hit(t) PROVE Inv'
<1>1. /\ life' = life /\ at' = at /\ fresh' = fresh /\ CLAIMED' = CLAIMED /\ ADOPTED' = ADOPTED
      /\ contents' = contents /\ MODEL_CACHE' = MODEL_CACHE /\ derived' = derived /\ ONCE' = ONCE /\ REDUCE_ENTRIES' = REDUCE_ENTRIES
      /\ holder' = holder /\ minted' = minted /\ sets' = sets /\ locks' = locks /\ set' = set
      /\ adopting' = adopting /\ rel' = rel
    BY DEF Hit, Ends, Goes, births, owning, memos, counts, thread
<1>2. /\ pc[t] = "read" /\ pc' \in [Threads -> Pcs]
      /\ pc'[t] = "idle" /\ \A u \in Threads \ {t} : pc'[u] = pc[u]
    BY <1>1 DEF Hit, Ends, Goes, Inv, Running, Pcs, Locked
<1>3. /\ on' \in [Threads -> Artefacts \cup {None}]
      /\ on'[t] = None /\ \A u \in Threads \ {t} : on'[u] = on[u]
    BY <1>1, <1>2, Names DEF Hit, Ends, Goes, Inv, Running
<1>4. /\ made' \in [Threads -> Minted \cup {None}]
      /\ made'[t] = None /\ \A u \in Threads \ {t} : made'[u] = made[u]
    BY <1>1, <1>2, <1>3, Names DEF Hit, Ends, Goes, Inv, Running
<1>5. /\ lock' \in [Threads -> Locks \cup {None}]
      /\ lock'[t] = None /\ \A u \in Threads \ {t} : lock'[u] = lock[u]
    BY <1>1, <1>2, <1>3, <1>4, Names DEF Hit, Ends, Goes, Inv, Running
<1>20. Objects'
    BY <1>1 DEF Inv, Objects
<1>21. Filing'
    BY <1>1 DEF Inv, Filing
<1>22. Running'
    BY <1>1, <1>2, <1>3, <1>4, <1>5, Names DEF Inv, Running
<1>23. Lives'
    BY <1>1 DEF Inv, Lives, Sweeping
<1>24. NoStaleClaim'
    BY <1>1 DEF Inv, NoStaleClaim
<1>25. Parses'
    BY <1>1, <1>2, <1>3, <1>4, <1>5, Names, Within DEF Inv, Parses, Locked
<1>26. Held'
    BY <1>1, <1>2, <1>3, <1>4, <1>5, Names, Within DEF Inv, Held, Locked
<1>27. Shelves'
    BY <1>1 DEF Inv, Shelves
<1>28. TakenOut'
    BY <1>1 DEF Inv, TakenOut
<1>29. OwnSets'
    BY <1>1, <1>2, <1>3, <1>4, <1>5, Names, Within DEF Inv, OwnSets, Parses
<1>30. GivenUp'
    BY <1>1 DEF Inv, GivenUp
<1>31. Numbers'
    BY <1>1, <1>2, <1>3, <1>4, <1>5, Names, Within DEF Inv, Numbers
<1>32. Unmet'
    BY <1>1, <1>2, <1>3, <1>4, <1>5, Names, Within DEF Inv, Unmet, Unshared
<1>33. OwnFirst'
    BY <1>1, <1>2, <1>3, <1>4, <1>5, Names, Within DEF Inv, OwnFirst, Sharing, InOwn
<1>34. Apart'
    BY <1>1 DEF Inv, Apart, InShared
<1>35. PassApart'
    BY <1>1 DEF Inv, PassApart, InShared
<1>36. DerivedOwed'
    BY <1>1, <1>2, <1>3, <1>4, <1>5, Names, Within DEF Inv, DerivedOwed, InHand, InOwn, InPass, ToSweep, Failed
<1>37. SharedOwed'
    BY <1>1 DEF Inv, SharedOwed, InShared, InOwn, InPass, Failed
<1>38. Disowned'
    BY <1>1 DEF Inv, Disowned, InShared
<1>39. Swept'
    BY <1>1 DEF Inv, Swept
<1>. QED
    BY <1>20, <1>21, <1>22, <1>23, <1>24, <1>25, <1>26, <1>27, <1>28, <1>29, <1>30, <1>31, <1>32, <1>33,
       <1>34, <1>35, <1>36, <1>37, <1>38, <1>39
       DEF Inv

(* Inside the lock.                                                        *)
LEMMA StepAcquire == ASSUME Inv, NEW t \in Threads, Acquire(t) PROVE Inv'
<1>1. /\ life' = life /\ at' = at /\ fresh' = fresh /\ CLAIMED' = CLAIMED /\ ADOPTED' = ADOPTED
      /\ contents' = contents /\ MODEL_CACHE' = MODEL_CACHE /\ derived' = derived /\ ONCE' = ONCE /\ REDUCE_ENTRIES' = REDUCE_ENTRIES
      /\ minted' = minted /\ sets' = sets /\ locks' = locks /\ on' = on /\ made' = made
      /\ lock' = lock /\ set' = set /\ adopting' = adopting /\ answer' = answer /\ rel' = rel
    BY DEF Acquire, Goes, births, owning, memos, counts, thread
<1>2. /\ pc[t] = "wait" /\ pc' \in [Threads -> Pcs]
      /\ pc'[t] = "check" /\ \A u \in Threads \ {t} : pc'[u] = pc[u]
    BY <1>1 DEF Acquire, Goes, Inv, Running, Pcs, Locked
<1>3. lock[t] \in Locks /\ holder[lock[t]] = None /\ holder' \in [Locks -> Threads \cup {None}]
      /\ holder'[lock[t]] = t /\ \A l \in Locks \ {lock[t]} : holder'[l] = holder[l]
    BY <1>1, <1>2 DEF Acquire, Goes, Inv, Running, Parses
<1>20. Objects'
    BY <1>1 DEF Inv, Objects
<1>21. Filing'
    BY <1>1 DEF Inv, Filing
<1>22. Running'
    BY <1>1, <1>2, <1>3, Names DEF Inv, Running
<1>23. Lives'
    BY <1>1 DEF Inv, Lives, Sweeping
<1>24. NoStaleClaim'
    BY <1>1 DEF Inv, NoStaleClaim
<1>25. Parses'
    BY <1>1, <1>2, <1>3, Names, Within DEF Inv, Parses, Locked
<1>26. Held'
    BY <1>1, <1>2, <1>3, Names, Within DEF Inv, Held, Locked
<1>27. Shelves'
    BY <1>1 DEF Inv, Shelves
<1>28. TakenOut'
    BY <1>1 DEF Inv, TakenOut
<1>29. OwnSets'
    BY <1>1, <1>2, <1>3, Names, Within DEF Inv, OwnSets, Parses
<1>30. GivenUp'
    BY <1>1 DEF Inv, GivenUp
<1>31. Numbers'
    BY <1>1 DEF Inv, Numbers
<1>32. Unmet'
    BY <1>1, <1>2, <1>3, Names, Within DEF Inv, Unmet, Unshared
<1>33. OwnFirst'
    BY <1>1, <1>2, <1>3, Names, Within DEF Inv, OwnFirst, Sharing, InOwn
<1>34. Apart'
    BY <1>1 DEF Inv, Apart, InShared
<1>35. PassApart'
    BY <1>1 DEF Inv, PassApart, InShared
<1>36. DerivedOwed'
    BY <1>1, <1>2, <1>3, Names, Within DEF Inv, DerivedOwed, InHand, InOwn, InPass, ToSweep, Failed
<1>37. SharedOwed'
    BY <1>1 DEF Inv, SharedOwed, InShared, InOwn, InPass, Failed
<1>38. Disowned'
    BY <1>1 DEF Inv, Disowned, InShared
<1>39. Swept'
    BY <1>1 DEF Inv, Swept
<1>. QED
    BY <1>20, <1>21, <1>22, <1>23, <1>24, <1>25, <1>26, <1>27, <1>28, <1>29, <1>30, <1>31, <1>32, <1>33,
       <1>34, <1>35, <1>36, <1>37, <1>38, <1>39
       DEF Inv

(* A product is minted: nothing has met it yet.                            *)
LEMMA StepCompile == ASSUME Inv, NEW t \in Threads, Compile(t) PROVE Inv'
<1>1. /\ life' = life /\ at' = at /\ fresh' = fresh /\ CLAIMED' = CLAIMED /\ ADOPTED' = ADOPTED
      /\ contents' = contents /\ MODEL_CACHE' = MODEL_CACHE /\ ONCE' = ONCE /\ REDUCE_ENTRIES' = REDUCE_ENTRIES /\ holder' = holder
      /\ sets' = sets /\ locks' = locks /\ on' = on /\ lock' = lock /\ set' = set
      /\ adopting' = adopting /\ answer' = answer /\ rel' = rel
    BY DEF Compile, Goes, births, owning, memos, counts, thread
<1>2. /\ pc[t] = "compile" /\ pc' \in [Threads -> Pcs]
      /\ pc'[t] = "store" /\ \A u \in Threads \ {t} : pc'[u] = pc[u]
    BY <1>1 DEF Compile, Goes, Inv, Running, Pcs, Locked
<1>3. /\ minted \in 0..MaxMint /\ minted' = minted + 1 /\ minted' \in 1..MaxMint
      /\ on[t] \in Artefacts /\ <<on[t], minted'>> \in Minted /\ derived' = derived \cup {<<on[t], minted'>>}
    BY <1>1, <1>2, Names DEF Compile, Goes, Inv, Filing, Running, Parses, Minted
<1>4. /\ made' \in [Threads -> Minted \cup {None}]
      /\ made'[t] = <<on[t], minted'>> /\ \A u \in Threads \ {t} : made'[u] = made[u]
    BY <1>1, <1>2, <1>3, Names DEF Compile, Goes, Inv, Running
<1>20. Objects'
    BY <1>1 DEF Inv, Objects
<1>21. Filing'
    BY <1>1, <1>2, <1>3, <1>4, Names DEF Inv, Filing
<1>22. Running'
    BY <1>1, <1>2, <1>3, <1>4, Names DEF Inv, Running
<1>23. Lives'
    BY <1>1 DEF Inv, Lives, Sweeping
<1>24. NoStaleClaim'
    BY <1>1 DEF Inv, NoStaleClaim
<1>25. Parses'
    BY <1>1, <1>2, <1>3, <1>4, Names, Within DEF Inv, Parses, Locked
<1>26. Held'
    BY <1>1, <1>2, <1>3, <1>4, Names, Within DEF Inv, Held, Locked
<1>27. Shelves'
    BY <1>1 DEF Inv, Shelves
<1>28. TakenOut'
    BY <1>1 DEF Inv, TakenOut
<1>29. OwnSets'
    BY <1>1, <1>2, <1>3, <1>4, Names, Within DEF Inv, OwnSets, Parses
<1>30. GivenUp'
    BY <1>1 DEF Inv, GivenUp
<1>31. Numbers'
    BY <1>1, <1>2, <1>3, <1>4, Names, Within DEF Inv, Numbers
<1>32. Unmet'
    BY <1>1, <1>2, <1>3, <1>4, Names, Within DEF Inv, Unmet, Unshared, Numbers, Parses
<1>33. OwnFirst'
    BY <1>1, <1>2, <1>3, <1>4, Names, Within DEF Inv, OwnFirst, Sharing, InOwn
<1>34. Apart'
    BY <1>1 DEF Inv, Apart, InShared
<1>35. PassApart'
    BY <1>1 DEF Inv, PassApart, InShared
<1>36. DerivedOwed'
    BY <1>1, <1>2, <1>3, <1>4, Names, Within DEF Inv, DerivedOwed, InHand, InOwn, InPass, ToSweep, Failed
<1>37. SharedOwed'
    BY <1>1 DEF Inv, SharedOwed, InShared, InOwn, InPass, Failed
<1>38. Disowned'
    BY <1>1 DEF Inv, Disowned, InShared
<1>39. Swept'
    BY <1>1 DEF Inv, Swept
<1>. QED
    BY <1>20, <1>21, <1>22, <1>23, <1>24, <1>25, <1>26, <1>27, <1>28, <1>29, <1>30, <1>31, <1>32, <1>33,
       <1>34, <1>35, <1>36, <1>37, <1>38, <1>39
       DEF Inv

(* The product is memoised; it is in no set yet.                           *)
LEMMA StepStore == ASSUME Inv, NEW t \in Threads, Store(t) PROVE Inv'
<1>1. /\ life' = life /\ at' = at /\ fresh' = fresh /\ CLAIMED' = CLAIMED /\ ADOPTED' = ADOPTED
      /\ contents' = contents /\ derived' = derived /\ ONCE' = ONCE /\ REDUCE_ENTRIES' = REDUCE_ENTRIES /\ holder' = holder
      /\ minted' = minted /\ sets' = sets /\ locks' = locks /\ on' = on /\ made' = made
      /\ lock' = lock /\ set' = set /\ answer' = answer /\ rel' = rel
    BY DEF Store, Goes, AdoptedUnder, births, owning, memos, counts, thread
<1>2. /\ pc[t] = "store" /\ pc' \in [Threads -> Pcs]
      /\ pc'[t] = "adopt" /\ \A u \in Threads \ {t} : pc'[u] = pc[u]
    BY <1>1 DEF Store, Goes, AdoptedUnder, Inv, Running, Pcs, Locked
<1>3. /\ on[t] \in Artefacts /\ life[on[t]] = "live" /\ MODEL_CACHE' \in [Artefacts -> Minted \cup {None}]
      /\ \A b \in Artefacts \ {on[t]} : MODEL_CACHE'[b] = MODEL_CACHE[b]
    BY <1>1, <1>2, Names DEF Store, Inv, Filing, Running, Parses
<1>4. /\ adopting' \in [Threads -> SUBSET Owners]
      /\ adopting'[t] = {Codegen(on[t]), Shared} /\ \A u \in Threads \ {t} : adopting'[u] = adopting[u]
    BY <1>1, <1>2, <1>3, Names DEF Store, Goes, AdoptedUnder, Inv, Running
<1>20. Objects'
    BY <1>1 DEF Inv, Objects
<1>21. Filing'
    BY <1>1, <1>2, <1>3, <1>4, Names DEF Inv, Filing
<1>22. Running'
    BY <1>1, <1>2, <1>3, <1>4, Names DEF Inv, Running
<1>23. Lives'
    BY <1>1 DEF Inv, Lives, Sweeping
<1>24. NoStaleClaim'
    BY <1>1 DEF Inv, NoStaleClaim
<1>25. Parses'
    BY <1>1, <1>2, <1>3, <1>4, Names, Within DEF Inv, Parses, Locked
<1>26. Held'
    BY <1>1, <1>2, <1>3, <1>4, Names, Within DEF Inv, Held, Locked
<1>27. Shelves'
    BY <1>1 DEF Inv, Shelves
<1>28. TakenOut'
    BY <1>1 DEF Inv, TakenOut
<1>29. OwnSets'
    BY <1>1, <1>2, <1>3, <1>4, Names, Within DEF Inv, OwnSets, Parses
<1>30. GivenUp'
    BY <1>1 DEF Inv, GivenUp
<1>31. Numbers'
    BY <1>1 DEF Inv, Numbers
<1>32. Unmet'
    BY <1>1, <1>2, <1>3, <1>4, Names, Within DEF Inv, Unmet, Unshared
<1>33. OwnFirst'
    <2>1. ASSUME NEW u \in Threads, Sharing(u)' PROVE Sharing(u)
        <3>1. Codegen(on[t]) # Shared
            BY <1>3, Names
        <3>2. u # t
            BY <1>2, <1>4, <2>1, <3>1 DEF Sharing
        <3>. QED BY <1>2, <1>4, <2>1, <3>2 DEF Sharing
    <2>. QED BY <1>1, <2>1 DEF Inv, OwnFirst, InOwn
<1>34. Apart'
    BY <1>1 DEF Inv, Apart, InShared
<1>35. PassApart'
    BY <1>1 DEF Inv, PassApart, InShared
<1>36. DerivedOwed'
    BY <1>1, <1>2, <1>3, <1>4, Names, Within DEF Inv, DerivedOwed, InHand, InOwn, InPass, ToSweep, Failed
<1>37. SharedOwed'
    BY <1>1 DEF Inv, SharedOwed, InShared, InOwn, InPass, Failed
<1>38. Disowned'
    BY <1>1 DEF Inv, Disowned, InShared
<1>39. Swept'
    BY <1>1, <1>2, <1>3, <1>4, Names, Within DEF Inv, Swept, Lives
<1>. QED
    BY <1>20, <1>21, <1>22, <1>23, <1>24, <1>25, <1>26, <1>27, <1>28, <1>29, <1>30, <1>31, <1>32, <1>33,
       <1>34, <1>35, <1>36, <1>37, <1>38, <1>39
       DEF Inv

(* The product is added to a set: to the artefact's own first, then to the *)
(* shared product's, which no release has taken it from.                   *)
LEMMA StepUpdate == ASSUME Inv, NEW t \in Threads, Update(t) PROVE Inv'
<1>1. /\ life' = life /\ at' = at /\ fresh' = fresh /\ CLAIMED' = CLAIMED /\ ADOPTED' = ADOPTED
      /\ MODEL_CACHE' = MODEL_CACHE /\ derived' = derived /\ ONCE' = ONCE /\ REDUCE_ENTRIES' = REDUCE_ENTRIES /\ holder' = holder
      /\ minted' = minted /\ sets' = sets /\ locks' = locks /\ on' = on /\ made' = made
      /\ lock' = lock /\ adopting' = adopting /\ answer' = answer /\ rel' = rel
    BY DEF Update, Goes, births, owning, memos, counts, thread
<1>2. /\ pc[t] = "update" /\ pc' \in [Threads -> Pcs]
      /\ pc'[t] = "adopt" /\ \A u \in Threads \ {t} : pc'[u] = pc[u]
    BY <1>1 DEF Update, Goes, Inv, Running, Pcs, Locked
<1>3. /\ set[t] \in Sets /\ made[t] \in Minted /\ on[t] \in Artefacts /\ made[t][1] = on[t]
      /\ contents' \in [Sets -> SUBSET Minted] /\ contents'[set[t]] = contents[set[t]] \cup {made[t]}
      /\ \A s \in Sets \ {set[t]} : contents'[s] = contents[s]
    BY <1>1, <1>2 DEF Update, Goes, Inv, Filing, Running, Parses
<1>4. /\ set' \in [Threads -> Sets \cup {None}]
      /\ set'[t] = None /\ \A u \in Threads \ {t} : set'[u] = set[u]
    BY <1>1, <1>2, <1>3, Names DEF Update, Goes, Inv, Running
<1>6. adopting[t] \in {{}, {Shared}}
    BY <1>2, Names DEF Inv, Parses
<1>7. /\ Unshared(t) /\ \A b \in Artefacts : made[t] \notin rel[b].dropped
      /\ \A s \in Sets : made[t] \in contents[s] => s = ADOPTED[Codegen(on[t])]
    <2>1. Unshared(t)
        BY <1>2, <1>6 DEF Unshared
    <2>. QED BY <2>1 DEF Inv, Unmet
<1>8. InOwn(made[t])'
    <2>1. CASE adopting[t] = {Shared}
        <3>1. set[t] = ADOPTED[Codegen(on[t])]
            BY <1>2, <2>1 DEF Inv, OwnSets
        <3>. QED BY <1>1, <1>3, <3>1, Names DEF InOwn
    <2>2. CASE adopting[t] = {}
        <3>1. InOwn(made[t])
            BY <1>2, <2>2 DEF Inv, OwnFirst, Sharing
        <3>. QED BY <1>1, <1>3, <3>1, Names, Within DEF InOwn
    <2>. QED BY <1>6, <2>1, <2>2
<1>9. \A m \in Minted : (InOwn(m) => InOwn(m)') /\ (InPass(m) => InPass(m)')
    BY <1>1, <1>3, Names, Within DEF InOwn, InPass
<1>10. \A m \in Minted : InShared(m)' => InShared(m) \/ (m = made[t] /\ set[t] = ADOPTED[Shared])
    BY <1>1, <1>3, Names, Within DEF InShared
<1>20. Objects'
    BY <1>1 DEF Inv, Objects
<1>21. Filing'
    BY <1>1, <1>2, <1>3, <1>4, Names DEF Inv, Filing
<1>22. Running'
    BY <1>1, <1>2, <1>3, <1>4, Names DEF Inv, Running
<1>23. Lives'
    BY <1>1 DEF Inv, Lives, Sweeping
<1>24. NoStaleClaim'
    BY <1>1 DEF Inv, NoStaleClaim
<1>25. Parses'
    BY <1>1, <1>2, <1>3, <1>4, Names, Within DEF Inv, Parses, Locked
<1>26. Held'
    BY <1>1, <1>2, <1>3, <1>4, Names, Within DEF Inv, Held, Locked
<1>27. Shelves'
    <2>1. \A s \in Sets : s > sets => contents'[s] = {}
        BY <1>2, <1>3, Names DEF Inv, Shelves, Filing, Parses
    <2>. QED BY <1>1, <1>4, <2>1 DEF Inv, Shelves
<1>28. TakenOut'
    BY <1>1 DEF Inv, TakenOut
<1>29. OwnSets'
    BY <1>1, <1>2, <1>3, <1>4, Names, Within DEF Inv, OwnSets, Parses
<1>30. GivenUp'
    BY <1>1 DEF Inv, GivenUp
<1>31. Numbers'
    BY <1>1, <1>2, <1>3, <1>4, Names, Within DEF Inv, Numbers
<1>32. Unmet'
    <2>1. ASSUME NEW u \in Threads \ {t}, Unshared(u)'
          PROVE  /\ \A s \in Sets : made[u] \in contents'[s] => s = ADOPTED[Codegen(on[u])]
                 /\ \A b \in Artefacts : made[u] \notin rel[b].dropped
        <3>1. Unshared(u)
            BY <1>1, <1>2, <2>1 DEF Unshared
        <3>2. made[u] # None /\ made[u] # made[t]
            BY <1>2, <3>1 DEF Inv, Numbers, Parses, Unshared
        <3>. QED BY <1>3, <3>1, <3>2 DEF Inv, Unmet
    <2>2. ASSUME Unshared(t)'
          PROVE  \A s \in Sets : made[t] \in contents'[s] => s = ADOPTED[Codegen(on[t])]
        <3>1. set[t] = ADOPTED[Codegen(on[t])]
            BY <1>1, <1>2, <2>2 DEF Inv, OwnSets, Unshared
        <3>. QED BY <1>3, <1>7, <3>1
    <2>. QED BY <1>1, <1>7, <2>1, <2>2 DEF Unmet
<1>33. OwnFirst'
    <2>1. ASSUME NEW u \in Threads, Sharing(u)' PROVE InOwn(made[u])'
        <3>1. CASE u = t
            BY <1>8, <3>1
        <3>2. CASE u # t
            <4>1. Sharing(u)
                BY <1>1, <1>2, <2>1, <3>2 DEF Sharing
            <4>2. InOwn(made[u]) /\ made[u] \in Minted
                BY <4>1, Within DEF Inv, OwnFirst, Parses, Sharing
            <4>. QED BY <1>1, <1>9, <4>2
        <3>. QED BY <3>1, <3>2
    <2>. QED BY <1>1, <2>1 DEF OwnFirst
<1>34. Apart'
    BY <1>1, <1>7, <1>10 DEF Inv, Apart
<1>35. PassApart'
    <2>. SUFFICES ASSUME NEW m \in Minted, NEW b \in Artefacts, InShared(m)', b # m[1], rel[b].step = "iterate"
                  PROVE  m \notin contents'[rel[b].set]
        BY <1>1 DEF PassApart
    <2>1. /\ rel[b].set \in Sets /\ \A o \in Owners : ADOPTED[o] # rel[b].set
        BY Within DEF Inv, TakenOut
    <2>2. CASE InShared(m) /\ m # made[t]
        <3>1. m \notin contents[rel[b].set]
            BY <2>2 DEF Inv, PassApart
        <3>. QED BY <1>3, <2>1, <2>2, <3>1
    <2>3. CASE InShared(m) /\ m = made[t]
        <3>1. ADOPTED[Shared] \in Sets /\ ADOPTED[Shared] # None /\ made[t] \in contents[ADOPTED[Shared]]
            BY <2>3, Names, Within DEF InShared
        <3>2. ADOPTED[Shared] = ADOPTED[Codegen(on[t])]
            BY <1>7, <3>1
        <3>. QED BY <1>3, <3>1, <3>2, Names DEF Inv, Shelves
    <2>4. CASE m = made[t] /\ set[t] = ADOPTED[Shared]
        BY <1>3, <1>7, <2>1, <2>4, Names
    <2>. QED BY <1>10, <2>2, <2>3, <2>4
<1>36. DerivedOwed'
    <2>1. \A m \in Minted : InHand(m) => InHand(m)' \/ m = made[t]
        BY <1>1, <1>2 DEF InHand
    <2>2. \A m \in Minted : (ToSweep(m) => ToSweep(m)') /\ (Failed(m[1]) => Failed(m[1])')
        BY <1>1 DEF ToSweep, Failed
    <2>. QED BY <1>1, <1>8, <1>9, <2>1, <2>2, Within DEF Inv, DerivedOwed
<1>37. SharedOwed'
    <2>1. \A m \in Minted : InShared(m)' => InShared(m) \/ InOwn(m)'
        BY <1>1, <1>8, <1>10 DEF InOwn
    <2>2. \A m \in Minted : Failed(m[1]) => Failed(m[1])'
        BY <1>1 DEF Failed
    <2>. QED BY <1>1, <1>9, <2>1, <2>2 DEF Inv, SharedOwed
<1>38. Disowned'
    <2>1. rel[made[t][1]].step = "none"
        BY <1>2, <1>3, Names DEF Inv, Parses, Lives
    <2>. QED BY <1>1, <1>10, <2>1 DEF Inv, Disowned
<1>39. Swept'
    BY <1>1 DEF Inv, Swept
<1>. QED
    BY <1>20, <1>21, <1>22, <1>23, <1>24, <1>25, <1>26, <1>27, <1>28, <1>29, <1>30, <1>31, <1>32, <1>33,
       <1>34, <1>35, <1>36, <1>37, <1>38, <1>39
       DEF Inv

(* The lock is let go.                                                     *)
LEMMA StepReturn == ASSUME Inv, NEW t \in Threads, Return(t) PROVE Inv'
<1>1. /\ life' = life /\ at' = at /\ fresh' = fresh /\ CLAIMED' = CLAIMED /\ ADOPTED' = ADOPTED
      /\ contents' = contents /\ MODEL_CACHE' = MODEL_CACHE /\ derived' = derived /\ ONCE' = ONCE /\ REDUCE_ENTRIES' = REDUCE_ENTRIES
      /\ minted' = minted /\ sets' = sets /\ locks' = locks /\ set' = set /\ adopting' = adopting
      /\ rel' = rel
    BY DEF Return, Releasing, Ends, Goes, births, owning, memos, counts, thread
<1>2. /\ pc[t] = "adopt" /\ pc' \in [Threads -> Pcs]
      /\ pc'[t] = "idle" /\ \A u \in Threads \ {t} : pc'[u] = pc[u]
    BY <1>1 DEF Return, Releasing, Ends, Goes, Inv, Running, Pcs, Locked
<1>3. adopting[t] = {}
    BY <1>1, <1>2 DEF Return
<1>4. /\ lock[t] \in Locks /\ holder' \in [Locks -> Threads \cup {None}]
      /\ holder'[lock[t]] = None /\ \A l \in Locks \ {lock[t]} : holder'[l] = holder[l]
    BY <1>1, <1>2, <1>3 DEF Return, Releasing, Goes, Inv, Running, Parses, Locked
<1>5. /\ on' \in [Threads -> Artefacts \cup {None}]
      /\ on'[t] = None /\ \A u \in Threads \ {t} : on'[u] = on[u]
    BY <1>1, <1>2, <1>3, <1>4, Names DEF Return, Releasing, Ends, Goes, Inv, Running
<1>6. /\ made' \in [Threads -> Minted \cup {None}]
      /\ made'[t] = None /\ \A u \in Threads \ {t} : made'[u] = made[u]
    BY <1>1, <1>2, <1>3, <1>4, <1>5, Names DEF Return, Releasing, Ends, Goes, Inv, Running
<1>7. /\ lock' \in [Threads -> Locks \cup {None}]
      /\ lock'[t] = None /\ \A u \in Threads \ {t} : lock'[u] = lock[u]
    BY <1>1, <1>2, <1>3, <1>4, <1>5, <1>6, Names DEF Return, Releasing, Ends, Goes, Inv, Running
<1>20. Objects'
    BY <1>1 DEF Inv, Objects
<1>21. Filing'
    BY <1>1 DEF Inv, Filing
<1>22. Running'
    BY <1>1, <1>2, <1>3, <1>4, <1>5, <1>6, <1>7, Names DEF Inv, Running
<1>23. Lives'
    BY <1>1 DEF Inv, Lives, Sweeping
<1>24. NoStaleClaim'
    BY <1>1 DEF Inv, NoStaleClaim
<1>25. Parses'
    BY <1>1, <1>2, <1>3, <1>4, <1>5, <1>6, <1>7, Names, Within DEF Inv, Parses, Locked
<1>26. Held'
    BY <1>1, <1>2, <1>3, <1>4, <1>5, <1>6, <1>7, Names, Within DEF Inv, Held, Locked
<1>27. Shelves'
    BY <1>1 DEF Inv, Shelves
<1>28. TakenOut'
    BY <1>1 DEF Inv, TakenOut
<1>29. OwnSets'
    BY <1>1, <1>2, <1>3, <1>4, <1>5, <1>6, <1>7, Names, Within DEF Inv, OwnSets, Parses
<1>30. GivenUp'
    BY <1>1 DEF Inv, GivenUp
<1>31. Numbers'
    BY <1>1, <1>2, <1>3, <1>4, <1>5, <1>6, <1>7, Names, Within DEF Inv, Numbers
<1>32. Unmet'
    BY <1>1, <1>2, <1>3, <1>4, <1>5, <1>6, <1>7, Names, Within DEF Inv, Unmet, Unshared
<1>33. OwnFirst'
    BY <1>1, <1>2, <1>3, <1>4, <1>5, <1>6, <1>7, Names, Within DEF Inv, OwnFirst, Sharing, InOwn
<1>34. Apart'
    BY <1>1 DEF Inv, Apart, InShared
<1>35. PassApart'
    BY <1>1 DEF Inv, PassApart, InShared
<1>36. DerivedOwed'
    BY <1>1, <1>2, <1>3, <1>4, <1>5, <1>6, <1>7, Names, Within
       DEF Inv, DerivedOwed, InHand, InOwn, InPass, ToSweep, Failed
<1>37. SharedOwed'
    BY <1>1 DEF Inv, SharedOwed, InShared, InOwn, InPass, Failed
<1>38. Disowned'
    BY <1>1 DEF Inv, Disowned, InShared
<1>39. Swept'
    BY <1>1 DEF Inv, Swept
<1>. QED
    BY <1>20, <1>21, <1>22, <1>23, <1>24, <1>25, <1>26, <1>27, <1>28, <1>29, <1>30, <1>31, <1>32, <1>33,
       <1>34, <1>35, <1>36, <1>37, <1>38, <1>39
       DEF Inv

(* An entry is derived.                                                    *)
LEMMA StepDerive == ASSUME Inv, NEW t \in Threads, Derive(t) PROVE Inv'
<1>1. /\ life' = life /\ at' = at /\ fresh' = fresh /\ CLAIMED' = CLAIMED /\ ADOPTED' = ADOPTED
      /\ contents' = contents /\ MODEL_CACHE' = MODEL_CACHE /\ derived' = derived /\ ONCE' = ONCE /\ holder' = holder
      /\ minted' = minted /\ sets' = sets /\ locks' = locks /\ on' = on /\ made' = made
      /\ lock' = lock /\ set' = set /\ adopting' = adopting /\ rel' = rel
    BY DEF Derive, Goes, births, owning, memos, counts, thread
<1>2. /\ pc[t] = "derive" /\ pc' \in [Threads -> Pcs]
      /\ pc'[t] = "reduced" /\ \A u \in Threads \ {t} : pc'[u] = pc[u]
    BY <1>1 DEF Derive, Goes, Inv, Running, Pcs, Locked
<1>3. on[t] \in Artefacts
    BY <1>1, <1>2, Within DEF Inv, Parses
<1>4. REDUCE_ENTRIES' \in [Addresses -> Artefacts \cup {None}]
    BY <1>1, <1>2, <1>3 DEF Derive, Inv, Filing
<1>20. Objects'
    BY <1>1 DEF Inv, Objects
<1>21. Filing'
    BY <1>1, <1>2, <1>3, <1>4, Names DEF Inv, Filing
<1>22. Running'
    BY <1>1, <1>2, <1>3, <1>4, Names DEF Inv, Running
<1>23. Lives'
    BY <1>1 DEF Inv, Lives, Sweeping
<1>24. NoStaleClaim'
    BY <1>1 DEF Inv, NoStaleClaim
<1>25. Parses'
    BY <1>1, <1>2, <1>3, <1>4, Names, Within DEF Inv, Parses, Locked
<1>26. Held'
    BY <1>1, <1>2, <1>3, <1>4, Names, Within DEF Inv, Held, Locked
<1>27. Shelves'
    BY <1>1 DEF Inv, Shelves
<1>28. TakenOut'
    BY <1>1 DEF Inv, TakenOut
<1>29. OwnSets'
    BY <1>1, <1>2, <1>3, <1>4, Names, Within DEF Inv, OwnSets, Parses
<1>30. GivenUp'
    BY <1>1 DEF Inv, GivenUp
<1>31. Numbers'
    BY <1>1 DEF Inv, Numbers
<1>32. Unmet'
    BY <1>1, <1>2, <1>3, <1>4, Names, Within DEF Inv, Unmet, Unshared
<1>33. OwnFirst'
    BY <1>1, <1>2, <1>3, <1>4, Names, Within DEF Inv, OwnFirst, Sharing, InOwn
<1>34. Apart'
    BY <1>1 DEF Inv, Apart, InShared
<1>35. PassApart'
    BY <1>1 DEF Inv, PassApart, InShared
<1>36. DerivedOwed'
    BY <1>1, <1>2, <1>3, <1>4, Names, Within DEF Inv, DerivedOwed, InHand, InOwn, InPass, ToSweep, Failed
<1>37. SharedOwed'
    BY <1>1 DEF Inv, SharedOwed, InShared, InOwn, InPass, Failed
<1>38. Disowned'
    BY <1>1 DEF Inv, Disowned, InShared
<1>39. Swept'
    BY <1>1 DEF Inv, Swept
<1>. QED
    BY <1>20, <1>21, <1>22, <1>23, <1>24, <1>25, <1>26, <1>27, <1>28, <1>29, <1>30, <1>31, <1>32, <1>33,
       <1>34, <1>35, <1>36, <1>37, <1>38, <1>39
       DEF Inv

(* The reduction ends.                                                     *)
LEMMA StepReduced == ASSUME Inv, NEW t \in Threads, Reduced(t) PROVE Inv'
<1>1. /\ life' = life /\ at' = at /\ fresh' = fresh /\ CLAIMED' = CLAIMED /\ ADOPTED' = ADOPTED
      /\ contents' = contents /\ MODEL_CACHE' = MODEL_CACHE /\ derived' = derived /\ ONCE' = ONCE /\ REDUCE_ENTRIES' = REDUCE_ENTRIES
      /\ holder' = holder /\ minted' = minted /\ sets' = sets /\ locks' = locks /\ set' = set
      /\ adopting' = adopting /\ rel' = rel
    BY DEF Reduced, Ends, Goes, births, owning, memos, counts, thread
<1>2. /\ pc[t] = "reduced" /\ pc' \in [Threads -> Pcs]
      /\ pc'[t] = "idle" /\ \A u \in Threads \ {t} : pc'[u] = pc[u]
    BY <1>1 DEF Reduced, Ends, Goes, Inv, Running, Pcs, Locked
<1>3. /\ on' \in [Threads -> Artefacts \cup {None}]
      /\ on'[t] = None /\ \A u \in Threads \ {t} : on'[u] = on[u]
    BY <1>1, <1>2, Names DEF Reduced, Ends, Goes, Inv, Running
<1>4. /\ made' \in [Threads -> Minted \cup {None}]
      /\ made'[t] = None /\ \A u \in Threads \ {t} : made'[u] = made[u]
    BY <1>1, <1>2, <1>3, Names DEF Reduced, Ends, Goes, Inv, Running
<1>5. /\ lock' \in [Threads -> Locks \cup {None}]
      /\ lock'[t] = None /\ \A u \in Threads \ {t} : lock'[u] = lock[u]
    BY <1>1, <1>2, <1>3, <1>4, Names DEF Reduced, Ends, Goes, Inv, Running
<1>20. Objects'
    BY <1>1 DEF Inv, Objects
<1>21. Filing'
    BY <1>1 DEF Inv, Filing
<1>22. Running'
    BY <1>1, <1>2, <1>3, <1>4, <1>5, Names DEF Inv, Running
<1>23. Lives'
    BY <1>1 DEF Inv, Lives, Sweeping
<1>24. NoStaleClaim'
    BY <1>1 DEF Inv, NoStaleClaim
<1>25. Parses'
    BY <1>1, <1>2, <1>3, <1>4, <1>5, Names, Within DEF Inv, Parses, Locked
<1>26. Held'
    BY <1>1, <1>2, <1>3, <1>4, <1>5, Names, Within DEF Inv, Held, Locked
<1>27. Shelves'
    BY <1>1 DEF Inv, Shelves
<1>28. TakenOut'
    BY <1>1 DEF Inv, TakenOut
<1>29. OwnSets'
    BY <1>1, <1>2, <1>3, <1>4, <1>5, Names, Within DEF Inv, OwnSets, Parses
<1>30. GivenUp'
    BY <1>1 DEF Inv, GivenUp
<1>31. Numbers'
    BY <1>1, <1>2, <1>3, <1>4, <1>5, Names, Within DEF Inv, Numbers
<1>32. Unmet'
    BY <1>1, <1>2, <1>3, <1>4, <1>5, Names, Within DEF Inv, Unmet, Unshared
<1>33. OwnFirst'
    BY <1>1, <1>2, <1>3, <1>4, <1>5, Names, Within DEF Inv, OwnFirst, Sharing, InOwn
<1>34. Apart'
    BY <1>1 DEF Inv, Apart, InShared
<1>35. PassApart'
    BY <1>1 DEF Inv, PassApart, InShared
<1>36. DerivedOwed'
    BY <1>1, <1>2, <1>3, <1>4, <1>5, Names, Within DEF Inv, DerivedOwed, InHand, InOwn, InPass, ToSweep, Failed
<1>37. SharedOwed'
    BY <1>1 DEF Inv, SharedOwed, InShared, InOwn, InPass, Failed
<1>38. Disowned'
    BY <1>1 DEF Inv, Disowned, InShared
<1>39. Swept'
    BY <1>1 DEF Inv, Swept
<1>. QED
    BY <1>20, <1>21, <1>22, <1>23, <1>24, <1>25, <1>26, <1>27, <1>28, <1>29, <1>30, <1>31, <1>32, <1>33,
       <1>34, <1>35, <1>36, <1>37, <1>38, <1>39
       DEF Inv

(* The pair's lock is found or made.                                       *)
LEMMA StepOnce == ASSUME Inv, NEW t \in Threads, Once(t) PROVE Inv'
<1>1. /\ life' = life /\ at' = at /\ fresh' = fresh /\ CLAIMED' = CLAIMED /\ ADOPTED' = ADOPTED
      /\ contents' = contents /\ MODEL_CACHE' = MODEL_CACHE /\ derived' = derived /\ REDUCE_ENTRIES' = REDUCE_ENTRIES /\ holder' = holder
      /\ minted' = minted /\ sets' = sets /\ on' = on /\ made' = made /\ set' = set
      /\ adopting' = adopting /\ answer' = answer /\ rel' = rel
    BY DEF Once, Goes, births, owning, memos, counts, thread
<1>2. /\ pc[t] = "read" /\ pc' \in [Threads -> Pcs]
      /\ pc'[t] = "wait" /\ \A u \in Threads \ {t} : pc'[u] = pc[u]
    BY <1>1 DEF Once, Goes, Inv, Running, Pcs, Locked
<1>3. on[t] \in Artefacts /\ life[on[t]] = "live" /\ locks \in 0..MaxMint
    BY <1>1, <1>2, Within DEF Inv, Parses, Filing
<1>4. /\ lock' \in [Threads -> Locks \cup {None}] /\ lock'[t] # None /\ \A u \in Threads \ {t} : lock'[u] = lock[u]
      /\ ONCE' \in [Artefacts -> Locks \cup {None}] /\ \A b \in Artefacts \ {on[t]} : ONCE'[b] = ONCE[b]
      /\ locks' \in 0..MaxMint
    <2>1. CASE ONCE[on[t]] # None
        <3>1. lock' = [lock EXCEPT ![t] = ONCE[on[t]]] /\ ONCE' = ONCE /\ locks' = locks
            BY <2>1 DEF Once
        <3>. QED BY <1>3, <2>1, <3>1 DEF Inv, Running, Filing
    <2>2. CASE ONCE[on[t]] = None
        <3>1. /\ locks < MaxMint /\ locks' = locks + 1 /\ lock' = [lock EXCEPT ![t] = locks']
              /\ ONCE' = [ONCE EXCEPT ![on[t]] = locks']
            BY <2>2 DEF Once
        <3>2. locks' \in Locks /\ locks' \in 0..MaxMint
            BY <1>3, <3>1, MemosAssumption DEF Locks
        <3>. QED BY <1>3, <3>1, <3>2, Names DEF Inv, Running, Filing
    <2>. QED BY <2>1, <2>2
<1>20. Objects'
    BY <1>1 DEF Inv, Objects
<1>21. Filing'
    BY <1>1, <1>2, <1>3, <1>4, Names DEF Inv, Filing
<1>22. Running'
    BY <1>1, <1>2, <1>3, <1>4, Names DEF Inv, Running
<1>23. Lives'
    BY <1>1 DEF Inv, Lives, Sweeping
<1>24. NoStaleClaim'
    BY <1>1 DEF Inv, NoStaleClaim
<1>25. Parses'
    BY <1>1, <1>2, <1>3, <1>4, Names, Within DEF Inv, Parses, Locked
<1>26. Held'
    BY <1>1, <1>2, <1>3, <1>4, Names, Within DEF Inv, Held, Locked
<1>27. Shelves'
    BY <1>1 DEF Inv, Shelves
<1>28. TakenOut'
    BY <1>1 DEF Inv, TakenOut
<1>29. OwnSets'
    BY <1>1, <1>2, <1>3, <1>4, Names, Within DEF Inv, OwnSets, Parses
<1>30. GivenUp'
    BY <1>1 DEF Inv, GivenUp
<1>31. Numbers'
    BY <1>1 DEF Inv, Numbers
<1>32. Unmet'
    BY <1>1, <1>2, <1>3, <1>4, Names, Within DEF Inv, Unmet, Unshared
<1>33. OwnFirst'
    BY <1>1, <1>2, <1>3, <1>4, Names, Within DEF Inv, OwnFirst, Sharing, InOwn
<1>34. Apart'
    BY <1>1 DEF Inv, Apart, InShared
<1>35. PassApart'
    BY <1>1 DEF Inv, PassApart, InShared
<1>36. DerivedOwed'
    BY <1>1, <1>2, <1>3, <1>4, Names, Within DEF Inv, DerivedOwed, InHand, InOwn, InPass, ToSweep, Failed
<1>37. SharedOwed'
    BY <1>1 DEF Inv, SharedOwed, InShared, InOwn, InPass, Failed
<1>38. Disowned'
    BY <1>1 DEF Inv, Disowned, InShared
<1>39. Swept'
    BY <1>1, <1>2, <1>3, <1>4, Names, Within DEF Inv, Swept, Lives
<1>. QED
    BY <1>20, <1>21, <1>22, <1>23, <1>24, <1>25, <1>26, <1>27, <1>28, <1>29, <1>30, <1>31, <1>32, <1>33,
       <1>34, <1>35, <1>36, <1>37, <1>38, <1>39
       DEF Inv

(* Another thread compiled it.                                             *)
LEMMA StepRecheckHit == ASSUME Inv, NEW t \in Threads, Recheck(t), Kept(t) PROVE Inv'
<1>1. /\ life' = life /\ at' = at /\ fresh' = fresh /\ CLAIMED' = CLAIMED /\ ADOPTED' = ADOPTED
      /\ contents' = contents /\ MODEL_CACHE' = MODEL_CACHE /\ derived' = derived /\ ONCE' = ONCE /\ REDUCE_ENTRIES' = REDUCE_ENTRIES
      /\ minted' = minted /\ sets' = sets /\ locks' = locks /\ set' = set /\ adopting' = adopting
      /\ rel' = rel
    BY DEF Recheck, Releasing, Ends, Goes, births, owning, memos, counts, thread
<1>2. Ends(t, "check") /\ Releasing(t)
    BY <1>1 DEF Recheck
<1>3. /\ pc[t] = "check" /\ pc' \in [Threads -> Pcs]
      /\ pc'[t] = "idle" /\ \A u \in Threads \ {t} : pc'[u] = pc[u]
    BY <1>1, <1>2 DEF Ends, Goes, Inv, Running, Pcs, Locked
<1>4. /\ lock[t] \in Locks /\ holder' \in [Locks -> Threads \cup {None}]
      /\ holder'[lock[t]] = None /\ \A l \in Locks \ {lock[t]} : holder'[l] = holder[l]
    BY <1>1, <1>2, <1>3 DEF Ends, Releasing, Goes, Inv, Running, Parses, Locked
<1>5. /\ on' \in [Threads -> Artefacts \cup {None}]
      /\ on'[t] = None /\ \A u \in Threads \ {t} : on'[u] = on[u]
    BY <1>1, <1>2, <1>3, <1>4, Names DEF Ends, Inv, Running
<1>6. /\ made' \in [Threads -> Minted \cup {None}]
      /\ made'[t] = None /\ \A u \in Threads \ {t} : made'[u] = made[u]
    BY <1>1, <1>2, <1>3, <1>4, <1>5, Names DEF Ends, Inv, Running
<1>7. /\ lock' \in [Threads -> Locks \cup {None}]
      /\ lock'[t] = None /\ \A u \in Threads \ {t} : lock'[u] = lock[u]
    BY <1>1, <1>2, <1>3, <1>4, <1>5, <1>6, Names DEF Ends, Inv, Running
<1>20. Objects'
    BY <1>1 DEF Inv, Objects
<1>21. Filing'
    BY <1>1 DEF Inv, Filing
<1>22. Running'
    BY <1>1, <1>2, <1>3, <1>4, <1>5, <1>6, <1>7, Names DEF Inv, Running
<1>23. Lives'
    BY <1>1 DEF Inv, Lives, Sweeping
<1>24. NoStaleClaim'
    BY <1>1 DEF Inv, NoStaleClaim
<1>25. Parses'
    BY <1>1, <1>2, <1>3, <1>4, <1>5, <1>6, <1>7, Names, Within DEF Inv, Parses, Locked
<1>26. Held'
    BY <1>1, <1>2, <1>3, <1>4, <1>5, <1>6, <1>7, Names, Within DEF Inv, Held, Locked
<1>27. Shelves'
    BY <1>1 DEF Inv, Shelves
<1>28. TakenOut'
    BY <1>1 DEF Inv, TakenOut
<1>29. OwnSets'
    BY <1>1, <1>2, <1>3, <1>4, <1>5, <1>6, <1>7, Names, Within DEF Inv, OwnSets, Parses
<1>30. GivenUp'
    BY <1>1 DEF Inv, GivenUp
<1>31. Numbers'
    BY <1>1, <1>2, <1>3, <1>4, <1>5, <1>6, <1>7, Names, Within DEF Inv, Numbers
<1>32. Unmet'
    BY <1>1, <1>2, <1>3, <1>4, <1>5, <1>6, <1>7, Names, Within DEF Inv, Unmet, Unshared
<1>33. OwnFirst'
    BY <1>1, <1>2, <1>3, <1>4, <1>5, <1>6, <1>7, Names, Within DEF Inv, OwnFirst, Sharing, InOwn
<1>34. Apart'
    BY <1>1 DEF Inv, Apart, InShared
<1>35. PassApart'
    BY <1>1 DEF Inv, PassApart, InShared
<1>36. DerivedOwed'
    BY <1>1, <1>2, <1>3, <1>4, <1>5, <1>6, <1>7, Names, Within
       DEF Inv, DerivedOwed, InHand, InOwn, InPass, ToSweep, Failed
<1>37. SharedOwed'
    BY <1>1 DEF Inv, SharedOwed, InShared, InOwn, InPass, Failed
<1>38. Disowned'
    BY <1>1 DEF Inv, Disowned, InShared
<1>39. Swept'
    BY <1>1 DEF Inv, Swept
<1>. QED
    BY <1>20, <1>21, <1>22, <1>23, <1>24, <1>25, <1>26, <1>27, <1>28, <1>29, <1>30, <1>31, <1>32, <1>33,
       <1>34, <1>35, <1>36, <1>37, <1>38, <1>39
       DEF Inv

(* Nobody did.                                                             *)
LEMMA StepRecheckMiss == ASSUME Inv, NEW t \in Threads, Recheck(t), ~Kept(t) PROVE Inv'
<1>1. /\ life' = life /\ at' = at /\ fresh' = fresh /\ CLAIMED' = CLAIMED /\ ADOPTED' = ADOPTED
      /\ contents' = contents /\ MODEL_CACHE' = MODEL_CACHE /\ derived' = derived /\ ONCE' = ONCE /\ REDUCE_ENTRIES' = REDUCE_ENTRIES
      /\ holder' = holder /\ minted' = minted /\ sets' = sets /\ locks' = locks /\ on' = on
      /\ made' = made /\ lock' = lock /\ set' = set /\ adopting' = adopting /\ answer' = answer
      /\ rel' = rel
    BY DEF Recheck, Goes, births, owning, memos, counts, thread
<1>2. /\ pc[t] = "check" /\ pc' \in [Threads -> Pcs]
      /\ pc'[t] = "compile" /\ \A u \in Threads \ {t} : pc'[u] = pc[u]
    BY <1>1 DEF Recheck, Goes, Inv, Running, Pcs, Locked
<1>20. Objects'
    BY <1>1 DEF Inv, Objects
<1>21. Filing'
    BY <1>1 DEF Inv, Filing
<1>22. Running'
    BY <1>1, <1>2, Names DEF Inv, Running
<1>23. Lives'
    BY <1>1 DEF Inv, Lives, Sweeping
<1>24. NoStaleClaim'
    BY <1>1 DEF Inv, NoStaleClaim
<1>25. Parses'
    BY <1>1, <1>2, Names, Within DEF Inv, Parses, Locked
<1>26. Held'
    BY <1>1, <1>2, Names, Within DEF Inv, Held, Locked
<1>27. Shelves'
    BY <1>1 DEF Inv, Shelves
<1>28. TakenOut'
    BY <1>1 DEF Inv, TakenOut
<1>29. OwnSets'
    BY <1>1, <1>2, Names, Within DEF Inv, OwnSets, Parses
<1>30. GivenUp'
    BY <1>1 DEF Inv, GivenUp
<1>31. Numbers'
    BY <1>1 DEF Inv, Numbers
<1>32. Unmet'
    BY <1>1, <1>2, Names, Within DEF Inv, Unmet, Unshared
<1>33. OwnFirst'
    BY <1>1, <1>2, Names, Within DEF Inv, OwnFirst, Sharing, InOwn
<1>34. Apart'
    BY <1>1 DEF Inv, Apart, InShared
<1>35. PassApart'
    BY <1>1 DEF Inv, PassApart, InShared
<1>36. DerivedOwed'
    BY <1>1, <1>2, Names, Within DEF Inv, DerivedOwed, InHand, InOwn, InPass, ToSweep, Failed
<1>37. SharedOwed'
    BY <1>1 DEF Inv, SharedOwed, InShared, InOwn, InPass, Failed
<1>38. Disowned'
    BY <1>1 DEF Inv, Disowned, InShared
<1>39. Swept'
    BY <1>1 DEF Inv, Swept
<1>. QED
    BY <1>20, <1>21, <1>22, <1>23, <1>24, <1>25, <1>26, <1>27, <1>28, <1>29, <1>30, <1>31, <1>32, <1>33,
       <1>34, <1>35, <1>36, <1>37, <1>38, <1>39
       DEF Inv

(* The reduce memo is asked.                                               *)
LEMMA StepLook == ASSUME Inv, NEW t \in Threads, Look(t) PROVE Inv'
<1>1. /\ life' = life /\ at' = at /\ fresh' = fresh /\ CLAIMED' = CLAIMED /\ ADOPTED' = ADOPTED
      /\ contents' = contents /\ MODEL_CACHE' = MODEL_CACHE /\ derived' = derived /\ ONCE' = ONCE /\ REDUCE_ENTRIES' = REDUCE_ENTRIES
      /\ holder' = holder /\ minted' = minted /\ sets' = sets /\ locks' = locks /\ on' = on
      /\ made' = made /\ lock' = lock /\ set' = set /\ adopting' = adopting /\ rel' = rel
    BY DEF Look, births, owning, memos, counts, thread
<1>2. /\ pc[t] = "look" /\ pc' \in [Threads -> Pcs]
      /\ pc'[t] \in {"reduced", "derive"} /\ \A u \in Threads \ {t} : pc'[u] = pc[u]
    BY <1>1 DEF Look, Goes, Inv, Running, Pcs, Locked
<1>20. Objects'
    BY <1>1 DEF Inv, Objects
<1>21. Filing'
    BY <1>1 DEF Inv, Filing
<1>22. Running'
    BY <1>1, <1>2, Names DEF Inv, Running
<1>23. Lives'
    BY <1>1 DEF Inv, Lives, Sweeping
<1>24. NoStaleClaim'
    BY <1>1 DEF Inv, NoStaleClaim
<1>25. Parses'
    BY <1>1, <1>2, Names, Within DEF Inv, Parses, Locked
<1>26. Held'
    BY <1>1, <1>2, Names, Within DEF Inv, Held, Locked
<1>27. Shelves'
    BY <1>1 DEF Inv, Shelves
<1>28. TakenOut'
    BY <1>1 DEF Inv, TakenOut
<1>29. OwnSets'
    BY <1>1, <1>2, Names, Within DEF Inv, OwnSets
<1>30. GivenUp'
    BY <1>1 DEF Inv, GivenUp
<1>31. Numbers'
    BY <1>1 DEF Inv, Numbers
<1>32. Unmet'
    BY <1>1, <1>2, Names, Within DEF Inv, Unmet, Unshared
<1>33. OwnFirst'
    BY <1>1, <1>2, Names, Within DEF Inv, OwnFirst, Sharing, InOwn
<1>34. Apart'
    BY <1>1 DEF Inv, Apart, InShared
<1>35. PassApart'
    BY <1>1 DEF Inv, PassApart, InShared
<1>36. DerivedOwed'
    BY <1>1, <1>2, Names, Within DEF Inv, DerivedOwed, InHand, InOwn, InPass, ToSweep, Failed
<1>37. SharedOwed'
    BY <1>1 DEF Inv, SharedOwed, InShared, InOwn, InPass, Failed
<1>38. Disowned'
    BY <1>1 DEF Inv, Disowned, InShared
<1>39. Swept'
    BY <1>1 DEF Inv, Swept
<1>. QED
    BY <1>20, <1>21, <1>22, <1>23, <1>24, <1>25, <1>26, <1>27, <1>28, <1>29, <1>30, <1>31, <1>32, <1>33,
       <1>34, <1>35, <1>36, <1>37, <1>38, <1>39
       DEF Inv

(* The owner's set is found: the artefact's own first.                     *)
LEMMA StepFindSetFound == ASSUME Inv, NEW t \in Threads, FindSet(t), ADOPTED[First(t)] # None PROVE Inv'
<1>1. /\ life' = life /\ at' = at /\ fresh' = fresh /\ CLAIMED' = CLAIMED /\ ADOPTED' = ADOPTED
      /\ contents' = contents /\ MODEL_CACHE' = MODEL_CACHE /\ derived' = derived /\ ONCE' = ONCE /\ REDUCE_ENTRIES' = REDUCE_ENTRIES
      /\ holder' = holder /\ minted' = minted /\ sets' = sets /\ locks' = locks /\ on' = on
      /\ made' = made /\ lock' = lock /\ answer' = answer /\ rel' = rel
    BY DEF FindSet, births, owning, memos, counts, thread
<1>2. pc[t] = "adopt" /\ adopting[t] # {} /\ on[t] \in Artefacts /\ life[on[t]] = "live" /\ made[t] # None
    BY <1>1, Within DEF FindSet, Inv, Parses
<1>3. /\ pc' \in [Threads -> Pcs]
      /\ pc'[t] = "update" /\ \A u \in Threads \ {t} : pc'[u] = pc[u]
    BY <1>1, <1>2 DEF FindSet, Goes, Inv, Running, Pcs, Locked
<1>4. /\ First(t) \in adopting[t] /\ First(t) \in Owners /\ adopting[t] \in {{Shared}, {Codegen(on[t]), Shared}}
      /\ Codegen(on[t]) \in adopting[t] => First(t) = Codegen(on[t])
      /\ Codegen(on[t]) \notin adopting[t] => First(t) = Shared
    BY <1>1, <1>2, <1>3, Names DEF First, Inv, Parses
<1>5. /\ adopting' \in [Threads -> SUBSET Owners]
      /\ adopting'[t] = adopting[t] \ {First(t)} /\ \A u \in Threads \ {t} : adopting'[u] = adopting[u]
    BY <1>1, <1>2, <1>3, <1>4 DEF FindSet, Inv, Running
<1>6. /\ set' \in [Threads -> Sets \cup {None}]
      /\ set'[t] = ADOPTED[First(t)] /\ \A u \in Threads \ {t} : set'[u] = set[u]
      /\ ADOPTED[First(t)] \in Sets
    BY <1>1, <1>2, <1>3, <1>4, <1>5, Within DEF FindSet, Inv, Running
<1>20. Objects'
    BY <1>1 DEF Inv, Objects
<1>21. Filing'
    BY <1>1 DEF Inv, Filing
<1>22. Running'
    BY <1>1, <1>2, <1>3, <1>4, <1>5, <1>6, Names DEF Inv, Running
<1>23. Lives'
    BY <1>1 DEF Inv, Lives, Sweeping
<1>24. NoStaleClaim'
    BY <1>1 DEF Inv, NoStaleClaim
<1>25. Parses'
    BY <1>1, <1>2, <1>3, <1>4, <1>5, <1>6, Names, Within DEF Inv, Parses, Locked
<1>26. Held'
    BY <1>1, <1>2, <1>3, <1>4, <1>5, <1>6, Names, Within DEF Inv, Held, Locked
<1>27. Shelves'
    BY <1>1, <1>2, <1>3, <1>4, <1>5, <1>6, Names, Within DEF Inv, Shelves
<1>28. TakenOut'
    BY <1>1 DEF Inv, TakenOut
<1>29. OwnSets'
    <2>1. \A b \in Artefacts : set'[t] = ADOPTED[Codegen(b)] => on[t] = b
        <3>1. \A o \in Owners : ADOPTED[First(t)] = ADOPTED[o] => First(t) = o
            BY <1>4 DEF Inv, Shelves
        <3>2. First(t) \in {Codegen(on[t]), Shared}
            BY <1>4
        <3>. QED BY <1>2, <1>6, <3>1, <3>2, Names
    <2>2. Shared \in adopting'[t] => set'[t] = ADOPTED[Codegen(on[t])]
        BY <1>2, <1>4, <1>5, <1>6, Names
    <2>3. \A u \in Threads \ {t} : set'[u] = set[u] /\ adopting'[u] = adopting[u] /\ pc'[u] = pc[u]
        BY <1>3, <1>5, <1>6
    <2>. QED BY <1>1, <2>1, <2>2, <2>3 DEF Inv, OwnSets
<1>30. GivenUp'
    BY <1>1 DEF Inv, GivenUp
<1>31. Numbers'
    BY <1>1 DEF Inv, Numbers
<1>32. Unmet'
    BY <1>1, <1>2, <1>3, <1>4, <1>5, <1>6, Names, Within DEF Inv, Unmet, Unshared
<1>33. OwnFirst'
    <2>1. ASSUME NEW u \in Threads, Sharing(u)' PROVE Sharing(u)
        <3>1. CASE u = t
            BY <1>2, <1>3, <1>4, <1>5, <2>1, <3>1, Names DEF Sharing
        <3>2. CASE u # t
            BY <1>3, <1>5, <2>1, <3>2 DEF Sharing
        <3>. QED BY <3>1, <3>2
    <2>. QED BY <1>1, <2>1 DEF Inv, OwnFirst, InOwn
<1>34. Apart'
    BY <1>1 DEF Inv, Apart, InShared
<1>35. PassApart'
    BY <1>1 DEF Inv, PassApart, InShared
<1>36. DerivedOwed'
    BY <1>1, <1>2, <1>3, <1>4, <1>5, <1>6, Names, Within
       DEF Inv, DerivedOwed, InHand, InOwn, InPass, ToSweep, Failed
<1>37. SharedOwed'
    BY <1>1 DEF Inv, SharedOwed, InShared, InOwn, InPass, Failed
<1>38. Disowned'
    BY <1>1 DEF Inv, Disowned, InShared
<1>39. Swept'
    BY <1>1 DEF Inv, Swept
<1>. QED
    BY <1>20, <1>21, <1>22, <1>23, <1>24, <1>25, <1>26, <1>27, <1>28, <1>29, <1>30, <1>31, <1>32, <1>33,
       <1>34, <1>35, <1>36, <1>37, <1>38, <1>39
       DEF Inv

(* The owner's set is made, empty.                                         *)
LEMMA StepFindSetMakes == ASSUME Inv, NEW t \in Threads, FindSet(t), ADOPTED[First(t)] = None PROVE Inv'
<1>1. /\ life' = life /\ at' = at /\ fresh' = fresh /\ CLAIMED' = CLAIMED /\ contents' = contents
      /\ MODEL_CACHE' = MODEL_CACHE /\ derived' = derived /\ ONCE' = ONCE /\ REDUCE_ENTRIES' = REDUCE_ENTRIES /\ holder' = holder
      /\ minted' = minted /\ locks' = locks /\ on' = on /\ made' = made /\ lock' = lock
      /\ answer' = answer /\ rel' = rel
    BY DEF FindSet, births, owning, memos, counts, thread
<1>2. pc[t] = "adopt" /\ adopting[t] # {} /\ on[t] \in Artefacts /\ life[on[t]] = "live" /\ made[t] # None
    BY <1>1, Within DEF FindSet, Inv, Parses
<1>3. /\ pc' \in [Threads -> Pcs]
      /\ pc'[t] = "update" /\ \A u \in Threads \ {t} : pc'[u] = pc[u]
    BY <1>1, <1>2 DEF FindSet, Goes, Inv, Running, Pcs, Locked
<1>4. /\ First(t) \in adopting[t] /\ First(t) \in Owners /\ adopting[t] \in {{Shared}, {Codegen(on[t]), Shared}}
      /\ Codegen(on[t]) \in adopting[t] => First(t) = Codegen(on[t])
      /\ Codegen(on[t]) \notin adopting[t] => First(t) = Shared
    BY <1>1, <1>2, <1>3, Names DEF First, Inv, Parses
<1>5. /\ adopting' \in [Threads -> SUBSET Owners]
      /\ adopting'[t] = adopting[t] \ {First(t)} /\ \A u \in Threads \ {t} : adopting'[u] = adopting[u]
    BY <1>1, <1>2, <1>3, <1>4 DEF FindSet, Inv, Running
<1>6. /\ sets' \in 0..2 * MaxMint /\ sets \in Nat /\ sets' = sets + 1 /\ sets' \in Sets
    BY <1>1, <1>2, <1>3, <1>4, <1>5, MemosAssumption DEF FindSet, Inv, Filing, Sets
<1>7. /\ set' \in [Threads -> Sets \cup {None}]
      /\ set'[t] = sets' /\ \A u \in Threads \ {t} : set'[u] = set[u]
    BY <1>1, <1>2, <1>3, <1>4, <1>5, <1>6 DEF FindSet, Inv, Running
<1>8. /\ ADOPTED' \in [Owners -> Sets \cup {None}]
      /\ ADOPTED'[First(t)] = sets' /\ \A u \in Owners \ {First(t)} : ADOPTED'[u] = ADOPTED[u]
    BY <1>1, <1>2, <1>3, <1>4, <1>5, <1>6, <1>7 DEF FindSet, Inv, Filing
<1>9. contents[sets'] = {}
    BY <1>6, Names DEF Inv, Shelves
<1>10. \A m \in Minted : InShared(m)' => InShared(m) /\ ADOPTED'[Shared] = ADOPTED[Shared]
    BY <1>1, <1>8, <1>9, Names DEF InShared
<1>11. \A m \in Minted : InOwn(m) => InOwn(m)'
    BY <1>1, <1>4, <1>8, Names DEF InOwn
<1>12. \A u \in Threads : set[u] # None => set[u] # sets'
    BY <1>6, Names, Within DEF Inv, Shelves
<1>20. Objects'
    BY <1>1 DEF Inv, Objects
<1>21. Filing'
    BY <1>1, <1>2, <1>3, <1>4, <1>5, <1>6, <1>7, <1>8, Names DEF Inv, Filing
<1>22. Running'
    BY <1>1, <1>2, <1>3, <1>4, <1>5, <1>6, <1>7, <1>8, Names DEF Inv, Running
<1>23. Lives'
    BY <1>1 DEF Inv, Lives, Sweeping
<1>24. NoStaleClaim'
    BY <1>1 DEF Inv, NoStaleClaim
<1>25. Parses'
    BY <1>1, <1>2, <1>3, <1>4, <1>5, <1>6, <1>7, <1>8, Names, Within DEF Inv, Parses, Locked
<1>26. Held'
    BY <1>1, <1>2, <1>3, <1>4, <1>5, <1>6, <1>7, <1>8, Names, Within DEF Inv, Held, Locked
<1>27. Shelves'
    BY <1>1, <1>2, <1>3, <1>4, <1>5, <1>6, <1>7, <1>8, Names, Within DEF Inv, Shelves
<1>28. TakenOut'
    BY <1>1, <1>2, <1>3, <1>4, <1>5, <1>6, <1>7, <1>8, Names, Within DEF Inv, TakenOut
<1>29. OwnSets'
    <2>1. \A b \in Artefacts : set'[t] = ADOPTED'[Codegen(b)] => on[t] = b
        <3>1. \A o \in Owners : ADOPTED[o] # None => ADOPTED[o] # sets'
            BY <1>6, Names, Within DEF Inv, Shelves
        <3>2. \A o \in Owners : ADOPTED'[o] = sets' => o = First(t)
            BY <1>6, <1>8, <3>1, Names
        <3>. QED BY <1>2, <1>4, <1>7, <3>2, Names
    <2>2. Shared \in adopting'[t] => set'[t] = ADOPTED'[Codegen(on[t])]
        BY <1>2, <1>4, <1>5, <1>7, <1>8, Names
    <2>3. ASSUME NEW u \in Threads \ {t}
          PROVE  /\ set'[u] = set[u] /\ adopting'[u] = adopting[u] /\ pc'[u] = pc[u]
                 /\ \A b \in Artefacts : set[u] # None /\ set[u] = ADOPTED'[Codegen(b)] => on[u] = b
                 /\ pc[u] = "update" /\ Shared \in adopting[u] => set[u] = ADOPTED'[Codegen(on[u])]
        <3>1. set'[u] = set[u] /\ adopting'[u] = adopting[u] /\ pc'[u] = pc[u]
            BY <1>3, <1>5, <1>7
        <3>2. \A b \in Artefacts : set[u] # None /\ set[u] = ADOPTED'[Codegen(b)] => on[u] = b
            BY <1>8, <1>12, Names DEF Inv, OwnSets
        <3>3. ASSUME pc[u] = "update", Shared \in adopting[u] PROVE set[u] = ADOPTED'[Codegen(on[u])]
            <4>1. set[u] # None /\ on[u] \in Artefacts /\ set[u] = ADOPTED[Codegen(on[u])]
                BY <3>3, Within DEF Inv, Parses, OwnSets
            <4>. QED BY <1>8, <4>1, Names
        <3>. QED BY <3>1, <3>2, <3>3
    <2>4. \A b \in Artefacts : ADOPTED'[Codegen(b)] # None => \A k \in contents[ADOPTED'[Codegen(b)]] : k[1] = b
        BY <1>8, <1>9, Names DEF Inv, OwnSets
    <2>. QED BY <1>1, <2>1, <2>2, <2>3, <2>4 DEF OwnSets
<1>30. GivenUp'
    BY <1>1, <1>2, <1>3, <1>4, <1>5, <1>6, <1>7, <1>8, Names, Within DEF Inv, GivenUp
<1>31. Numbers'
    BY <1>1 DEF Inv, Numbers
<1>32. Unmet'
    <2>1. ASSUME NEW u \in Threads, Unshared(u)' PROVE Unshared(u)
        <3>1. CASE u = t
            BY <1>2, <1>4, <1>5, <2>1, <3>1, Names DEF Unshared
        <3>2. CASE u # t
            BY <1>3, <1>5, <2>1, <3>2 DEF Unshared
        <3>. QED BY <3>1, <3>2
    <2>2. ASSUME NEW u \in Threads, Unshared(u), NEW s \in Sets, made[u] \in contents[s]
          PROVE  s = ADOPTED'[Codegen(on[u])]
        <3>1. s = ADOPTED[Codegen(on[u])] /\ on[u] \in Artefacts
            BY <2>2, Within DEF Inv, Unmet, Unshared, Parses
        <3>. QED BY <1>8, <3>1, Names
    <2>. QED BY <1>1, <2>1, <2>2 DEF Inv, Unmet
<1>33. OwnFirst'
    <2>1. ASSUME NEW u \in Threads, Sharing(u)' PROVE Sharing(u)
        <3>1. CASE u = t
            BY <1>2, <1>3, <1>4, <1>5, <2>1, <3>1, Names DEF Sharing
        <3>2. CASE u # t
            BY <1>3, <1>5, <2>1, <3>2 DEF Sharing
        <3>. QED BY <3>1, <3>2
    <2>2. ASSUME NEW u \in Threads, Sharing(u) PROVE made[u] \in Minted /\ InOwn(made[u])
        BY <2>2, Within DEF Inv, OwnFirst, Sharing, Parses
    <2>3. ASSUME NEW u \in Threads, Sharing(u)' PROVE InOwn(made[u])'
        <3>1. made[u] \in Minted /\ InOwn(made[u])
            BY <2>1, <2>2, <2>3
        <3>. QED BY <1>1, <1>11, <3>1 DEF InOwn
    <2>. QED BY <1>1, <2>3 DEF OwnFirst
<1>34. Apart'
    BY <1>1, <1>10 DEF Inv, Apart
<1>35. PassApart'
    BY <1>1, <1>10 DEF Inv, PassApart
<1>36. DerivedOwed'
    BY <1>1, <1>2, <1>3, <1>4, <1>5, <1>6, <1>7, <1>8, Names, Within
       DEF Inv, DerivedOwed, InHand, InOwn, InPass, ToSweep, Failed
<1>37. SharedOwed'
    BY <1>1, <1>10, <1>11 DEF Inv, SharedOwed, InPass, Failed
<1>38. Disowned'
    BY <1>1, <1>10 DEF Inv, Disowned
<1>39. Swept'
    BY <1>1 DEF Inv, Swept
<1>. QED
    BY <1>20, <1>21, <1>22, <1>23, <1>24, <1>25, <1>26, <1>27, <1>28, <1>29, <1>30, <1>31, <1>32, <1>33,
       <1>34, <1>35, <1>36, <1>37, <1>38, <1>39
       DEF Inv

(* An identity nothing is filed under leaves the frontier.                 *)
LEMMA StepExpandBare == ASSUME Inv, NEW a \in Artefacts, NEW i, Opens(a, i), i \in Owners => ADOPTED[i] = None PROVE Inv'
<1>1. /\ life' = life /\ at' = at /\ fresh' = fresh /\ CLAIMED' = CLAIMED /\ contents' = contents
      /\ MODEL_CACHE' = MODEL_CACHE /\ derived' = derived /\ ONCE' = ONCE /\ REDUCE_ENTRIES' = REDUCE_ENTRIES /\ holder' = holder
      /\ minted' = minted /\ sets' = sets /\ locks' = locks /\ pc' = pc /\ on' = on
      /\ made' = made /\ lock' = lock /\ set' = set /\ adopting' = adopting /\ answer' = answer
    BY DEF Opens, births, owning, memos, counts, thread
<1>2. rel[a].step = "expand" /\ i \in rel[a].frontier
    BY <1>1 DEF Opens
<1>3. ADOPTED' = ADOPTED
    BY <1>1, <1>2 DEF Opens, Inv, Filing
<1>4. rel[a] \in Passes
    BY <1>1, <1>2, <1>3 DEF Inv, Objects
<1>5. rel' = [rel EXCEPT ![a] = [rel[a] EXCEPT !.frontier = @ \ {i}, !.step = "expand", !.set = None, !.size = 0]]
    BY <1>1, <1>2, <1>3, <1>4 DEF Opens
<1>6. /\ rel' \in [Artefacts -> Passes]
      /\ rel'[a].step = "expand" /\ rel'[a].frontier = rel[a].frontier \ {i} /\ rel'[a].set = None
      /\ \A c \in Artefacts \ {a} : rel'[c] = rel[c]
      /\ \A c \in Artefacts : rel'[c].dropped = rel[c].dropped /\ rel'[c].records = rel[c].records
    BY <1>1, <1>2, <1>3, <1>4, <1>5, Names DEF Inv, Objects, Passes, Steps, Sizes
<1>20. Objects'
    BY <1>1, <1>2, <1>3, <1>6, Names DEF Inv, Objects
<1>21. Filing'
    BY <1>1, <1>2, <1>3, <1>6, Names DEF Inv, Filing
<1>22. Running'
    BY <1>1 DEF Inv, Running
<1>23. Lives'
    BY <1>1, <1>2, <1>3, <1>6, Names, Within DEF Inv, Lives, Sweeping
<1>24. NoStaleClaim'
    BY <1>1, <1>2, <1>3, <1>6, Names, Within DEF Inv, NoStaleClaim
<1>25. Parses'
    BY <1>1 DEF Inv, Parses, Locked
<1>26. Held'
    BY <1>1 DEF Inv, Held, Locked
<1>27. Shelves'
    BY <1>1, <1>2, <1>3, <1>6, Names, Within DEF Inv, Shelves
<1>28. TakenOut'
    BY <1>1, <1>2, <1>3, <1>6, Names, Within DEF Inv, TakenOut
<1>29. OwnSets'
    BY <1>1, <1>2, <1>3, <1>6, Names, Within DEF Inv, OwnSets
<1>30. GivenUp'
    BY <1>1, <1>2, <1>3, <1>6, Names, Within DEF Inv, GivenUp
<1>31. Numbers'
    BY <1>1, <1>2, <1>3, <1>6, Names, Within DEF Inv, Numbers
<1>32. Unmet'
    BY <1>1, <1>2, <1>3, <1>6, Names, Within DEF Inv, Unmet, Unshared
<1>33. OwnFirst'
    BY <1>1, <1>2, <1>3, <1>6, Names, Within DEF Inv, OwnFirst, Sharing, InOwn
<1>34. Apart'
    BY <1>1, <1>2, <1>3, <1>6, Names, Within DEF Inv, Apart, InShared
<1>35. PassApart'
    BY <1>1, <1>2, <1>3, <1>6, Names, Within DEF Inv, PassApart, InShared
<1>36. DerivedOwed'
    BY <1>1, <1>2, <1>3, <1>6, Names, Within DEF Inv, DerivedOwed, InHand, InOwn, InPass, ToSweep, Failed
<1>37. SharedOwed'
    BY <1>1, <1>2, <1>3, <1>6, Names, Within DEF Inv, SharedOwed, InShared, InOwn, InPass, Failed
<1>38. Disowned'
    BY <1>1, <1>2, <1>3, <1>6, Names, Within DEF Inv, Disowned, InShared
<1>39. Swept'
    BY <1>1, <1>2, <1>3, <1>6, Names, Within DEF Inv, Swept
<1>. QED
    BY <1>20, <1>21, <1>22, <1>23, <1>24, <1>25, <1>26, <1>27, <1>28, <1>29, <1>30, <1>31, <1>32, <1>33,
       <1>34, <1>35, <1>36, <1>37, <1>38, <1>39
       DEF Inv

(* A set leaves ADOPTED: the shared product's, or the artefact's own,      *)
(* which then is the one being passed over.                                *)
LEMMA StepExpandTakes == ASSUME Inv, NEW a \in Artefacts, NEW i \in Owners, Opens(a, i), ADOPTED[i] # None PROVE Inv'
<1>1. /\ life' = life /\ at' = at /\ fresh' = fresh /\ CLAIMED' = CLAIMED /\ contents' = contents
      /\ MODEL_CACHE' = MODEL_CACHE /\ derived' = derived /\ ONCE' = ONCE /\ REDUCE_ENTRIES' = REDUCE_ENTRIES /\ holder' = holder
      /\ minted' = minted /\ sets' = sets /\ locks' = locks /\ pc' = pc /\ on' = on
      /\ made' = made /\ lock' = lock /\ set' = set /\ adopting' = adopting /\ answer' = answer
    BY DEF Opens, births, owning, memos, counts, thread
<1>2. rel[a].step = "expand" /\ i \in rel[a].frontier
    BY <1>1 DEF Opens
<1>3. /\ ADOPTED[i] \in Sets /\ ADOPTED' \in [Owners -> Sets \cup {None}]
      /\ ADOPTED'[i] = None /\ \A u \in Owners \ {i} : ADOPTED'[u] = ADOPTED[u]
    BY <1>1, <1>2, Within DEF Opens, Inv, Filing
<1>4. Cardinality(contents[ADOPTED[i]]) \in Sizes
    BY <1>1, <1>2, <1>3, Within DEF Sizes
<1>5. rel[a] \in Passes
    BY <1>1, <1>2, <1>3, <1>4 DEF Inv, Objects
<1>6. rel' = [rel EXCEPT ![a] = [rel[a] EXCEPT !.frontier = @ \ {i}, !.step = "iterate", !.set = ADOPTED[i],
                                    !.size = Cardinality(contents[ADOPTED[i]])]]
    BY <1>1, <1>2, <1>3, <1>4, <1>5 DEF Opens
<1>7. /\ rel' \in [Artefacts -> Passes]
      /\ rel'[a].step = "iterate" /\ rel'[a].frontier = rel[a].frontier \ {i} /\ rel'[a].set = ADOPTED[i]
      /\ \A c \in Artefacts \ {a} : rel'[c] = rel[c]
      /\ \A c \in Artefacts : rel'[c].dropped = rel[c].dropped /\ rel'[c].records = rel[c].records
    <2>. DEFINE x == [rel[a] EXCEPT !.frontier = rel[a].frontier \ {i}, !.step = "iterate", !.set = ADOPTED[i],
                                    !.size = Cardinality(contents[ADOPTED[i]])]
    <2>1. rel \in [Artefacts -> Passes]
        BY DEF Inv, Objects
    <2>2. x \in Passes
        BY <1>3, <1>4, <1>5 DEF Passes, Steps
    <2>3. /\ x.step = "iterate" /\ x.frontier = rel[a].frontier \ {i} /\ x.set = ADOPTED[i]
          /\ x.dropped = rel[a].dropped /\ x.records = rel[a].records
        BY <1>5 DEF Passes
    <2>4. rel' = [rel EXCEPT ![a] = x]
        BY <1>6
    <2>. HIDE DEF x
    <2>. QED BY <2>1, <2>2, <2>3, <2>4
<1>8. i \in {Codegen(a), Shared} /\ life[a] = "dying" /\ Codegen(a) \in Owners
    BY <1>2, Names DEF Inv, Lives, Tracks, Sweeping
<1>9. \A t \in Threads : on[t] # None => on[t] \in Artefacts /\ ADOPTED'[Codegen(on[t])] = ADOPTED[Codegen(on[t])]
    BY <1>3, <1>8, Names, Within DEF Inv, Parses
<1>10. \A m \in Minted : InShared(m)' => InShared(m) /\ i # Shared /\ ADOPTED'[Shared] = ADOPTED[Shared]
    BY <1>1, <1>3, Names DEF InShared
<1>11. \A m \in Minted : InPass(m) => InPass(m)'
    BY <1>1, <1>2, <1>7, Names DEF InPass
<1>12. \A m \in Minted : InOwn(m) => InOwn(m)' \/ InPass(m)'
    <2>. SUFFICES ASSUME NEW m \in Minted, InOwn(m) PROVE InOwn(m)' \/ InPass(m)'
        OBVIOUS
    <2>1. CASE Codegen(m[1]) = i
        <3>1. m[1] = a
            BY <1>8, <2>1, Names
        <3>. QED BY <1>1, <1>7, <2>1, <3>1 DEF InOwn, InPass
    <2>2. CASE Codegen(m[1]) # i
        BY <1>1, <1>3, <2>2, Names DEF InOwn
    <2>. QED BY <2>1, <2>2
<1>20. Objects'
    BY <1>1, <1>2, <1>3, <1>4, <1>7, Names DEF Inv, Objects
<1>21. Filing'
    BY <1>1, <1>2, <1>3, <1>4, <1>7, Names DEF Inv, Filing
<1>22. Running'
    BY <1>1 DEF Inv, Running
<1>23. Lives'
    BY <1>1, <1>2, <1>3, <1>4, <1>7, Names, Within DEF Inv, Lives, Sweeping
<1>24. NoStaleClaim'
    BY <1>1, <1>2, <1>3, <1>4, <1>7, Names, Within DEF Inv, NoStaleClaim
<1>25. Parses'
    BY <1>1 DEF Inv, Parses, Locked
<1>26. Held'
    BY <1>1 DEF Inv, Held, Locked
<1>27. Shelves'
    BY <1>1, <1>2, <1>3, <1>4, <1>7, Names, Within DEF Inv, Shelves
<1>28. TakenOut'
    <2>1. \A o \in Owners : ADOPTED'[o] # ADOPTED[i]
        BY <1>3, Names DEF Inv, Shelves
    <2>2. ADOPTED[i] <= sets
        BY DEF Inv, Shelves
    <2>3. ASSUME NEW c \in Artefacts \ {a}, rel[c].step = "iterate"
          PROVE  rel[c].set <= sets /\ \A o \in Owners : ADOPTED'[o] # rel[c].set
        BY <1>3, <2>3, Names, Within DEF Inv, TakenOut
    <2>. QED BY <1>1, <1>7, <2>1, <2>2, <2>3 DEF TakenOut
<1>29. OwnSets'
    <2>1. \A b \in Artefacts : ADOPTED'[Codegen(b)] # None => ADOPTED'[Codegen(b)] = ADOPTED[Codegen(b)]
        BY <1>3, Names
    <2>2. \A t \in Threads : pc[t] = "update" => ADOPTED'[Codegen(on[t])] = ADOPTED[Codegen(on[t])]
        BY <1>9 DEF Inv, Parses
    <2>. QED BY <1>1, <2>1, <2>2 DEF Inv, OwnSets
<1>30. GivenUp'
    BY <1>1, <1>2, <1>3, <1>4, <1>7, Names, Within DEF Inv, GivenUp
<1>31. Numbers'
    BY <1>1, <1>2, <1>3, <1>4, <1>7, Names, Within DEF Inv, Numbers
<1>32. Unmet'
    <2>1. \A t \in Threads : Unshared(t)' => Unshared(t) /\ on[t] # None
        BY <1>1 DEF Inv, Parses, Unshared
    <2>2. \A b \in Artefacts : rel'[b].dropped = rel[b].dropped
        BY <1>7
    <2>. QED BY <1>1, <1>9, <2>1, <2>2 DEF Inv, Unmet
<1>33. OwnFirst'
    <2>1. \A t \in Threads : Sharing(t) => made[t] \in Minted /\ made[t][1] = on[t] /\ on[t] # None /\ InOwn(made[t])
        BY Within DEF Inv, OwnFirst, Sharing, Parses
    <2>. QED BY <1>1, <1>9, <2>1 DEF OwnFirst, Sharing, InOwn
<1>34. Apart'
    BY <1>1, <1>2, <1>3, <1>4, <1>7, Names, Within DEF Inv, Apart, InShared
<1>35. PassApart'
    <2>. SUFFICES ASSUME NEW m \in Minted, NEW b \in Artefacts, InShared(m)', b # m[1], rel'[b].step = "iterate"
                  PROVE  m \notin contents[rel'[b].set]
        BY <1>1 DEF PassApart
    <2>1. CASE b = a
        BY <1>3, <1>7, <1>8, <1>10, <2>1 DEF Inv, OwnSets
    <2>2. CASE b # a
        BY <1>7, <1>10, <2>2 DEF Inv, PassApart
    <2>. QED BY <2>1, <2>2
<1>36. DerivedOwed'
    <2>1. \A m \in Minted : InHand(m) => InHand(m)'
        BY <1>1 DEF InHand
    <2>2. \A m \in Minted : (ToSweep(m) => ToSweep(m)') /\ (Failed(m[1]) => Failed(m[1])')
        BY <1>2, <1>7, Names DEF ToSweep, Failed
    <2>. QED BY <1>1, <1>11, <1>12, <2>1, <2>2, Within DEF Inv, DerivedOwed
<1>37. SharedOwed'
    <2>1. \A m \in Minted : (m \in rel[m[1]].dropped => m \in rel'[m[1]].dropped) /\ (Failed(m[1]) => Failed(m[1])')
        BY <1>2, <1>7, Names DEF Failed
    <2>. QED BY <1>10, <1>11, <1>12, <2>1 DEF Inv, SharedOwed
<1>38. Disowned'
    BY <1>1, <1>2, <1>3, <1>4, <1>7, Names, Within DEF Inv, Disowned, InShared
<1>39. Swept'
    BY <1>1, <1>2, <1>3, <1>4, <1>7, Names, Within DEF Inv, Swept
<1>. QED
    BY <1>20, <1>21, <1>22, <1>23, <1>24, <1>25, <1>26, <1>27, <1>28, <1>29, <1>30, <1>31, <1>32, <1>33,
       <1>34, <1>35, <1>36, <1>37, <1>38, <1>39
       DEF Inv

-----------------------------------------------------------------------------
(* Either way.                                                             *)
LEMMA StepExpand == ASSUME Inv, NEW a \in Artefacts, Expand(a) PROVE Inv'
<1>1. PICK i \in rel[a].frontier : Opens(a, i)
    BY DEF Expand, Opens
<1>2. CASE i \in Owners => ADOPTED[i] = None
    BY <1>1, <1>2, StepExpandBare
<1>3. CASE i \in Owners /\ ADOPTED[i] # None
    BY <1>1, <1>3, StepExpandTakes
<1>. QED BY <1>2, <1>3

(* Every step keeps the account ...                                        *)
LEMMA StepInv == ASSUME Inv, [Next]_vars PROVE Inv'
<1>1. CASE UNCHANGED vars
    <2>. USE <1>1 DEF vars, births, owning, memos, counts, thread, Inv
    <2>1. (Objects /\ Filing /\ Running)'
        BY DEF Objects, Filing, Running
    <2>2. (Lives /\ NoStaleClaim /\ Parses /\ Held)'
        BY DEF Lives, NoStaleClaim, Parses, Held, Unshared, Sharing
    <2>3. (Shelves /\ TakenOut /\ OwnSets /\ GivenUp /\ Numbers)'
        BY DEF Shelves, TakenOut, OwnSets, GivenUp, Numbers
    <2>4. (Unmet /\ OwnFirst /\ Apart /\ PassApart)'
        BY DEF Unmet, OwnFirst, Apart, PassApart, Unshared, Sharing, InOwn, InShared
    <2>5. (DerivedOwed /\ SharedOwed /\ Disowned /\ Swept)'
        BY DEF DerivedOwed, SharedOwed, Disowned, Swept, InShared, InHand, InOwn, InPass, ToSweep, Failed
    <2>. QED BY <2>1, <2>2, <2>3, <2>4, <2>5
<1>2. ASSUME NEW a \in Artefacts, Bind(a) \/ Claim(a) \/ Drop(a) PROVE Inv'
    BY <1>2, StepBind, StepClaim, StepDrop
<1>3. ASSUME NEW a \in Artefacts, Release(a) PROVE Inv'
    BY <1>3, StepExpand, StepIterate, StepIterateFails, StepUnclaim, StepDisown, StepSweepLocks,
        StepSweepDerived, StepSweepProducts, StepSweepReductions DEF Release
<1>4. ASSUME NEW t \in Threads, NEW a \in Artefacts, Parse(t, a) \/ Reduce(t, a) PROVE Inv'
    BY <1>4, StepParse, StepReduce
<1>5. ASSUME NEW t \in Threads, Hit(t) \/ Once(t) \/ Acquire(t) \/ Recheck(t) \/ Compile(t) \/ Store(t) PROVE Inv'
    BY <1>5, StepHit, StepOnce, StepAcquire, StepRecheckHit, StepRecheckMiss, StepCompile, StepStore
<1>6. ASSUME NEW t \in Threads, FindSet(t) \/ Update(t) \/ Return(t) \/ Look(t) \/ Derive(t) \/ Reduced(t) PROVE Inv'
    BY <1>6, StepFindSetFound, StepFindSetMakes, StepUpdate, StepReturn, StepLook, StepDerive, StepReduced
<1>. QED BY <1>1, <1>2, <1>3, <1>4, <1>5, <1>6 DEF Next

(* ... and it holds at the start.                                          *)
LEMMA InitInv == Init => Inv
<1>. SUFFICES ASSUME Init PROVE Inv
    OBVIOUS
<1>1. \A a \in Artefacts : rel[a] = NoRelease /\ fresh[a] = {} /\ life[a] = "unborn"
    BY DEF Init
<1>2. \A t \in Threads : pc[t] = "idle" /\ on[t] = None /\ made[t] = None /\ lock[t] = None /\ set[t] = None
    BY DEF Init
<1>3. \A o \in Owners : ADOPTED[o] = None
    BY DEF Init
<1>4. Objects
    BY DEF Init, Objects, Passes, Steps, Sizes, NoRelease
<1>5. Filing
    BY MemosAssumption DEF Init, Filing
<1>6. Running
    BY DEF Init, Running, Pcs
<1>7. Lives
    BY <1>1 DEF Lives, NoRelease, Sweeping
<1>8. NoStaleClaim
    BY DEF Init, NoStaleClaim
<1>9. Parses
    BY <1>2 DEF Parses, Locked
<1>10. Held
    BY <1>2, Names DEF Init, Held
<1>11. Shelves /\ TakenOut /\ OwnSets /\ GivenUp
    BY <1>1, <1>2, <1>3, Names DEF Init, Shelves, TakenOut, OwnSets, GivenUp, NoRelease
<1>12. Numbers
    BY <1>1, <1>2 DEF Init, Numbers, NoRelease
<1>13. Unmet /\ OwnFirst
    BY <1>2 DEF Unmet, Unshared, OwnFirst, Sharing
<1>14. Apart /\ PassApart /\ DerivedOwed /\ SharedOwed /\ Disowned
    BY <1>3, Names DEF Init, Apart, PassApart, DerivedOwed, SharedOwed, Disowned, InShared
<1>15. Swept
    BY <1>1 DEF Swept, NoRelease
<1>. QED
    BY <1>4, <1>5, <1>6, <1>7, <1>8, <1>9, <1>10, <1>11, <1>12, <1>13, <1>14, <1>15 DEF Inv

(* The account holds in every reachable state.                             *)
THEOREM Accounted == Spec => []Inv
BY InitInv, StepInv, PTL DEF Spec

(* Every variable keeps its type, and a lock of once is held exactly by a  *)
(* thread between its acquire and its return.                              *)
THEOREM Typed == Spec => []TypeOK
<1>1. Inv => TypeOK
    <2>1. Inv => \A a \in Artefacts : rel[a].step \in Steps
        BY DEF Inv, Objects, Passes
    <2>. QED BY <2>1 DEF Inv, TypeOK, Objects, Filing, Held
<1>. QED BY <1>1, Accounted, PTL

(* No claim outlives a finalizer that ran to its end (caches.py: track and *)
(* release), so an artefact that takes a dead one's place is tracked.      *)
THEOREM ClaimsReturn == Spec => []NoStaleClaim
<1>1. Inv => NoStaleClaim
    BY DEF Inv
<1>. QED BY <1>1, Accounted, PTL

(* What an artefact's parses put into the memos is gone once its finalizer *)
(* and those of the others have run to their end.                          *)
THEOREM Released == Spec => []PrivateReleased
<1>1. ASSUME Inv, NEW a \in Artefacts, Finished(a), \A b \in Artefacts : life[b] # "dying"
      PROVE  /\ MODEL_CACHE[a] = None /\ ONCE[a] = None
             /\ \A m \in derived : m[1] # a
             /\ \A o \in Owners : ADOPTED[o] # None => \A m \in contents[ADOPTED[o]] : m[1] # a
    <2>1. rel[a].step = "done" /\ life[a] = "gone" /\ rel[a].frontier = {}
        BY <1>1 DEF Finished, Inv, Objects, Lives, Sweeping
    <2>2. ADOPTED[Codegen(a)] = None
        BY <1>1, <2>1 DEF Inv, GivenUp
    <2>3. MODEL_CACHE[a] = None /\ ONCE[a] = None
        BY <1>1, <2>1 DEF Inv, Swept
    <2>4. ASSUME NEW m \in derived, m[1] = a PROVE FALSE
        <3>1. m \in Minted /\ \A b \in Artefacts : rel[b].step \notin Sweeping
            BY <1>1, Within DEF Inv, Lives
        <3>2. ~InHand(m)
            BY <1>1, <2>1, <2>4, <3>1, Names DEF InHand, Inv, Parses
        <3>3. ~InOwn(m) /\ ~InPass(m) /\ ~Failed(m[1])
            BY <2>1, <2>2, <2>4 DEF InOwn, InPass, Failed
        <3>4. ~ToSweep(m)
            BY <3>1 DEF ToSweep, Sweeping
        <3>. QED BY <1>1, <3>2, <3>3, <3>4 DEF Inv, DerivedOwed
    <2>5. ASSUME NEW o \in Owners, ADOPTED[o] # None, NEW m \in contents[ADOPTED[o]], m[1] = a PROVE FALSE
        <3>1. m \in Minted
            BY <1>1, <2>5, Within
        <3>2. CASE o = Shared
            BY <1>1, <2>1, <2>5, <3>1, <3>2 DEF Inv, Disowned, InShared
        <3>3. CASE o # Shared
            <4>1. PICK b \in Artefacts : o = Codegen(b)
                BY <3>3, Names
            <4>. QED BY <1>1, <2>2, <2>5, <4>1 DEF Inv, OwnSets
        <3>. QED BY <3>2, <3>3
    <2>. QED BY <2>3, <2>4, <2>5
<1>2. Inv => PrivateReleased
    BY <1>1 DEF PrivateReleased
<1>. QED BY <1>2, Accounted, PTL
=============================================================================
