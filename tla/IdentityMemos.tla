---------------------------- MODULE IdentityMemos ----------------------------
(***************************************************************************)
(* Cache lifetime: parsing/caches.py, the product memo of                  *)
(* parsing/products.py that is built on it, and the reduce memo of         *)
(* compile/artifact.py.  Memos are keyed by identity; an artefact claims   *)
(* identities at its birth and a weakref finalizer releases what they own  *)
(* at its death, on whatever thread dropped it, while other threads parse. *)
(*                                                                         *)
(* Artefacts are bound from one another and share one authored product     *)
(* (Shared); each has a codegen grammar of its own (Codegen).  Every dict  *)
(* or set operation is atomic, as the interpreter makes it; a sequence of  *)
(* them is not.                                                            *)
(***************************************************************************)
EXTENDS Integers, FiniteSets

CONSTANTS
    Artefacts,  \* the compiled grammars that may come to exist
    Threads,    \* threads that parse and reduce
    Addresses,  \* where artefacts live in memory: reused after death
    Shared,     \* the product (and authored grammar) they share
    None,
    MaxMint     \* bound: products compiled

ASSUME MemosAssumption == MaxMint \in Nat

Codegen(a) == <<"codegen", a>>
Grammars == {Codegen(a) : a \in Artefacts}
(* What one compile mints (lifted, instance, PDA and tables), with the     *)
(* artefact it was minted for: the other memos key on it.                  *)
Minted == Artefacts \X (1..MaxMint)
(* A set of ADOPTED and a lock of _ONCE are objects too.                   *)
Sets == 1..2 * MaxMint
Locks == 1..MaxMint
Idents == Grammars \cup {Shared} \cup Addresses \cup Minted

(* An identity is one object's: a grammar is not the shared product, no    *)
(* product is a grammar, and no object is the None of an empty entry.      *)
ASSUME NamesAssumption ==
    /\ Shared \notin Grammars \cup Minted /\ Grammars \cap Minted = {}
    /\ None \notin Artefacts \cup Threads \cup Minted \cup Sets \cup Locks

VARIABLES
    life,      \* Artefacts -> unborn, binding, live, dying, gone
    at,        \* Artefacts -> its address
    fresh,     \* Artefacts -> what it claims: its finalizer's argument
    CLAIMED,   \* the identities spoken for
    ADOPTED,   \* Grammars and Shared -> the set filed there, or None
    contents,  \* Sets -> the identities in it
    MODEL_CACHE,  \* Artefacts -> the product kept for its pair, or None
    derived,   \* the minted objects other memos hold entries for
    ONCE,      \* Artefacts -> the lock of its pair, or None
    REDUCE_ENTRIES, \* Addresses -> the artefact the entry was derived for
    holder,    \* Locks -> the thread inside it, or None
    minted, sets, locks,    \* how many products, sets and locks were made
    pc, on, made, lock, set, adopting, \* a thread's parse
    answer,    \* Threads -> the artefact its reduction really used
    rel        \* Artefacts -> its release: where it is and what it holds

memos == <<MODEL_CACHE, derived, ONCE, REDUCE_ENTRIES>>
owning == <<CLAIMED, ADOPTED, contents>>
births == <<life, at, fresh>>
counts == <<minted, sets, locks>>
thread == <<pc, on, made, lock, set, adopting, answer>>
vars == <<births, owning, memos, holder, counts, thread, rel>>

Owners == Grammars \cup {Shared}
NoRelease == [step |-> "none", frontier |-> {}, dropped |-> {}, set |-> None, size |-> 0, records |-> {}]

Init ==
    /\ life = [a \in Artefacts |-> "unborn"]
    /\ at = [a \in Artefacts |-> None] /\ fresh = [a \in Artefacts |-> {}]
    /\ CLAIMED = {}
    /\ ADOPTED = [o \in Owners |-> None] /\ contents = [s \in Sets |-> {}]
    /\ MODEL_CACHE = [a \in Artefacts |-> None] /\ derived = {}
    /\ ONCE = [a \in Artefacts |-> None]
    /\ REDUCE_ENTRIES = [x \in Addresses |-> None]
    /\ holder = [l \in Locks |-> None]
    /\ minted = 0 /\ sets = 0 /\ locks = 0
    /\ pc = [t \in Threads |-> "idle"] /\ on = [t \in Threads |-> None]
    /\ made = [t \in Threads |-> None] /\ lock = [t \in Threads |-> None]
    /\ set = [t \in Threads |-> None] /\ adopting = [t \in Threads |-> {}]
    /\ answer = [t \in Threads |-> None]
    /\ rel = [a \in Artefacts |-> NoRelease]

-----------------------------------------------------------------------------
(* An artefact's birth and death.                                          *)

Live == {a \in Artefacts : life[a] = "live"}
Taken == {at[a] : a \in {b \in Artefacts : life[b] \notin {"unborn", "gone"}}}

(* What __post_init__ hands to track: the authored grammar and the product *)
(* (shared) and the codegen grammar.                                       *)
Tracks(a) == {Codegen(a), Shared}

(* bind makes an artefact from a live one; track reads CLAIMED ...         *)
Bind(a) ==
    /\ life[a] = "unborn"
    /\ Live # {} \/ \A b \in Artefacts : life[b] = "unborn"
    /\ \E x \in Addresses \ Taken : at' = [at EXCEPT ![a] = x]
    /\ life' = [life EXCEPT ![a] = "binding"]
    /\ fresh' = [fresh EXCEPT ![a] = Tracks(a) \ CLAIMED]
    /\ UNCHANGED <<owning, memos, holder, counts, thread, rel>>

(* ... and then claims what was free, and files the finalizer.             *)
Claim(a) ==
    /\ life[a] = "binding"
    /\ CLAIMED' = CLAIMED \cup fresh[a]
    /\ life' = [life EXCEPT ![a] = "live"]
    /\ UNCHANGED <<at, fresh, ADOPTED, contents, memos, holder, counts, thread, rel>>

(* The last reference goes: no parse of it runs, nothing is bound from it. *)
(* A parse keeps its artefact alive, so one is never dropped between the   *)
(* store of its product and the adoptions; the releases of others come in  *)
(* there. A chunk left behind by an abandoned split is not modelled: it    *)
(* has the grammar and the binding and not the artefact.                   *)
Drop(a) ==
    /\ life[a] = "live" /\ \A t \in Threads : on[t] # a
    /\ \A b \in Artefacts : life[b] # "binding"
    /\ life' = [life EXCEPT ![a] = "dying"]
    /\ rel' = [rel EXCEPT ![a] = [NoRelease EXCEPT !.step = "expand", !.frontier = fresh[a], !.dropped = fresh[a]]]
    /\ UNCHANGED <<at, fresh, owning, memos, holder, counts, thread>>

-----------------------------------------------------------------------------
(* release, run by the finalizer.                                          *)

Releases(a, from, to) == rel[a].step = from /\ rel' = [rel EXCEPT ![a].step = to]
Over(a) == life' = [life EXCEPT ![a] = "gone"]

(* _expand takes an identity off the frontier and its set out of ADOPTED.  *)
Expand(a) ==
    /\ rel[a].step = "expand"
    /\ \E i \in rel[a].frontier :
        LET s == IF i \in Owners THEN ADOPTED[i] ELSE None
        IN  /\ ADOPTED' = IF i \in Owners THEN [ADOPTED EXCEPT ![i] = None] ELSE ADOPTED
            /\ rel' = [rel EXCEPT ![a].frontier = @ \ {i},
                                  ![a].step = IF s = None THEN "expand" ELSE "iterate",
                                  ![a].set = s,
                                  ![a].size = IF s = None THEN 0 ELSE Cardinality(contents[s])]
    /\ UNCHANGED <<births, CLAIMED, contents, memos, holder, counts, thread>>

Unchanged(a) == Cardinality(contents[rel[a].set]) = rel[a].size

(* It iterates the set itself, which a thread in adopt, or the disowning   *)
(* of another release, may still write.                                    *)
Iterate(a) ==
    /\ rel[a].step = "iterate" /\ Unchanged(a)
    /\ LET s == contents[rel[a].set]
       IN rel' = [rel EXCEPT ![a].step = "expand", ![a].dropped = @ \cup s,
                             ![a].frontier = @ \cup (s \ rel[a].dropped)]
    /\ UNCHANGED <<births, owning, memos, holder, counts, thread>>

(* "Set changed size during iteration": the finalizer ends there.          *)
IterateFails(a) ==
    /\ Releases(a, "iterate", "failed") /\ ~Unchanged(a)
    /\ Over(a)
    /\ UNCHANGED <<at, fresh, owning, memos, holder, counts, thread>>

(* Mutant: the claims are kept.                                            *)
UnclaimForgets(a) ==
    /\ rel[a].step = "expand" /\ rel[a].frontier = {}
    /\ rel' = [rel EXCEPT ![a].step = "disown",
                          ![a].records = {ADOPTED[o] : o \in Owners} \ {None}]
    /\ UNCHANGED <<births, owning, memos, holder, counts, thread>>

(* The claims are returned, and the records of the other owners copied.    *)
Unclaim(a) ==
    /\ rel[a].step = "expand" /\ rel[a].frontier = {}
    /\ CLAIMED' = CLAIMED \ rel[a].dropped
    /\ rel' = [rel EXCEPT ![a].step = "disown",
                          ![a].records = {ADOPTED[o] : o \in Owners} \ {None}]
    /\ UNCHANGED <<births, ADOPTED, contents, memos, holder, counts, thread>>

Disown(a) ==
    /\ Releases(a, "disown", "locks")
    /\ contents' = [s \in Sets |-> IF s \in rel[a].records THEN contents[s] \ rel[a].dropped ELSE contents[s]]
    /\ UNCHANGED <<births, CLAIMED, ADOPTED, memos, holder, counts, thread>>

(* A pair's key names its codegen grammar and the shared product.          *)
KeyDropped(a, b) == {Codegen(b), Shared} \cap rel[a].dropped # {}

(* The memos are swept one by one, in the order they were registered.      *)
SweepLocks(a) ==
    /\ Releases(a, "locks", "derived")
    /\ ONCE' = [b \in Artefacts |-> IF KeyDropped(a, b) THEN None ELSE ONCE[b]]
    /\ UNCHANGED <<births, owning, MODEL_CACHE, derived, REDUCE_ENTRIES, holder, counts, thread>>

SweepDerived(a) ==
    /\ Releases(a, "derived", "products")
    /\ derived' = derived \ rel[a].dropped
    /\ UNCHANGED <<births, owning, MODEL_CACHE, ONCE, REDUCE_ENTRIES, holder, counts, thread>>

SweepProducts(a) ==
    /\ Releases(a, "products", "reductions")
    /\ MODEL_CACHE' = [b \in Artefacts |-> IF KeyDropped(a, b) THEN None ELSE MODEL_CACHE[b]]
    /\ UNCHANGED <<births, owning, derived, ONCE, REDUCE_ENTRIES, holder, counts, thread>>

SweepReductions(a) ==
    /\ Releases(a, "reductions", "done")
    /\ REDUCE_ENTRIES' = [x \in Addresses |-> IF x \in rel[a].dropped THEN None ELSE REDUCE_ENTRIES[x]]
    /\ Over(a)
    /\ UNCHANGED <<at, fresh, owning, MODEL_CACHE, derived, ONCE, holder, counts, thread>>

Release(a) ==
    \/ Expand(a) \/ Iterate(a) \/ IterateFails(a) \/ Unclaim(a) \/ Disown(a)
    \/ SweepLocks(a) \/ SweepDerived(a) \/ SweepProducts(a) \/ SweepReductions(a)

-----------------------------------------------------------------------------
(* model_product, on thread t for artefact a.                              *)

Goes(t, from, to) == pc[t] = from /\ pc' = [pc EXCEPT ![t] = to]

Parse(t, a) ==
    /\ Goes(t, "idle", "read") /\ life[a] = "live"
    /\ on' = [on EXCEPT ![t] = a]
    /\ UNCHANGED <<births, owning, memos, holder, counts, made, lock, set, adopting, answer, rel>>

Ends(t, from) ==
    /\ Goes(t, from, "idle")
    /\ on' = [on EXCEPT ![t] = None] /\ made' = [made EXCEPT ![t] = None]
    /\ lock' = [lock EXCEPT ![t] = None] /\ answer' = [answer EXCEPT ![t] = None]

Kept(t) == pc[t] # "idle" /\ MODEL_CACHE[on[t]] # None

(* The unlocked read: a hit ends it, a miss asks once for the key's lock.  *)
Hit(t) ==
    /\ pc[t] = "read" /\ Kept(t)
    /\ Ends(t, "read")
    /\ UNCHANGED <<births, owning, memos, holder, counts, set, adopting, rel>>

Once(t) ==
    /\ Goes(t, "read", "wait") /\ ~Kept(t)
    /\ \/ /\ ONCE[on[t]] # None
          /\ lock' = [lock EXCEPT ![t] = ONCE[on[t]]]
          /\ UNCHANGED <<ONCE, locks>>
       \/ /\ ONCE[on[t]] = None /\ locks < MaxMint
          /\ locks' = locks + 1
          /\ lock' = [lock EXCEPT ![t] = locks']
          /\ ONCE' = [ONCE EXCEPT ![on[t]] = locks']
    /\ UNCHANGED <<births, owning, MODEL_CACHE, derived, REDUCE_ENTRIES, holder, minted, sets, on, made, set, adopting, answer, rel>>

Acquire(t) ==
    /\ Goes(t, "wait", "check") /\ holder[lock[t]] = None
    /\ holder' = [holder EXCEPT ![lock[t]] = t]
    /\ UNCHANGED <<births, owning, memos, counts, on, made, lock, set, adopting, answer, rel>>

(* Mutant: the lock is kept.                                               *)
Keeping(t) == UNCHANGED holder
Releasing(t) == holder' = [holder EXCEPT ![lock[t]] = None]

(* Checked again under the lock: another thread may have compiled it.      *)
Recheck(t) ==
    /\ pc[t] = "check"
    /\ \/ Kept(t) /\ Ends(t, "check") /\ Releasing(t)
       \/ /\ ~Kept(t) /\ Goes(t, "check", "compile")
          /\ UNCHANGED <<holder, on, made, lock, answer>>
    /\ UNCHANGED <<births, owning, memos, counts, set, adopting, rel>>

(* _compiled_product: the compile fills the memos keyed on what it mints,  *)
Compile(t) ==
    /\ Goes(t, "compile", "store") /\ minted < MaxMint
    /\ minted' = minted + 1
    /\ LET m == <<on[t], minted'>>
       IN made' = [made EXCEPT ![t] = m] /\ derived' = derived \cup {m}
    /\ UNCHANGED <<births, owning, MODEL_CACHE, ONCE, REDUCE_ENTRIES, holder, sets, locks, on, lock, set, adopting, answer, rel>>

(* Mutant: the shared product alone owns it.                               *)
AdoptedUnderShared(a) == {Shared}

(* It is adopted under both halves of the key: either one retires it.      *)
AdoptedUnder(a) == {Codegen(a), Shared}

(* the product is memoised,                                                *)
Store(t) ==
    /\ Goes(t, "store", "adopt")
    /\ MODEL_CACHE' = [MODEL_CACHE EXCEPT ![on[t]] = made[t]]
    /\ adopting' = [adopting EXCEPT ![t] = AdoptedUnder(on[t])]
    /\ UNCHANGED <<births, owning, derived, ONCE, REDUCE_ENTRIES, holder, counts, on, made, lock, set, answer, rel>>

(* and what it minted is adopted: ADOPTED.setdefault(owner, set()) finds   *)
(* or makes the owner's set ...                                            *)
First(t) == IF Codegen(on[t]) \in adopting[t] THEN Codegen(on[t]) ELSE Shared

FindSet(t) ==
    /\ pc[t] = "adopt" /\ adopting[t] # {}
    /\ Goes(t, "adopt", "update")
    /\ adopting' = [adopting EXCEPT ![t] = @ \ {First(t)}]
    /\ \/ /\ ADOPTED[First(t)] # None
          /\ set' = [set EXCEPT ![t] = ADOPTED[First(t)]]
          /\ UNCHANGED <<ADOPTED, sets>>
       \/ /\ ADOPTED[First(t)] = None /\ sets < 2 * MaxMint
          /\ sets' = sets + 1
          /\ set' = [set EXCEPT ![t] = sets']
          /\ ADOPTED' = [ADOPTED EXCEPT ![First(t)] = sets']
    /\ UNCHANGED <<births, CLAIMED, contents, memos, holder, minted, locks, on, made, lock, answer, rel>>

(* ... and .update adds to it.                                             *)
Update(t) ==
    /\ Goes(t, "update", "adopt")
    /\ contents' = [contents EXCEPT ![set[t]] = @ \cup {made[t]}]
    /\ set' = [set EXCEPT ![t] = None]
    /\ UNCHANGED <<births, CLAIMED, ADOPTED, memos, holder, counts, on, made, lock, adopting, answer, rel>>

Return(t) ==
    /\ pc[t] = "adopt" /\ adopting[t] = {}
    /\ Ends(t, "adopt") /\ Releasing(t)
    /\ UNCHANGED <<births, owning, memos, counts, set, adopting, rel>>

-----------------------------------------------------------------------------
(* derived_reduce_entry, for one reducer: keyed by the artefact's address. *)

Reduce(t, a) ==
    /\ Goes(t, "idle", "look") /\ life[a] = "live"
    /\ on' = [on EXCEPT ![t] = a]
    /\ UNCHANGED <<births, owning, memos, holder, counts, made, lock, set, adopting, answer, rel>>

Look(t) ==
    /\ pc[t] = "look"
    /\ LET entry == REDUCE_ENTRIES[at[on[t]]]
       IN  \/ /\ entry # None /\ Goes(t, "look", "reduced")
              /\ answer' = [answer EXCEPT ![t] = entry]
           \/ /\ entry = None /\ Goes(t, "look", "derive") /\ UNCHANGED answer
    /\ UNCHANGED <<births, owning, memos, holder, counts, on, made, lock, set, adopting, rel>>

Derive(t) ==
    /\ Goes(t, "derive", "reduced")
    /\ REDUCE_ENTRIES' = [REDUCE_ENTRIES EXCEPT ![at[on[t]]] = on[t]]
    /\ answer' = [answer EXCEPT ![t] = on[t]]
    /\ UNCHANGED <<births, owning, MODEL_CACHE, derived, ONCE, holder, counts, on, made, lock, set, adopting, rel>>

Reduced(t) ==
    /\ Ends(t, "reduced")
    /\ UNCHANGED <<births, owning, memos, holder, counts, set, adopting, rel>>

-----------------------------------------------------------------------------
Next ==
    \/ \E a \in Artefacts : Bind(a) \/ Claim(a) \/ Drop(a) \/ Release(a)
    \/ \E t \in Threads :
        \/ \E a \in Artefacts : Parse(t, a) \/ Reduce(t, a)
        \/ Hit(t) \/ Once(t) \/ Acquire(t) \/ Recheck(t) \/ Compile(t) \/ Store(t)
        \/ FindSet(t) \/ Update(t) \/ Return(t) \/ Look(t) \/ Derive(t) \/ Reduced(t)

Spec == Init /\ [][Next]_vars
-----------------------------------------------------------------------------
Steps == {"none", "expand", "iterate", "failed", "disown", "locks", "derived", "products", "reductions", "done"}
Locked == {"check", "compile", "store", "adopt", "update"}

(* Types; and a lock of once is held exactly by a thread between its       *)
(* acquire and its return.                                                 *)
TypeOK ==
    /\ life \in [Artefacts -> {"unborn", "binding", "live", "dying", "gone"}]
    /\ at \in [Artefacts -> Addresses \cup {None}]
    /\ fresh \in [Artefacts -> SUBSET Idents] /\ CLAIMED \subseteq Idents
    /\ ADOPTED \in [Owners -> Sets \cup {None}] /\ contents \in [Sets -> SUBSET Minted]
    /\ MODEL_CACHE \in [Artefacts -> Minted \cup {None}] /\ derived \subseteq Minted
    /\ ONCE \in [Artefacts -> Locks \cup {None}]
    /\ REDUCE_ENTRIES \in [Addresses -> Artefacts \cup {None}]
    /\ \A l \in Locks, t \in Threads : holder[l] = t <=> lock[t] = l /\ pc[t] \in Locked
    /\ \A a \in Artefacts : rel[a].step \in Steps

(* Whatever an artefact's parses put into the memos is gone once its       *)
(* finalizer has run to the end (and those of others that still had some   *)
(* of it to sweep) - its pair's product and lock, all that was keyed on    *)
(* what its compiles minted - and no longer-lived owner keeps a record of  *)
(* it (caches.py: memos "bounded by the artefact that owns them").         *)
Finished(a) == rel[a].step = "done"
PrivateReleased ==
    \A a \in Artefacts : Finished(a) /\ (\A b \in Artefacts : life[b] # "dying") =>
        /\ MODEL_CACHE[a] = None /\ ONCE[a] = None
        /\ \A m \in derived : m[1] # a
        /\ \A o \in Owners : ADOPTED[o] # None => \A m \in contents[ADOPTED[o]] : m[1] # a

(* A claim is some artefact's that still has to return it: none outlives a *)
(* finalizer that ran to its end, which would disarm the track of whatever *)
(* comes to live at the same address.                                      *)
NoStaleClaim ==
    \A i \in CLAIMED : \E a \in Artefacts :
        i \in fresh[a] /\ rel[a].step \in {"none", "expand", "iterate", "failed"}

(* release's docstring: a concurrent write is kept or re-derived, "never a *)
(* mutation-during-iteration error".                                       *)
SweepNeverRaises == \A a \in Artefacts : rel[a].step # "failed"

(* once's docstring: "two threads missing one artefact compile it once".   *)
CompiledOnce ==
    \A t, u \in Threads : t # u /\ pc[t] \in {"compile", "store"} /\ pc[u] \in {"compile", "store"}
        => on[t] # on[u]

(* ReduceEntry's docstring: "the entry is keyed by its identity and        *)
(* released by its finalizer"; so a reduction is made by what was derived  *)
(* from its own artefact, never from one that lived at its address before. *)
ReduceIsOwn == \A t \in Threads : pc[t] = "reduced" => answer[t] = on[t]
=============================================================================
