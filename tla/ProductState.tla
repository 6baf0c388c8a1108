---------------------------- MODULE ProductState ----------------------------
(***************************************************************************)
(* parsing/product/state.py: the builders and verdicts of one parse, and   *)
(* transactions over them.  A mark is five lengths; while one is open each *)
(* mutation is logged, and rollback undoes the log down to the mark.       *)
(* Commit of an inner mark leaves the log to the outer one.                *)
(*                                                                         *)
(* The caller holds handles of the builders that exist, and closes the     *)
(* newest mark: _require_top refuses any other and changes nothing.        *)
(***************************************************************************)
EXTENDS Integers, SequencesExt

CONSTANTS Values, Keys,
          MaxBuilders,  \* of each lane
          MaxLength,    \* of a builder
          MaxVerdicts,
          MaxMarks,     \* transactions open at once
          MaxLog        \* mutations logged

VARIABLES sequences,    \* lane slot -> its values
          mappings,     \* lane slot -> its policy, its entries, and key -> entry
          verdicts,
          log,          \* the mutations since the oldest mark: <<kind, slot>>
          overwritten,  \* what each keep-last replacement in the log wrote over
          marks

lanes == <<sequences, mappings>>
vars == <<sequences, mappings, verdicts, log, overwritten, marks>>

Policies == {"refuse", "first", "last"}

Init ==
    /\ sequences = <<>> /\ mappings = <<>> /\ verdicts = <<>>
    /\ log = <<>> /\ overwritten = <<>> /\ marks = <<>>

-----------------------------------------------------------------------------
Room == marks = <<>> \/ Len(log) < MaxLog
Logged(kind, slot) == IF marks # <<>> THEN Append(log, <<kind, slot>>) ELSE log

BeginSequence ==
    /\ Len(sequences) < MaxBuilders
    /\ sequences' = Append(sequences, <<>>)
    /\ UNCHANGED <<mappings, verdicts, log, overwritten, marks>>

AppendSequence(s, v) ==
    /\ Room /\ Len(sequences[s]) < MaxLength
    /\ sequences' = [sequences EXCEPT ![s] = Append(@, v)]
    /\ log' = Logged("append", s)
    /\ UNCHANGED <<mappings, verdicts, overwritten, marks>>

BeginMapping(policy) ==
    /\ Len(mappings) < MaxBuilders
    /\ mappings' = Append(mappings, [policy |-> policy, entries |-> <<>>, keys |-> <<>>])
    /\ UNCHANGED <<sequences, verdicts, log, overwritten, marks>>

(* insert_mapping: a key the mapping does not hold.                        *)
With(keys, key, at) == [k \in DOMAIN keys \cup {key} |-> IF k = key THEN at ELSE keys[k]]
InsertKey(m, key, v) ==
    /\ Room /\ key \notin DOMAIN mappings[m].keys /\ Len(mappings[m].entries) < MaxLength
    /\ mappings' = [mappings EXCEPT ![m].entries = Append(@, <<key, v>>),
                                    ![m].keys = With(@, key, Len(mappings[m].entries) + 1)]
    /\ log' = Logged("insert", m)
    /\ UNCHANGED <<sequences, verdicts, overwritten, marks>>

(* _resolve_duplicate: a key it holds, under each policy.  Keep-first      *)
(* changes nothing.                                                        *)
RefuseDuplicate(m, key) ==
    /\ mappings[m].policy = "refuse" /\ key \in DOMAIN mappings[m].keys
    /\ Len(verdicts) < MaxVerdicts
    /\ verdicts' = Append(verdicts, key)
    /\ UNCHANGED <<lanes, log, overwritten, marks>>

WrittenOver(m, key) ==
    LET at == mappings[m].keys[key]
    IN IF marks # <<>> THEN Append(overwritten, <<at, mappings[m].entries[at]>>) ELSE overwritten
ReplaceDuplicate(m, key, v) ==
    /\ Room /\ mappings[m].policy = "last" /\ key \in DOMAIN mappings[m].keys
    /\ overwritten' = WrittenOver(m, key)
    /\ mappings' = [mappings EXCEPT ![m].entries[mappings[m].keys[key]] = <<key, v>>]
    /\ log' = Logged("replace", m)
    /\ UNCHANGED <<sequences, verdicts, marks>>

Record(key) ==
    /\ Len(verdicts) < MaxVerdicts
    /\ verdicts' = Append(verdicts, key)
    /\ UNCHANGED <<lanes, log, overwritten, marks>>

-----------------------------------------------------------------------------
Mark ==
    /\ Len(marks) < MaxMarks
    /\ marks' = Append(marks, [mutations |-> Len(log), sequences |-> Len(sequences),
                               mappings |-> Len(mappings), verdicts |-> Len(verdicts),
                               depth |-> Len(marks)])
    /\ UNCHANGED <<lanes, verdicts, log, overwritten>>

(* _drop_log: outside a transaction nothing needs it.                      *)
(* Mutant: every commit drops the log.                                     *)
KeptAlways(outer, entries) == <<>>
Kept(outer, entries) == IF outer = <<>> THEN <<>> ELSE entries

Commit ==
    /\ marks # <<>>
    /\ marks' = Front(marks)
    /\ log' = Kept(marks', log) /\ overwritten' = Kept(marks', overwritten)
    /\ UNCHANGED <<lanes, verdicts>>

(* undo and restore of a mapping's builder: its newest entry goes, with   *)
(* its key; an entry is what it was.                                       *)
Unkeyed(keys, key) == [k \in DOMAIN keys \ {key} |-> keys[k]]
(* Mutant: the popped entry's key stays in the index.                      *)
PoppedKeyed(map) == [map EXCEPT !.entries = Front(@)]
Popped(map) ==
    [map EXCEPT !.entries = Front(@), !.keys = Unkeyed(@, Last(map.entries)[1])]
PutBack(map, old) == [map EXCEPT !.entries[old[1]] = old[2]]

(* _undo reverses one mutation of the log.                                 *)
Undone(was, kind, slot) ==
    CASE kind = "append"  -> [was EXCEPT !.sequences[slot] = Front(@)]
      [] kind = "insert"  -> [was EXCEPT !.mappings[slot] = Popped(@)]
      [] kind = "replace" -> [was EXCEPT !.mappings[slot] = PutBack(@, Last(was.overwritten)),
                                         !.overwritten = Front(@)]

(* What undoing the log down to a length leaves, newest mutation first.    *)
Working == [sequences |-> sequences, mappings |-> mappings, overwritten |-> overwritten]
UndoneTo(length) ==
    LET Back[n \in length..Len(log)] ==
            IF n = Len(log) THEN Working ELSE Undone(Back[n + 1], log[n + 1][1], log[n + 1][2])
    IN Back[length]
AtMark(mark) ==
    LET was == UndoneTo(mark.mutations)
    IN [was EXCEPT !.sequences = SubSeq(@, 1, mark.sequences),
                   !.mappings = SubSeq(@, 1, mark.mappings)]

Rollback ==
    /\ marks # <<>>
    /\ LET mark == Last(marks)
           was == AtMark(mark)
       IN /\ sequences' = was.sequences /\ mappings' = was.mappings
          /\ verdicts' = SubSeq(verdicts, 1, mark.verdicts)
          /\ marks' = Front(marks)
          /\ log' = Kept(marks', SubSeq(log, 1, mark.mutations))
          /\ overwritten' = Kept(marks', was.overwritten)

-----------------------------------------------------------------------------
Next ==
    \/ BeginSequence \/ \E p \in Policies : BeginMapping(p)
    \/ \E s \in DOMAIN sequences, v \in Values : AppendSequence(s, v)
    \/ \E m \in DOMAIN mappings, k \in Keys :
        \/ RefuseDuplicate(m, k)
        \/ \E v \in Values : InsertKey(m, k, v) \/ ReplaceDuplicate(m, k, v)
    \/ \E k \in Keys : Record(k)
    \/ Mark \/ Commit \/ Rollback

Spec == Init /\ [][Next]_vars

-----------------------------------------------------------------------------
(* Types; the index of a mapping names exactly the entries it has, and the *)
(* log holds as many replacements as there are entries to put back.        *)
TypeOK ==
    /\ sequences \in Seq(Seq(Values)) /\ verdicts \in Seq(Keys)
    /\ \A m \in DOMAIN mappings :
        /\ mappings[m].policy \in Policies
        /\ \A k \in DOMAIN mappings[m].keys :
            \E at \in DOMAIN mappings[m].entries : mappings[m].keys[k] = at /\ mappings[m].entries[at][1] = k
        /\ Len(mappings[m].entries) = Cardinality(DOMAIN mappings[m].keys)
    /\ Len(overwritten) = Len(SelectSeq(log, LAMBDA e : e[1] = "replace"))
    /\ marks = <<>> => log = <<>>

Entries(map) == [policy |-> map.policy, entries |-> map.entries]
Shown(s, m, v) == [seqs |-> s, maps |-> [i \in DOMAIN m |-> Entries(m[i])], verdicts |-> v]

Transactions == INSTANCE TransactionStack WITH
    now <- Shown(sequences, mappings, verdicts),
    saved <- [k \in DOMAIN marks |->
                LET was == AtMark(marks[k])
                IN Shown(was.sequences, was.mappings, SubSeq(verdicts, 1, marks[k].verdicts))]

(* Speculation is invisible once abandoned: however transactions nest, a   *)
(* rollback brings back exactly what its mark saw - a keep-last value older *)
(* than the mark included - and a commit inside another leaves the outer   *)
(* one able to do the same.                                                *)
RollsBackExactly == Transactions!Spec
=============================================================================
