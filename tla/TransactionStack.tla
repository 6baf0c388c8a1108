-------------------------- MODULE TransactionStack --------------------------
(***************************************************************************)
(* What parsing/product/state.py promises of speculation: a parse's        *)
(* builders and verdicts are one value, opening a transaction remembers    *)
(* it, and abandoning one brings it back.  There is no log here and no     *)
(* index of keys.                                                          *)
(*                                                                         *)
(* The value: seqs, the ordered accumulators; maps, each its duplicate     *)
(* policy and its entries in insertion order; verdicts.                    *)
(***************************************************************************)
EXTENDS Naturals, Sequences

CONSTANTS Values, Keys

VARIABLES now,      \* what the parse has built
          saved     \* what it had built when each open transaction began

Policies == {"refuse", "first", "last"}
Empty == [seqs |-> <<>>, maps |-> <<>>, verdicts |-> <<>>]

Init == now = Empty /\ saved = <<>>

HeldAt(map, key) == {i \in DOMAIN map.entries : map.entries[i][1] = key}

(* What a mapping becomes when a key arrives.                              *)
Inserted(map, key, value) ==
    IF HeldAt(map, key) = {} THEN [map EXCEPT !.entries = Append(@, <<key, value>>)]
    ELSE IF map.policy # "last" THEN map
    ELSE [map EXCEPT !.entries =
            [i \in DOMAIN @ |-> IF @[i][1] = key THEN <<key, value>> ELSE @[i]]]
Refused(map, key) == HeldAt(map, key) # {} /\ map.policy = "refuse"

Build ==
    /\ UNCHANGED saved
    /\ \/ now' = [now EXCEPT !.seqs = Append(@, <<>>)]
       \/ \E p \in Policies : now' = [now EXCEPT !.maps = Append(@, [policy |-> p, entries |-> <<>>])]
       \/ \E s \in DOMAIN now.seqs, v \in Values : now' = [now EXCEPT !.seqs[s] = Append(@, v)]
       \/ \E m \in DOMAIN now.maps, k \in Keys, v \in Values :
            now' = [now EXCEPT !.maps[m] = Inserted(@, k, v),
                               !.verdicts = IF Refused(now.maps[m], k) THEN Append(@, k) ELSE @]
       \/ \E k \in Keys : now' = [now EXCEPT !.verdicts = Append(@, k)]

Open == saved' = Append(saved, now) /\ UNCHANGED now
Newest == saved[Len(saved)]
Close == saved # <<>> /\ saved' = SubSeq(saved, 1, Len(saved) - 1)
Keep == Close /\ UNCHANGED now
Abandon == Close /\ now' = Newest

Next == Build \/ Open \/ Keep \/ Abandon
Spec == Init /\ [][Next]_<<now, saved>>
=============================================================================
