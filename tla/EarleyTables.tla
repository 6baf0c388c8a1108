---------------------------- MODULE EarleyTables ----------------------------
(***************************************************************************)
(* parsing/earley/kernel/tables: what compile_tables freezes of a          *)
(* normalised grammar for the kernel's loop.                               *)
(*                                                                         *)
(* A grammar is a record of its start rule and its arms, each the rule it  *)
(* belongs to and the symbols of its body.  A symbol is a rule reference,  *)
(* a character class, a literal of several characters, a run - the         *)
(* maximal-munch terminal lexruns mints - or the set of tokens a token     *)
(* terminal admits; all but the reference are terminals.  Codes and term   *)
(* ids are the source's packing of (arm, dot) and of the atoms; here an    *)
(* arm is its index.                                                       *)
(***************************************************************************)
EXTENDS Integers, SequencesExt, FiniteSetsExt

Ref(rule) == [kind |-> "rule", name |-> rule]
Class(chars) == [kind |-> "class", chars |-> chars, wide |-> FALSE]
Wide(chars) == [kind |-> "class", chars |-> chars, wide |-> TRUE]
Literal(string) == [kind |-> "literal", string |-> string]
RunOf(chars, lo) == [kind |-> "run", chars |-> chars, lo |-> lo]
TokenOf(ids) == [kind |-> "token", ids |-> ids]

IsRule(sym) == sym.kind = "rule"

(* Value-equal arms of one rule are one arm: _compile_rule.                *)
Interned(arms) ==
    FoldLeft(LAMBDA kept, arm : IF arm \in ToSet(kept) THEN kept ELSE Append(kept, arm), <<>>, arms)

Rules(arms) == {arms[a].rule : a \in DOMAIN arms}

-----------------------------------------------------------------------------
(* nullable_rules: the least set of rules with an arm whose every symbol   *)
(* refers to a rule of the set.                                            *)
ArmNullable(arm, rules) ==
    \A k \in DOMAIN arm.body : IsRule(arm.body[k]) /\ arm.body[k].name \in rules

(* A round of the loop adds what the last one makes nullable; as many      *)
(* rounds as there are arms are enough.                                    *)
WithNullable(arms, found) ==
    found \cup {arms[a].rule : a \in {b \in DOMAIN arms : ArmNullable(arms[b], found)}}
NullableRules(arms) ==
    LET Found[n \in 0..Len(arms)] == IF n = 0 THEN {} ELSE WithNullable(arms, Found[n - 1])
    IN Found[Len(arms)]

-----------------------------------------------------------------------------
(* A FIRST set is a set of characters; AnyChar in it poisons it.  FIRST of *)
(* a grammar is a relation between its rules and characters.               *)
AnyChar == "any character"

TermFirst(sym) ==
    CASE sym.kind = "literal" -> {Head(sym.string)}
      [] sym.kind = "run"     -> sym.chars
      [] sym.kind = "class"   -> IF sym.wide THEN {AnyChar} ELSE sym.chars
      [] sym.kind = "token"   -> {AnyChar}

(* _arm_first: the symbols up to the first that cannot vanish.             *)
ArmFirst(arm, nullable, first) ==
    LET Vanishes(k) == IsRule(arm.body[k]) /\ arm.body[k].name \in nullable
        read == {k \in DOMAIN arm.body : \A m \in 1..(k - 1) : Vanishes(m)}
    IN UNION {IF IsRule(arm.body[k])
              THEN {f[2] : f \in {g \in first : g[1] = arm.body[k].name}}
              ELSE TermFirst(arm.body[k]) : k \in read}

(* _first_sets, by least fixpoint: a character passes from rule to rule,   *)
(* so as many rounds as there are arms are enough.                         *)
FirstSets(arms, nullable) ==
    FoldLeft(LAMBDA first, k :
                first \cup UNION {{arms[a].rule} \X ArmFirst(arms[a], nullable, first) : a \in DOMAIN arms},
             {}, arms)

(* _gate_of: an arm that may be empty is always seeded, and so is one      *)
(* whose FIRST is poisoned; any other only where its FIRST begins the rest.*)
Gate(arm, nullable, first) ==
    IF ArmNullable(arm, nullable) THEN {AnyChar} ELSE ArmFirst(arm, nullable, first)

Gates(arms, nullable, first) == [a \in DOMAIN arms |-> Gate(arms[a], nullable, first)]
EmptyArms(arms, nullable) ==
    [r \in Rules(arms) |-> {a \in DOMAIN arms : arms[a].rule = r /\ ArmNullable(arms[a], nullable)}]

(* compile_tables.                                                         *)
Compiled(normal) ==
    LET arms == Interned(normal.arms)
        nullable == NullableRules(arms)
        first == FirstSets(arms, nullable)
    IN [start |-> normal.start,
        arms |-> arms,
        gates |-> Gates(arms, nullable, first),
        empties |-> EmptyArms(arms, nullable)]

(* Tables that are compiled so, where both loops ended since a further     *)
(* round would have added nothing.                                         *)
Solved(t) ==
    LET nullable == NullableRules(t.arms)
        first == FirstSets(t.arms, nullable)
    IN /\ t.gates = Gates(t.arms, nullable, first) /\ t.empties = EmptyArms(t.arms, nullable)
       /\ \A a \in DOMAIN t.arms : ArmNullable(t.arms[a], nullable) => t.arms[a].rule \in nullable
       /\ \A a \in DOMAIN t.arms : {t.arms[a].rule} \X ArmFirst(t.arms[a], nullable, first) \subseteq first
=============================================================================
