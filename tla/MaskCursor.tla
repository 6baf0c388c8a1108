----------------------------- MODULE MaskCursor -----------------------------
(***************************************************************************)
(* parsing/earley/tokenscan.py: the mask of a generation.  A cursor holds  *)
(* one live chart over the tokens generated so far.  Its ids are public:   *)
(* the caller assigns them as it likes, and each read first brings the     *)
(* chart in line - back to the longest prefix it shares with what is       *)
(* committed, then on.                                                     *)
(*                                                                         *)
(* CharTrieCursor finds the mask by walking the trie of all spellings on   *)
(* the chart itself, cutting back after each branch; TokenTermCursor reads *)
(* it off the frontier, and records where each token begins.  A node of    *)
(* the trie is the text that leads to it.                                  *)
(*                                                                         *)
(* The calls of the kernel are those of EarleyKernel; between two of them  *)
(* the chart is idle.  A chart serves one of three: the parse of a whole   *)
(* text, a client that grows it and cuts it back as it likes, or a cursor. *)
(***************************************************************************)
EXTENDS EarleyKernel

CONSTANTS Spellings,    \* token id -> its spelling
          MaxIds        \* ids the caller assigns at most

Tokens == DOMAIN Spellings
LongestSpelling == Max({Len(Spellings[t]) : t \in Tokens})
ASSUME SpellingsAssumption ==
    MaxIds \in Nat /\ \A t \in Tokens : IsList(Spellings[t]) /\ Spellings[t] # <<>>

VARIABLES ids,          \* the tokens generated so far
          committed,    \* those the chart holds: <<token, the column it ends at>>
          call,         \* the read under way: "none", "accepts" or "mask"
          frames,       \* the walk: node, edges not yet taken, mark to cut back to
          entering,     \* the node just extended into, or NoNode
          admitted,     \* the mask so far
          user          \* whom the chart serves: "parse", "client" or "cursor"

walk == <<frames, entering, admitted>>
cursor == <<ids, committed, call, walk>>

NoNode == [node |-> <<>>, mark |-> -1]

Begin == ids = <<>> /\ committed = <<>> /\ call = "none"
         /\ frames = <<>> /\ entering = NoNode /\ admitted = {}

-----------------------------------------------------------------------------
Spelled(tokens) == FlattenSeq([k \in DOMAIN tokens |-> Spellings[tokens[k]]])
Held(ends) == [k \in DOMAIN ends |-> ends[k][1]]
Fits(tokens) == Len(tokens) <= MaxIds /\ Len(Spelled(tokens)) + LongestSpelling <= MaxText
Generations == {tokens \in UNION {[1..n -> Tokens] : n \in 0..MaxIds} : Fits(tokens)}

(* A grammar with a token terminal has a TokenTermCursor: of.              *)
TokenArms == {x \in DOMAIN tables.arms :
                \E k \in DOMAIN Body(x) : Body(x)[k].kind = "token"}
ByTokens == TokenArms # {}

(* The caller assigns ids, or pushes one more.                             *)
Assign ==
    /\ idle /\ call = "none"
    /\ ids' \in Generations /\ ids' # ids
    /\ UNCHANGED <<vars, committed, call, walk>>

Ask(what) ==
    /\ idle /\ call = "none"
    /\ call' = what
    /\ UNCHANGED <<vars, ids, committed, walk>>

(* _sync: what is committed beyond the common prefix is cut off ...        *)
Kept == Len(LongestCommonPrefix({Held(committed), ids}))
CutAt(kept) == IF kept = 0 THEN 0 ELSE committed[kept][2]

(* _purge: the tokens that began in the tail.                              *)
(* Mutant: a token that begins at the cut is kept.                         *)
PurgedPast(cut) == [i \in {c \in DOMAIN bounds : c <= cut} |-> bounds[i]]
Purged(cut) == [i \in {c \in DOMAIN bounds : c < cut} |-> bounds[i]]

SyncBack ==
    /\ idle /\ call # "none" /\ Kept < Len(committed)
    /\ Rollback(CutAt(Kept))
    /\ bounds' = Purged(CutAt(Kept))
    /\ committed' = SubSeq(committed, 1, Kept)
    /\ UNCHANGED <<ids, call, walk>>

(* ... and the missing tokens are appended, each recorded at the end of    *)
(* the chart (_extend_token, _record).                                     *)
SyncOn ==
    /\ idle /\ call # "none" /\ IsStrictPrefix(Held(committed), ids)
    /\ LET next == ids[Len(committed) + 1]  n == Len(Spellings[next]) IN
       /\ Extend(Spellings[next])
       /\ bounds' = IF ByTokens THEN Put(bounds, Len(text), [id |-> next, length |-> n]) ELSE bounds
       /\ committed' = Append(committed, <<next, Len(text) + n>>)
    /\ UNCHANGED <<ids, call, walk>>

Synced == idle /\ call # "none" /\ Held(committed) = ids

Accepts ==
    /\ Synced /\ call = "accepts"
    /\ call' = "none"
    /\ UNCHANGED <<vars, ids, committed, walk>>

-----------------------------------------------------------------------------
(* TokenTermCursor.mask: the tokens of the terminals waited for.           *)
Frontier == {it \in ToSet(cols[Len(text)]) : FacesTerm(it) /\ Facing(it).kind = "token"}
MaskByTokens ==
    /\ Synced /\ call = "mask" /\ ByTokens
    /\ admitted' = UNION {Facing(it).ids \cap Tokens : it \in Frontier}
    /\ call' = "none"
    /\ UNCHANGED <<vars, ids, committed, frames, entering>>

(* spelling_trie: the characters that lead on from a node.                 *)
Edges(node) == {Spellings[t][Len(node) + 1] : t \in {s \in Tokens : IsStrictPrefix(node, Spellings[s])}}
EndingAt(node) == {t \in Tokens : Spellings[t] = node}
Frame(node, mark) == [node |-> node, left |-> Edges(node), mark |-> mark]

StartWalk ==
    /\ Synced /\ call = "mask" /\ ~ByTokens /\ frames = <<>>
    /\ frames' = <<Frame(<<>>, Len(text))>> /\ admitted' = {}
    /\ UNCHANGED <<vars, ids, committed, call, entering>>

Walking == idle /\ frames # <<>> /\ entering = NoNode
Top == Last(frames)

Descend(char) ==
    /\ Walking /\ char \in Top.left
    /\ Extend(<<char>>) /\ UNCHANGED bounds
    /\ entering' = [node |-> Append(Top.node, char), mark |-> Len(text)]
    /\ frames' = [frames EXCEPT ![Len(frames)].left = @ \ {char}]
    /\ UNCHANGED <<ids, committed, call, admitted>>

(* A column nothing reached is dead for every spelling beyond; else the    *)
(* tokens that end here are admitted if the chart is viable, and the walk  *)
(* goes on below when there is more.                                       *)
Dead == cols[Len(text)] = <<>>
(* Mutant: a node on the way to others is not judged itself.               *)
AdmittedAtLeaf(node) == IF Edges(node) = {} /\ FrontierViable THEN EndingAt(node) ELSE {}
Admitted(node) == IF FrontierViable THEN EndingAt(node) ELSE {}

Deeper ==
    /\ idle /\ entering # NoNode /\ ~Dead /\ Edges(entering.node) # {}
    /\ admitted' = admitted \cup Admitted(entering.node)
    /\ frames' = Append(frames, Frame(entering.node, entering.mark))
    /\ entering' = NoNode
    /\ UNCHANGED <<vars, ids, committed, call>>

Leave ==
    /\ idle /\ entering # NoNode /\ (Dead \/ Edges(entering.node) = {})
    /\ admitted' = admitted \cup IF Dead THEN {} ELSE Admitted(entering.node)
    /\ Rollback(entering.mark) /\ UNCHANGED bounds
    /\ entering' = NoNode
    /\ UNCHANGED <<ids, committed, call, frames>>

(* A node with no edge left is cut back to the mark taken above it.        *)
Ascend ==
    /\ Walking /\ Top.left = {} /\ Len(frames) > 1
    /\ Rollback(Top.mark) /\ UNCHANGED bounds
    /\ frames' = Front(frames)
    /\ UNCHANGED <<ids, committed, call, entering, admitted>>

EndWalk ==
    /\ Walking /\ Top.left = {} /\ Len(frames) = 1
    /\ frames' = <<>> /\ call' = "none"
    /\ UNCHANGED <<vars, ids, committed, entering, admitted>>

-----------------------------------------------------------------------------
Kernel == (Close \/ Scan \/ Return) /\ UNCHANGED cursor

CursorNext ==
    \/ Kernel \/ Assign \/ \E what \in {"accepts", "mask"} : Ask(what)
    \/ SyncBack \/ SyncOn \/ Accepts \/ MaskByTokens
    \/ StartWalk \/ \E t \in Tokens, k \in 1..LongestSpelling :
                        k \in DOMAIN Spellings[t] /\ Descend(Spellings[t][k])
    \/ Deeper \/ Leave \/ Ascend \/ EndWalk

-----------------------------------------------------------------------------
Start ==
    /\ Init /\ Begin
    /\ user \in CASE recordLinks -> {"parse"}
                 [] ~recordLinks /\ ByTokens -> {"cursor"}
                 [] OTHER -> {"client", "cursor"}
Step ==
    /\ UNCHANGED user
    /\ \/ user \in {"parse", "client"} /\ Next /\ UNCHANGED cursor
       \/ Finished /\ UNCHANGED <<vars, cursor>>
       \/ user = "cursor" /\ CursorNext

ChartSpec == Start /\ [][Step]_<<vars, cursor, user>>

-----------------------------------------------------------------------------
(* Between calls, and whenever no branch is being explored, the chart is   *)
(* over exactly the committed tokens, each recorded where it ends and - by *)
(* a cursor of token terminals - where it begins, stale ones gone.         *)
CommittedInStep ==
    frames = <<>> =>
        /\ text = Spelled(Held(committed))
        /\ \A k \in DOMAIN committed : committed[k][2] = Len(Spelled(SubSeq(Held(committed), 1, k)))
        /\ DOMAIN bounds = IF ByTokens THEN {CutAt(k - 1) : k \in DOMAIN committed} ELSE {}

(* So it is for a cursor's chart; a client's has no tokens to be in step   *)
(* with.                                                                   *)
CursorInStep == user = "cursor" => CommittedInStep
=============================================================================
