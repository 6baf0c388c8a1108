----------------------------- MODULE MCPoolLease -----------------------------
(***************************************************************************)
(* The instance of PoolLease TLC checks: two callers that may also reset   *)
(* the cache, two widths, one pool retained per width.                     *)
(***************************************************************************)
EXTENDS PoolLease

MCInit == Init /\ \E w \in Widths : \A c \in Callers : width[c] = w
MCSpec == MCInit /\ [][Next]_vars /\ Fairness
=============================================================================
