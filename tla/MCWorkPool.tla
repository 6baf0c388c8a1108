----------------------------- MODULE MCWorkPool -----------------------------
(* TLC model of WorkPool: at most one item hits a bug and one waits for the *)
(* caller, any number refuse.                                               *)
EXTENDS WorkPool

MCInit ==
    /\ Init
    /\ \A v \in {"bug", "blocks"} : Cardinality({s \in Slot : verdict[s] = v}) <= 1
MCSpec == MCInit /\ [][Next]_vars /\ Fairness
=============================================================================
