----------------------------- MODULE MCReplicas -----------------------------
(***************************************************************************)
(* The instance of Replicas TLC checks.  Document threads, workers and     *)
(* copies are each interchangeable.                                        *)
(***************************************************************************)
EXTENDS Replicas

Symmetry ==
    Permutations(Documents) \cup Permutations(Workers) \cup Permutations(Copies)
=============================================================================
