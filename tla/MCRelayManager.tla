-------------------------- MODULE MCRelayManager --------------------------
(* RelayManager with interchangeable runs and requests. *)
EXTENDS RelayManager, TLC

Symmetry == Permutations(Runs) \cup Permutations(Requests)
=============================================================================
