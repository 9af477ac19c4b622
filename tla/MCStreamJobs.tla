---------------------------- MODULE MCStreamJobs ----------------------------
(* StreamJobs on small instances. *)
EXTENDS StreamJobs, TLC

\* The run slots are alike, and so are the requests.
Symmetry == Permutations(Runs) \cup Permutations(Requests)
=============================================================================
