---------------------------- MODULE MCSrtWorker ----------------------------
(* SrtWorker with three callers: k1 and k2 of client c1, k3 of client c2. *)
EXTENDS SrtWorker, TLC

CONSTANTS k1, k2, k3, c1, c2

MCKeys == {k1, k2, k3}
MCClientOf == (k1 :> c1) @@ (k2 :> c1) @@ (k3 :> c2)
\* k1 and k2 meet the limit of c1; with MaxClients = 2 the relay's limit binds
\* for c1 and c2 together.
MCMaxSessions == (c1 :> 1) @@ (c2 :> 2)
MCOneSession == (c1 :> 1) @@ (c2 :> 1)

MCTwoKeys == {k1, k2}
MCTwoClientOf == (k1 :> c1) @@ (k2 :> c1)

\* Session objects are alike, and so are the two callers of c1.
Symmetry == Permutations(Slots) \cup Permutations({k1, k2})
=============================================================================
