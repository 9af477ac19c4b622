---------------------------- MODULE MCRelayStore ----------------------------
(* RelayStore with two relays, one client and the bodies that matter to them. *)
EXTENDS RelayStore, TLC

CONSTANTS c1

Body == [direction |-> "listener", endpoint |-> 1, encryption |-> "", compat |-> FALSE,
         default |-> NoClient, timeout |-> 0, input |-> "valid", version |-> 0, enabled |-> TRUE]

\* A strict listener, one on another endpoint and in compatibility mode, an encrypted
\* publisher; bodies that normalizeRelay refuses.
MCRelayRequests ==
    {Body,
     [Body EXCEPT !.endpoint = 2, !.compat = TRUE, !.default = c1],
     [Body EXCEPT !.direction = "publish"],
     [Body EXCEPT !.input = "invalid"],
     [Body EXCEPT !.timeout = 2]}

Client(rs) == [relays |-> rs, encryption |-> "", open |-> FALSE, cidrs |-> "valid",
               limit |-> 0, enabled |-> TRUE, version |-> 0]

\* An encrypted client, one that is disabled, one without encryption; bodies that
\* normalizeClientLocked refuses.
MCClientRequests ==
    UNION {{Client({r}),
            [Client({r}) EXCEPT !.enabled = FALSE],
            [Client({r}) EXCEPT !.encryption = "none"],
            [Client({r}) EXCEPT !.encryption = "none", !.open = TRUE],
            [Client({r}) EXCEPT !.limit = -1]} : r \in RelayIds}
    \cup {Client({})}

Symmetry == Permutations(RelayIds)
=============================================================================
