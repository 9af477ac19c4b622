--------------------------- MODULE MCStreamStore ----------------------------
(* StreamStore with one stream, two profiles, two users. *)
EXTENDS StreamStore, TLC

CONSTANTS p1

NotGiven == [given |-> FALSE, enabled |-> FALSE, value |-> 0]
Given(e, v) == [given |-> TRUE, enabled |-> e, value |-> v]

Body == [profile |-> "", retention |-> 0, valid |-> TRUE, restart |-> NotGiven, watchdog |-> NotGiven]

\* All defaults; a profile of one's own with a policy that is off and would not
\* be accepted on; bodies that normalizeConfig refuses.
MCStreamRequests ==
    {Body,
     [Body EXCEPT !.profile = p1, !.restart = Given(FALSE, -1), !.watchdog = Given(TRUE, 0)],
     [Body EXCEPT !.watchdog = Given(TRUE, -1)],
     [Body EXCEPT !.retention = -1],
     [Body EXCEPT !.valid = FALSE]}

\* A template without output format, codecs, and neither.
MCProfileRequests ==
    {[template |-> TRUE, codecs |-> FALSE, format |-> ""],
     [template |-> FALSE, codecs |-> TRUE, format |-> ""],
     [template |-> FALSE, codecs |-> FALSE, format |-> ""]}

Symmetry == Permutations(Secrets)
=============================================================================
