---------------------------- MODULE DurableStore ----------------------------
(***************************************************************************)
(* What the JSON stores of the daemon promise (internal/streams/store.go   *)
(* and internal/srtrelay/store.go): a configuration in memory, a file that *)
(* holds a configuration some save has written as a whole, and an answer   *)
(* "saved" that is given only for what is in the file.  A save that fails  *)
(* is answered with an error and leaves memory ahead of the file.          *)
(***************************************************************************)

VARIABLES
    mem,    \* the configuration the process works with
    disk,   \* what a restart would read
    phase   \* "down", "idle", "changed" (locked, not saved) or "saved" (not answered)

vars == <<mem, disk, phase>>

Init == phase = "down"

\* A process starts with what the file holds.
Recover ==
    /\ phase = "down" /\ phase' = "idle"
    /\ mem' = disk
    /\ UNCHANGED disk

\* A call changes the configuration in memory, in any way.
Change ==
    /\ phase = "idle" /\ phase' = "changed"
    /\ UNCHANGED disk

\* The file is replaced by what memory holds, in one step.
Commit ==
    /\ phase = "changed" /\ phase' = "saved"
    /\ disk' = mem
    /\ UNCHANGED mem

\* The call is answered with an error: memory keeps the change.
Reject ==
    /\ phase = "changed" /\ phase' = "idle"
    /\ UNCHANGED <<mem, disk>>

\* The call is answered with success.
Confirm ==
    /\ phase = "saved" /\ phase' = "idle"
    /\ UNCHANGED <<mem, disk>>

\* The process ends at any moment; the file stays.
Crash ==
    /\ phase # "down" /\ phase' = "down"
    /\ UNCHANGED disk

Next == Recover \/ Change \/ Commit \/ Reject \/ Confirm \/ Crash

Spec == Init /\ [][Next]_vars

=============================================================================
