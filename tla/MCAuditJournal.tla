--------------------------- MODULE MCAuditJournal ---------------------------
(* AuditJournal with three kinds of event and the filters that tell them apart. *)
EXTENDS AuditJournal

CONSTANTS r1, r2, c1

Tag(r, c, t) == [relay |-> r, client |-> c, type |-> t]

MCTags == {Tag(r1, c1, "connected"), Tag(r2, c1, "connected")}
MCFilters == {Tag(AnyValue, AnyValue, AnyValue), Tag(r1, AnyValue, AnyValue), Tag(r2, AnyValue, "audit_cleared")}
=============================================================================
