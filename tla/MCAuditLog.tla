----------------------------- MODULE MCAuditLog -----------------------------
(***************************************************************************)
(* Bounded instances of AuditLog and AuditQueries.  A record is the run it *)
(* came from, its case and the instant its pipeline stamped it with; two   *)
(* records with the same case and instant have the same row id.            *)
(***************************************************************************)
EXTENDS AuditQueries

Record(run, case, at) == [run |-> run, case |-> case, at |-> at]

\* Three runs of two cases, two of them with one row id
MCRecords == {Record(1, "c1", 0), Record(2, "c1", 0), Record(3, "c2", 1)}

MCRowId(record) == <<record.case, record.at>>
MCStampedAt(record) == record.at

TimeAt(second, fraction, offset) ==
    [second |-> second, fraction |-> fraction, offset |-> offset]

\* Their events: on the second, after it, and on the next
MCTimeOf(record) ==
    CASE record.run = 1 -> TimeAt(1, 0, {0})
      [] record.run = 2 -> TimeAt(1, 500000, {0})
      [] record.run = 3 -> TimeAt(2, 0, {0})

MCBounds == {TimeAt(second, 0, {0}) : second \in 0..3}
=============================================================================
