---------------------------- MODULE AuditQueries ----------------------------
(***************************************************************************)
(* The queries of AuditLog: they run on the shared connection, so they see *)
(* its table and not just what is committed.                               *)
(*                                                                         *)
(* get_by_date_range compares text.  The record's JSON holds the event's   *)
(* timestamp as pydantic writes it, with "Z" for UTC; the bounds are what  *)
(* isoformat returns, with "+00:00".  Both leave out a zero fraction.      *)
(***************************************************************************)
EXTENDS AuditLog, Sequences, SequencesExt

CONSTANTS TimeOf(_),      \* the timestamp of a record's event
          Bounds          \* the times ranges are asked for

LastMicrosecond == 999999

\* A wall clock time to the second, microseconds, and hours east of UTC if the
\* timestamp has a zone
Time == [second : Nat, fraction : 0..LastMicrosecond, offset : {{}} \union {{h} : h \in -12..14}]

ASSUME TimesAssumption == \A t \in Bounds \union {TimeOf(r) : r \in Records} : t \in Time

(***************************************************************************)
(* Timestamps as text.  The text up to the seconds, six digits of fraction *)
(* and the hours of a zone have a fixed width and are one number each; the *)
(* marks in between are in the order of their ASCII codes.                 *)
(***************************************************************************)
Plus  == 0
Minus == 1
Dot   == 2
Zulu  == 3

Fraction(time) == IF time.fraction = 0 THEN <<>> ELSE <<Dot, time.fraction>>

Sign(h) == IF h >= 0 THEN <<Plus, h>> ELSE <<Minus, -h>>

IsoText(time) ==
    <<time.second>> \o Fraction(time)
    \o IF time.offset = {} THEN <<>> ELSE Sign(CHOOSE h \in time.offset : TRUE)

StoredText(time) ==
    IF time.offset = {0} THEN <<time.second>> \o Fraction(time) \o <<Zulu>>
                         ELSE IsoText(time)

TextAtMost(a, b) ==
    LET n == Len(LongestCommonPrefix({a, b}))
    IN  n = Len(a) \/ (n < Len(b) /\ a[n + 1] < b[n + 1])

(***************************************************************************)
(* The queries                                                             *)
(***************************************************************************)
GetById(id) == {p \in table : RowId(p.record) = id}

\* Mutant of GetByDateRange: the bounds are spelled as pydantic does
GetByDateRangeOfZulu(start, end) ==
    {p \in table : LET text == StoredText(TimeOf(p.record))
                   IN  /\ TextAtMost(StoredText(start), text)
                       /\ TextAtMost(text, StoredText(end))}

GetByDateRange(start, end) ==
    {p \in table : LET text == StoredText(TimeOf(p.record))
                   IN  /\ TextAtMost(IsoText(start), text)
                       /\ TextAtMost(text, IsoText(end))}

(***************************************************************************)
(* Properties                                                              *)
(***************************************************************************)
Utc(time) == time.offset = {0}

\* For two times of UTC
NotAfter(s, t) ==
    s.second < t.second \/ (s.second = t.second /\ s.fraction <= t.fraction)

WholeSeconds == {t \in Bounds : Utc(t) /\ t.fraction = 0}

(***************************************************************************)
(* Whatever the marks the two spellings put after the seconds: between     *)
(* whole seconds of UTC, a range has every event from its start to before  *)
(* its end, fractions of a second included, and no event outside of        *)
(* [start, end].  Of an event exactly at its end this says nothing.        *)
(***************************************************************************)
UtcRows == {p \in table : Utc(TimeOf(p.record))}

RangesHoldTheirEvents ==
    \A start, end \in WholeSeconds : \A p \in UtcRows :
        /\ NotAfter(start, TimeOf(p.record)) /\ ~NotAfter(end, TimeOf(p.record))
             => p \in GetByDateRange(start, end)
        /\ p \in GetByDateRange(start, end)
             => NotAfter(start, TimeOf(p.record)) /\ NotAfter(TimeOf(p.record), end)

(***************************************************************************)
(* GET /audit/{id} under the id of a POST that was answered and met no     *)
(* other: as the answer goes out it finds the very record of that POST,    *)
(* and from then on that record gives way, if at all, to one that was not  *)
(* answered before.  No restart, and no statement that another thread left *)
(* bound, brings an older record of the same id back.                      *)
(***************************************************************************)
Finds(a) == \E p \in table : p.record = a.record /\ GetById(RowId(a.record)) = {p}

GetIsUpToDate ==
    [][/\ \A a \in acked' \ acked : a.alone => Finds(a)'
       /\ \A a \in acked : a.alone /\ Finds(a) /\ ~Finds(a)' =>
             \E p \in GetById(RowId(a.record))' : \A b \in acked : b.record # p.record]_vars

(***************************************************************************)
(* audit_log.py, get_by_date_range: the records "whose event timestamp     *)
(* falls within [start, end]".                                             *)
(***************************************************************************)
RangeIncludesItsEnds ==
    \A start, end \in WholeSeconds : \A p \in table :
        LET t == TimeOf(p.record)
        IN  Utc(t) /\ NotAfter(start, t) /\ NotAfter(t, end)
              => p \in GetByDateRange(start, end)
=============================================================================
