------------------------------ MODULE AuditLog ------------------------------
(***************************************************************************)
(* src/recoveryloop/audit/audit_log.py as the API uses it: one AuditLog,   *)
(* with one sqlite3 connection opened check_same_thread=False, called by   *)
(* every thread of the server's pool.                                      *)
(*                                                                         *)
(* AuditLog.write is two library calls, conn.execute(INSERT OR REPLACE)    *)
(* and conn.commit().  The library (external: CPython's sqlite3 in its     *)
(* default transaction mode) gives up the interpreter lock around each     *)
(* call into SQLite, so the calls of two threads interleave there:         *)
(*   execute  tests autocommit; if on, runs BEGIN; binds the parameters to *)
(*            the cached prepared statement, which all threads share for   *)
(*            they pass the same SQL text; steps the statement             *)
(*   commit   tests autocommit; if off, runs COMMIT                        *)
(* SQLite itself serialises the calls on its connection mutex.             *)
(***************************************************************************)
EXTENDS Integers

CONSTANTS Writers,        \* threads that call write
          Records,        \* the AuditRecords they may write
          RowId(_),       \* case_id + ":" + timestamp.isoformat()
          StampedAt(_),   \* the record's timestamp, read from the same clock
          MaxClock        \* bound on the wall clock, for TLC

VARIABLES
    now,                  \* the wall clock
    pc,                   \* where each thread is in write
    row,                  \* the row each open call wants to insert
    txn,                  \* the connection is in a transaction
    bound,                \* the row bound to the cached statement, if any
    table,                \* the rows as this connection sees them
    disk,                 \* the committed rows
    nextSeq,              \* position of the next inserted row
    contended, submitted, acked   \* history, as in AuditStore

vars == <<now, pc, row, txn, bound, table, disk, nextSeq,
          contended, submitted, acked>>

Stages == {"idle", "execute", "begin", "bind", "step", "commit", "end", "done"}
Rows   == [record : Records, created_at : Nat]
Placed == [record : Records, created_at : Nat, seq : Nat]

Open == {w \in Writers : pc[w] # "idle"}

\* The variables hold what write, sqlite3 and the clock can put there; a thread
\* has a row in hand exactly while it is inside write
TypeOK ==
    /\ now \in Nat
    /\ pc \in [Writers -> Stages]
    /\ row \in [Writers -> SUBSET Rows]
    /\ \A w \in Writers : pc[w] = "idle" <=> row[w] = {}
    /\ \A w \in Writers : \A r, s \in row[w] : r = s
    /\ txn \in BOOLEAN
    /\ bound \subseteq Rows
    /\ table \subseteq Placed
    /\ disk \subseteq Placed
    /\ nextSeq \in Nat
    /\ contended \subseteq Open
    /\ submitted \subseteq Records
    /\ acked \subseteq [record : Records, alone : BOOLEAN]

\* __init__: the table exists and nothing is pending
Init ==
    /\ now = 0
    /\ pc = [w \in Writers |-> "idle"]
    /\ row = [w \in Writers |-> {}]
    /\ txn = FALSE
    /\ bound = {}
    /\ table = {}
    /\ disk = {}
    /\ nextSeq = 0
    /\ contended = {}
    /\ submitted = {}
    /\ acked = {}

Goto(w, stage) == pc' = [pc EXCEPT ![w] = stage]

\* Mutant of Close: the call ends and its row is not let go of
CloseKeepingRow(w) ==
    /\ Goto(w, "idle")
    /\ row' = row
    /\ contended' = contended \ {w}

Close(w) ==
    /\ Goto(w, "idle")
    /\ row' = [row EXCEPT ![w] = {}]
    /\ contended' = contended \ {w}

\* write returns the row id
Return(w) ==
    /\ Close(w)
    /\ acked' = acked \union {[record |-> r.record, alone |-> w \notin contended] :
                                r \in row[w]}

\* The library raised; write has no handler and no rollback
Raise(w) == Close(w) /\ UNCHANGED acked

\* Mutant of Start: created_at is the record's own timestamp
StartWithOwnStamp(w, record) ==
    /\ pc[w] = "idle"
    /\ record \notin submitted
    /\ StampedAt(record) <= now
    /\ row' = [row EXCEPT ![w] = {[record     |-> record,
                                  created_at |-> StampedAt(record)]}]
    /\ submitted' = submitted \union {record}
    /\ contended' = IF Open = {} THEN contended ELSE Open \union {w}
    /\ Goto(w, "execute")
    /\ UNCHANGED <<now, txn, bound, table, disk, nextSeq, acked>>

\* write is called, builds the id and reads the clock for created_at
Start(w, record) ==
    /\ pc[w] = "idle"
    /\ record \notin submitted
    /\ StampedAt(record) <= now
    /\ row' = [row EXCEPT ![w] = {[record |-> record, created_at |-> now]}]
    /\ submitted' = submitted \union {record}
    /\ contended' = IF Open = {} THEN contended ELSE Open \union {w}
    /\ Goto(w, "execute")
    /\ UNCHANGED <<now, txn, bound, table, disk, nextSeq, acked>>

\* execute: with autocommit off the parameters are bound at once
Execute(w) ==
    /\ pc[w] = "execute"
    /\ IF txn THEN bound' = row[w] /\ Goto(w, "step")
              ELSE bound' = bound  /\ Goto(w, "begin")
    /\ UNCHANGED <<now, row, txn, table, disk, nextSeq, contended, submitted, acked>>

\* BEGIN, which fails inside a transaction another thread began meanwhile
Begin(w) ==
    /\ pc[w] = "begin"
    /\ txn' = TRUE
    /\ IF txn THEN Raise(w)
              ELSE Goto(w, "bind") /\ UNCHANGED <<row, contended, acked>>
    /\ UNCHANGED <<now, bound, table, disk, nextSeq, submitted>>

\* The whole row is bound in one step.  The library binds its four values one
\* by one, each under the connection mutex: a thread that steps the statement
\* between two of them inserts values of two rows, which is left out here
Bind(w) ==
    /\ pc[w] = "bind"
    /\ bound' = row[w]
    /\ Goto(w, "step")
    /\ UNCHANGED <<now, row, txn, table, disk, nextSeq, contended, submitted, acked>>

\* Mutant of Upsert: the primary key is created_at
UpsertByClock(rows, r, seq) ==
    {p \in rows : p.created_at # r.created_at}
    \union {[record |-> r.record, created_at |-> r.created_at, seq |-> seq]}

\* Mutant of Upsert: INSERT OR IGNORE
UpsertIfNew(rows, r, seq) ==
    rows \union {[record |-> r.record, created_at |-> r.created_at, seq |-> seq] :
                    i \in {RowId(r.record)} \ {RowId(p.record) : p \in rows}}

\* INSERT OR REPLACE of one row into a table
Upsert(rows, r, seq) ==
    {p \in rows : RowId(p.record) # RowId(r.record)}
    \union {[record |-> r.record, created_at |-> r.created_at, seq |-> seq]}

\* The statement runs with whatever is bound to it; outside a transaction the
\* insert commits itself
Step(w) ==
    /\ pc[w] = "step"
    /\ \E r \in bound : table' = Upsert(table, r, nextSeq)
    /\ disk' = IF txn THEN disk ELSE table'
    /\ nextSeq' = nextSeq + 1
    /\ Goto(w, "commit")
    /\ UNCHANGED <<now, row, txn, bound, contended, submitted, acked>>

\* The library refuses to bind or reports a failed step because another
\* thread is running the same statement
Misuse(w) ==
    /\ pc[w] \in {"bind", "step"} \/ (pc[w] = "execute" /\ txn)
    /\ \E u \in Writers \ {w} : pc[u] = "step"
    /\ Raise(w)
    /\ UNCHANGED <<now, txn, bound, table, disk, nextSeq, submitted>>

\* Mutant of Commit: write returns without it
NoCommit(w) ==
    /\ pc[w] = "commit"
    /\ Return(w)
    /\ UNCHANGED <<now, txn, bound, table, disk, nextSeq, submitted>>

\* commit: nothing to do with autocommit on
Commit(w) ==
    /\ pc[w] = "commit"
    /\ IF txn THEN Goto(w, "end") /\ UNCHANGED <<row, contended, acked>>
              ELSE Return(w)
    /\ UNCHANGED <<now, txn, bound, table, disk, nextSeq, submitted>>

\* COMMIT, which fails if another thread has just run it
End(w) ==
    /\ pc[w] = "end"
    /\ txn' = FALSE
    /\ disk' = IF txn THEN table ELSE disk
    /\ IF txn THEN Goto(w, "done") /\ UNCHANGED <<row, contended, acked>>
              ELSE Raise(w)
    /\ UNCHANGED <<now, bound, table, nextSeq, submitted>>

Done(w) ==
    /\ pc[w] = "done"
    /\ Return(w)
    /\ UNCHANGED <<now, txn, bound, table, disk, nextSeq, submitted>>

Tick ==
    /\ now < MaxClock
    /\ now' = now + 1
    /\ UNCHANGED <<pc, row, txn, bound, table, disk, nextSeq,
                   contended, submitted, acked>>

\* Mutant of Crash: what was inserted and not committed is still there
CrashWithoutRollback ==
    /\ pc' = [w \in Writers |-> "idle"]
    /\ row' = [w \in Writers |-> {}]
    /\ contended' = {}
    /\ txn' = FALSE
    /\ bound' = {}
    /\ UNCHANGED <<now, table, disk, nextSeq, submitted, acked>>

\* The process dies and starts again: SQLite rolls the open transaction back
Crash ==
    /\ pc' = [w \in Writers |-> "idle"]
    /\ row' = [w \in Writers |-> {}]
    /\ contended' = {}
    /\ txn' = FALSE
    /\ bound' = {}
    /\ table' = disk
    /\ UNCHANGED <<now, disk, nextSeq, submitted, acked>>

Write(w) == Execute(w) \/ Begin(w) \/ Bind(w) \/ Step(w) \/ Misuse(w)
               \/ Commit(w) \/ End(w) \/ Done(w)

Next ==
    \/ \E w \in Writers : (\E r \in Records : Start(w, r)) \/ Write(w)
    \/ Tick
    \/ Crash

Spec == Init /\ [][Next]_vars
FairSpec == Spec /\ \A w \in Writers : WF_vars(Write(w))

(***************************************************************************)
(* Properties                                                              *)
(***************************************************************************)
Ids(rows) == {RowId(p.record) : p \in rows}

(***************************************************************************)
(* Whatever threads did to each other, and although write never rolls      *)
(* back, no transaction is left open once every call is over: a row that   *)
(* was inserted is not left for a later caller to commit or a crash to     *)
(* lose.                                                                   *)
(***************************************************************************)
NoStrandedTransaction == txn => Open # {}

(***************************************************************************)
(* A write that returned and met no other write finds its row id on disk   *)
(* for ever after, restarts included.  Callers that are single threaded    *)
(* (the evaluation harness, the live demo) have only such writes.          *)
(***************************************************************************)
LoneWriteIsKept ==
    \A a \in acked : a.alone => RowId(a.record) \in Ids(disk)

(***************************************************************************)
(* The trail only grows: no step, of any thread or of a crash, takes an id *)
(* off the disk.                                                           *)
(***************************************************************************)
StoredIdsStay == [][Ids(disk) \subseteq Ids(disk')]_vars

(***************************************************************************)
(* get_all lists rows by created_at, which write reads from the clock      *)
(* before it inserts.  For the calls that met no other the listing is in   *)
(* insertion order all the same.                                           *)
(***************************************************************************)
ListedBefore(p, q) == p.created_at < q.created_at

LoneRecords == {a.record : a \in {b \in acked : b.alone}}

LoneRowsKeepOrder ==
    \A p, q \in {d \in disk : d.record \in LoneRecords} :
        ListedBefore(p, q) => p.seq < q.seq

(***************************************************************************)
(* Uncommitted rows do not linger: again and again everything inserted is  *)
(* on disk or rolled back, although a thread may skip its own COMMIT, or   *)
(* fail it, and count on another's.                                        *)
(***************************************************************************)
RowsSettle == []<>(table = disk)

(***************************************************************************)
(* write as AuditStore promises it: an open call is a thread that is not   *)
(* idle, the trail is the set of committed records.                        *)
(***************************************************************************)
Store == INSTANCE AuditStore WITH
            writing <- [w \in Writers |-> {r.record : r \in row[w]}],
            trail   <- {p.record : p \in disk}

ImplementsStore == Store!Spec

(***************************************************************************)
(* INTERFACES.md, AuditLog: it never writes a partial record, "an audit    *)
(* write either persists a complete record or fails cleanly".  A write     *)
(* that returned has persisted its record.                                 *)
(***************************************************************************)
ReturnedIsPersisted ==
    \A a \in acked : RowId(a.record) \in Ids(disk)

(***************************************************************************)
(* audit_log.py, get_all: "return every stored record in insertion order". *)
(***************************************************************************)
ListedInInsertionOrder ==
    \A p, q \in disk : ListedBefore(p, q) => p.seq < q.seq
=============================================================================
