----------------------------- MODULE AuditStore -----------------------------
(***************************************************************************)
(* What AuditLog.write promises its callers, whatever happens inside the   *)
(* one SQLite connection they share.                                       *)
(*                                                                         *)
(* A write call is open from its start to its return or raise.  Two calls  *)
(* that are open together contend: a contended call may return without its *)
(* record, raise although its record is stored, or see it stored later on  *)
(* behalf of another caller.  A call that meets no other does what the     *)
(* documentation says: it returns, and then the record is on disk.         *)
(***************************************************************************)
EXTENDS Integers

CONSTANTS Writers,        \* the threads that call write
          Records,        \* the AuditRecords they may write
          RowId(_)        \* the primary key: case_id + ":" + timestamp

VARIABLES writing,        \* what each writer's open call is writing, if any
          contended,      \* the writers whose open call met another one
          submitted,      \* the records ever passed to write
          trail,          \* the records on disk
          acked           \* the returned calls: [record, alone]

vars == <<writing, contended, submitted, trail, acked>>

Open == {w \in Writers : writing[w] # {}}

\* Only submitted records are stored or acknowledged, only open calls contend
TypeOK ==
    /\ writing \in [Writers -> {{}} \union {{r} : r \in Records}]
    /\ contended \subseteq Open
    /\ submitted \subseteq Records
    /\ trail \subseteq submitted
    /\ acked \subseteq [record : submitted, alone : BOOLEAN]

Init ==
    /\ writing = [w \in Writers |-> {}]
    /\ contended = {}
    /\ submitted = {}
    /\ trail = {}
    /\ acked = {}

Start(w, r) ==
    /\ writing[w] = {}
    /\ r \notin submitted
    /\ writing' = [writing EXCEPT ![w] = {r}]
    /\ contended' = IF Open = {} THEN contended ELSE Open \union {w}
    /\ submitted' = submitted \union {r}
    /\ UNCHANGED <<trail, acked>>

\* Some submitted records reach the disk, in the place of those with their ids
Persist ==
    /\ Open # {}
    /\ \E S \in SUBSET submitted :
          /\ \A r, s \in S : RowId(r) = RowId(s) => r = s
          /\ trail' = {t \in trail : \A s \in S : RowId(t) # RowId(s)} \union S
    /\ UNCHANGED <<writing, contended, submitted, acked>>

Close(w) ==
    /\ writing' = [writing EXCEPT ![w] = {}]
    /\ contended' = contended \ {w}
    /\ UNCHANGED <<submitted, trail>>

\* Mutant of Return: the call does not wait for its record to be stored
ReturnEarly(w) ==
    \E r \in writing[w] :
       /\ acked' = acked \union {[record |-> r, alone |-> w \notin contended]}
       /\ Close(w)

Return(w) ==
    \E r \in writing[w] :
       /\ w \in contended \/ r \in trail
       /\ acked' = acked \union {[record |-> r, alone |-> w \notin contended]}
       /\ Close(w)

Raise(w) ==
    /\ w \in contended
    /\ acked' = acked
    /\ Close(w)

\* The process dies: open calls vanish, what is on disk stays
Crash ==
    /\ writing' = [w \in Writers |-> {}]
    /\ contended' = {}
    /\ UNCHANGED <<submitted, trail, acked>>

Next ==
    \/ \E w \in Writers : \/ \E r \in Records : Start(w, r)
                          \/ Return(w)
                          \/ Raise(w)
    \/ Persist
    \/ Crash

Spec == Init /\ [][Next]_vars

(***************************************************************************)
(* A write that returned and met no other write has its row on disk for    *)
(* good: the id it returned finds a row at any later time, also after a    *)
(* restart.                                                                *)
(***************************************************************************)
LoneWriteIsKept ==
    \A a \in acked : a.alone => \E t \in trail : RowId(t) = RowId(a.record)
=============================================================================
