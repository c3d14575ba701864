------------------------- MODULE AuditQueriesProofs -------------------------
(***************************************************************************)
(* Proofs about what the queries of AuditLog return, for any number of     *)
(* threads, any records, row ids and times.                                *)
(***************************************************************************)
EXTENDS AuditQueries, AuditLogProofs, SequenceTheorems

-----------------------------------------------------------------------------
(***************************************************************************)
(* Lone writes are listed in insertion order.  Between the reading of the  *)
(* clock and the INSERT of a lone call nobody else inserts or returns, so  *)
(* that call is the last one, by its time as by its place; and nobody      *)
(* inserts its row again, since a statement that is about to run has been  *)
(* bound to the row of a call that was not over yet.                       *)
(***************************************************************************)
Seen == table \union disk

LoneRows == {p \in Seen : p.record \in LoneRecords}

RowsAreBehind ==
    /\ \A p \in Seen : p.created_at <= now /\ p.seq < nextSeq
    /\ \A w \in Writers : \A r \in row[w] : r.created_at <= now
    /\ \A r \in bound : r.created_at <= now

RecordsInHand ==
    /\ \A w \in Writers : Recorded(row[w]) \intersect Recorded(acked) = {}
    /\ \A w, u \in Writers :
          w # u => Recorded(row[w]) \intersect Recorded(row[u]) = {}

NoLoneRowIsBound ==
    \A w \in Writers : pc[w] = "step" => Recorded(bound) \intersect LoneRecords = {}

LoneCallIsLast(w) ==
    \A r \in row[w] :
       /\ \A p \in LoneRows : p.created_at <= r.created_at
       /\ pc[w] \in {"execute", "begin", "bind", "step"} => r.record \notin Recorded(Seen)
       /\ pc[w] \in {"commit", "end", "done"} =>
            \A p \in Seen : p.record = r.record =>
               /\ p.created_at = r.created_at
               /\ \A q \in LoneRows : q.seq < p.seq

LoneRowsAreOrdered == \A p, q \in LoneRows : ListedBefore(p, q) => p.seq < q.seq

OrderInv ==
    /\ StoreInv
    /\ RowsAreBehind
    /\ RecordsInHand
    /\ NoLoneRowIsBound
    /\ \A w \in Open \ contended : LoneCallIsLast(w)
    /\ LoneRowsAreOrdered

LEMMA InitOrder == Init => OrderInv
BY InitStoreInv
   DEF Init, OrderInv, RowsAreBehind, RecordsInHand, NoLoneRowIsBound, Recorded,
       LoneRowsAreOrdered, LoneRows, Seen, Open

\* The table and the disk hold what they held, and what an INSERT adds
LEMMA SeenSteps ==
    ASSUME [Next]_vars
    PROVE  \/ Seen' \subseteq Seen
           \/ \E w \in Writers : \E r \in bound :
                 /\ Step(w)
                 /\ Seen' \subseteq Seen \union {[record |-> r.record,
                                                  created_at |-> r.created_at,
                                                  seq |-> nextSeq]}
<1>1. ASSUME NEW w \in Writers, Step(w)
      PROVE  \E r \in bound :
                 Seen' \subseteq Seen \union {[record |-> r.record,
                                               created_at |-> r.created_at,
                                               seq |-> nextSeq]}
  BY <1>1 DEF Step, Upsert, Seen
<1>2. CASE Crash
  BY <1>2 DEF Crash, Seen
<1>3. CASE UNCHANGED <<table, disk>>
  BY <1>3 DEF Seen
<1>4. ASSUME NEW w \in Writers, End(w), table' = table, disk' = table PROVE Seen' \subseteq Seen
  BY <1>4 DEF Seen
<1>5. QED
  BY <1>1, <1>2, <1>3, <1>4, TableSteps

\* What becomes of the rows in hand and of the calls that returned
LEMMA RowSteps ==
    ASSUME TypeOK, [Next]_vars
    PROVE  \/ \E w \in Writers, r \in Records : Start(w, r)
           \/ \E w \in Writers : /\ Return(w) /\ pc[w] \in {"commit", "done"}
                                 /\ UNCHANGED <<now, bound, table, disk, nextSeq>>
           \/ acked' = acked /\ \A w \in Writers : row'[w] \subseteq row[w]
<1> DEFINE Goal == acked' = acked /\ \A w \in Writers : row'[w] \subseteq row[w]
<1>1. ASSUME NEW w \in Writers, Raise(w) PROVE Goal
  BY <1>1 DEF Raise, Close, TypeOK
<1>2. CASE row' = row /\ acked' = acked
  BY <1>2
<1>3. CASE Crash
  BY <1>3 DEF Crash
<1>4. QED
  BY <1>1, <1>2, <1>3
     DEF Next, Write, Execute, Begin, Bind, Step, Misuse, Commit, End, Done, Tick, vars

\* The clock and the count of inserts go on
LEMMA NextBehind == TypeOK /\ RowsAreBehind /\ [Next]_vars => RowsAreBehind'
<1> SUFFICES ASSUME TypeOK, RowsAreBehind, [Next]_vars PROVE RowsAreBehind'
  OBVIOUS
<1>t. /\ now \in Nat /\ nextSeq \in Nat /\ bound \subseteq Rows
      /\ Seen \subseteq Placed /\ row \in [Writers -> SUBSET Rows]
  BY DEF TypeOK, Seen
<1>1. now' \in Nat /\ now <= now' /\ nextSeq' \in Nat /\ nextSeq <= nextSeq'
  BY <1>t DEF Next, Write, Start, Execute, Begin, Bind, Step, Misuse, Commit, End, Done,
              Tick, Crash, vars
<1>2. \A p \in Seen' : p.created_at <= now' /\ p.seq < nextSeq'
  <2>1. \A p \in Seen : p.created_at <= now' /\ p.seq < nextSeq'
    BY <1>t, <1>1 DEF RowsAreBehind, Placed
  <2>2. ASSUME NEW w \in Writers, NEW r \in bound, Step(w)
        PROVE  r.created_at <= now' /\ nextSeq < nextSeq'
    BY <1>t, <2>2 DEF RowsAreBehind, Step
  <2>3. QED
    BY <2>1, <2>2, SeenSteps
<1>3. \A w \in Writers : \A r \in row[w] : r.created_at <= now'
  BY <1>t, <1>1 DEF RowsAreBehind, Rows
<1>4. \A w \in Writers : \A r \in row'[w] : r.created_at <= now'
  <2>1. ASSUME NEW w \in Writers, NEW r \in Records, Start(w, r)
        PROVE  \A v \in Writers : \A s \in row'[v] : s.created_at <= now'
    BY <1>t, <1>3, <2>1 DEF Start
  <2>2. ASSUME NEW w \in Writers, Return(w) PROVE \A v \in Writers : row'[v] \subseteq row[v]
    BY <1>t, <2>2 DEF Return, Close
  <2>3. QED
    BY <1>3, <2>1, <2>2, RowSteps
<1>5. \A r \in bound' : r.created_at <= now'
  <2>1. bound' \subseteq bound \/ \E w \in Writers : bound' = row[w]
    BY DEF Next, Write, Start, Execute, Begin, Bind, Step, Misuse, Commit, End, Done,
           Tick, Crash, vars
  <2>2. \A r \in bound : r.created_at <= now'
    BY <1>t, <1>1 DEF RowsAreBehind, Rows
  <2>3. QED
    BY <1>3, <2>1, <2>2
<1>6. QED
  BY <1>2, <1>4, <1>5 DEF RowsAreBehind

\* A call that returns adds its record to the lone ones if it met no other
LEMMA ReturnRecords ==
    ASSUME NEW w \in Writers, Return(w)
    PROVE  /\ Recorded(acked') = Recorded(acked) \union Recorded(row[w])
           /\ w \in contended => LoneRecords' = LoneRecords
           /\ w \notin contended => LoneRecords' = LoneRecords \union Recorded(row[w])
<1> DEFINE alone == w \notin contended
           new   == {[record |-> r.record, alone |-> alone] : r \in row[w]}
<1>1. acked' = acked \union new
  BY DEF Return
<1>2. \A a \in new : a.record \in Recorded(row[w]) /\ a.alone = alone
  BY DEF Recorded
<1>3. \A i \in Recorded(row[w]) : \E a \in new : a.record = i /\ a.alone = alone
  <2> HIDE DEF alone
  <2> SUFFICES ASSUME NEW i \in Recorded(row[w])
               PROVE  \E a \in new : a.record = i /\ a.alone = alone
    OBVIOUS
  <2>1. PICK r \in row[w] : r.record = i
    BY DEF Recorded
  <2>2. [record |-> r.record, alone |-> alone] \in new
    OBVIOUS
  <2>3. QED
    BY <2>1, <2>2
<1> HIDE DEF new
<1>4. QED
  BY <1>1, <1>2, <1>3 DEF Recorded, LoneRecords

\* A record is in one thread's hands, and not again once its call returned
LEMMA NextInHand ==
    TypeOK /\ HandedIn /\ RecordsInHand /\ [Next]_vars => RecordsInHand'
<1> SUFFICES ASSUME TypeOK, HandedIn, RecordsInHand, [Next]_vars PROVE RecordsInHand'
  OBVIOUS
<1>t. row \in [Writers -> SUBSET Rows]
  BY DEF TypeOK
<1>1. ASSUME NEW w \in Writers, NEW r \in Records, Start(w, r) PROVE RecordsInHand'
  <2>1. acked' = acked /\ r \notin submitted
    BY <1>1 DEF Start
  <2> DEFINE new == [record |-> r, created_at |-> now]
  <2>2. new.record = r /\ row' = [row EXCEPT ![w] = {new}]
    BY <1>1 DEF Start
  <2> HIDE DEF new
  <2>3. Recorded(row'[w]) = {r} /\ \A v \in Writers \ {w} : row'[v] = row[v]
    BY <1>t, <2>2 DEF Recorded
  <2>4. QED
    BY <2>1, <2>3 DEF RecordsInHand, HandedIn
<1>2. ASSUME NEW w \in Writers, Return(w) PROVE RecordsInHand'
  <2>1. Recorded(row'[w]) = {} /\ \A v \in Writers \ {w} : row'[v] = row[v]
    BY <1>t, <1>2 DEF Return, Close, Recorded
  <2>2. Recorded(acked') = Recorded(acked) \union Recorded(row[w])
    BY <1>2, ReturnRecords
  <2>3. QED
    BY <2>1, <2>2 DEF RecordsInHand
<1>3. CASE acked' = acked /\ \A w \in Writers : row'[w] \subseteq row[w]
  BY <1>3 DEF RecordsInHand, Recorded
<1>4. QED
  BY <1>1, <1>2, <1>3, RowSteps

\* What the statement is bound to when it runs has not been answered alone
LEMMA NextBound ==
    ASSUME IInv, RecordsInHand, NoLoneRowIsBound, [Next]_vars
    PROVE  NoLoneRowIsBound'
<1> SUFFICES ASSUME NEW w \in Writers, pc'[w] = "step"
             PROVE  Recorded(bound') \intersect LoneRecords' = {}
  BY DEF NoLoneRowIsBound
<1>t. pc \in [Writers -> Stages]
  BY DEF IInv, TypeOK
<1>1. LoneRecords' = LoneRecords
  <2>1. acked' = acked => LoneRecords' = LoneRecords
    BY DEF LoneRecords
  <2>2. ASSUME NEW v \in Writers, Return(v), pc[v] \in {"commit", "done"}
        PROVE  LoneRecords' = LoneRecords
    <3>1. v \in Open /\ v # w /\ w \in Open
      BY <1>t, <2>2 DEF Return, Close, Goto, Open, Stages
    <3>2. v \in contended
      BY <3>1 DEF IInv, LoneCall
    <3>3. QED
      BY <2>2, <3>2, ReturnRecords
  <2>3. QED
    BY <2>1, <2>2, RowSteps DEF IInv, Start
<1>2. LoneRecords \subseteq Recorded(acked)
  BY DEF LoneRecords, Recorded
<1>3. ASSUME NEW v \in Writers, bound' = row[v]
      PROVE  Recorded(bound') \intersect LoneRecords' = {}
  BY <1>1, <1>2, <1>3 DEF RecordsInHand
<1>4. CASE bound' = bound /\ pc[w] = "step"
  BY <1>1, <1>4 DEF NoLoneRowIsBound
<1>5. (\E v \in Writers : bound' = row[v]) \/ (bound' = bound /\ pc[w] = "step")
  BY <1>t DEF Next, Write, Start, Execute, Begin, Bind, Step, Misuse, Commit, End, Done,
              Raise, Return, Close, Goto, Tick, Crash, vars, Stages
<1>6. QED
  BY <1>3, <1>4, <1>5

\* The lone call has the latest time and then the last place
LEMMA NextCallIsLast ==
    ASSUME OrderInv, [Next]_vars, NEW w \in Open' \ contended'
    PROVE  LoneCallIsLast(w)'
<1>t. /\ TypeOK /\ IInv /\ w \in Writers /\ now \in Nat
      /\ pc \in [Writers -> Stages] /\ row \in [Writers -> SUBSET Rows]
  BY DEF OrderInv, StoreInv, IInv, TypeOK, Open
<1> USE DEF LoneCallIsLast
<1>1. ASSUME NEW r \in Records, Start(w, r) PROVE LoneCallIsLast(w)'
  <2> DEFINE new == [record |-> r, created_at |-> now]
  <2>1. new.record = r /\ new.created_at = now /\ row' = [row EXCEPT ![w] = {new}]
    BY <1>1 DEF Start
  <2> HIDE DEF new
  <2>2. row'[w] = {new} /\ pc'[w] = "execute"
    BY <1>t, <1>1, <2>1 DEF Start, Goto
  <2>3. LoneRows' = LoneRows /\ Seen' = Seen
    BY <1>1 DEF Start, LoneRows, LoneRecords, Seen
  <2>4. r \notin Recorded(Seen)
    BY <1>1 DEF Start, OrderInv, StoreInv, HandedIn, Recorded, Seen
  <2>5. \A p \in LoneRows : p.created_at <= now
    BY DEF OrderInv, RowsAreBehind, LoneRows
  <2>6. QED
    BY <2>1, <2>2, <2>3, <2>4, <2>5 DEF Recorded
<1>2. ASSUME w \in Open \ contended, LoneMove(w) PROVE LoneCallIsLast(w)'
  <2>0. LoneCallIsLast(w)
    BY <1>2 DEF OrderInv
  <2>r. row' = row /\ LoneRecords' = LoneRecords
    BY <1>2 DEF LoneMove, Execute, Begin, Bind, Step, Commit, End, LoneRecords
  <2>1. CASE \/ Execute(w) /\ ~txn
             \/ Begin(w) /\ ~txn
             \/ Bind(w)
             \/ Commit(w) /\ txn
    <3>1. Seen' = Seen /\ LoneRows' = LoneRows
      BY <2>1, <2>r DEF Execute, Begin, Bind, Commit, Seen, LoneRows
    <3>2. \/ pc[w] \in {"execute", "begin", "bind"} /\ pc'[w] \in {"begin", "bind", "step"}
          \/ pc[w] = "commit" /\ pc'[w] = "end"
      BY <1>t, <2>1 DEF Execute, Begin, Bind, Commit, Goto
    <3>3. QED
      BY <2>0, <2>r, <3>1, <3>2
  <2>2. CASE Step(w) /\ txn /\ bound = row[w]
    <3>1. pc[w] = "step" /\ pc'[w] = "commit"
      BY <1>t, <2>2 DEF Step, Goto
    <3>2. PICK r \in row[w] : table' = Upsert(table, r, nextSeq)
      BY <2>2 DEF Step
    <3> DEFINE new == [record |-> r.record, created_at |-> r.created_at, seq |-> nextSeq]
    <3>3. /\ new.record = r.record /\ new.created_at = r.created_at /\ new.seq = nextSeq
          /\ Seen' \subseteq Seen \union {new}
      BY <2>2, <3>2 DEF Step, Upsert, Seen
    <3> HIDE DEF new
    <3>4. r.record \notin LoneRecords /\ r.record \notin Recorded(Seen)
      <4>1. r.record \in Recorded(row[w]) /\ LoneRecords \subseteq Recorded(acked)
        BY DEF Recorded, LoneRecords
      <4>2. QED
        BY <1>t, <2>0, <3>1, <4>1 DEF OrderInv, RecordsInHand
    <3>5. LoneRows' \subseteq LoneRows
      BY <2>r, <3>3, <3>4 DEF LoneRows
    <3>6. \A p \in Seen' : p.record = r.record => p = new
      BY <3>3, <3>4 DEF Recorded
    <3>7. \A q \in LoneRows' : q.seq < nextSeq
      BY <3>5 DEF OrderInv, RowsAreBehind, LoneRows
    <3>8. row[w] = {r}
      BY <1>t DEF TypeOK
    <3>9. QED
      BY <2>0, <2>r, <3>1, <3>3, <3>5, <3>6, <3>7, <3>8
  <2>3. CASE End(w) /\ txn
    <3>1. pc[w] = "end" /\ pc'[w] = "done"
      BY <1>t, <2>3 DEF End, Goto
    <3>2. Seen' \subseteq Seen /\ LoneRows' \subseteq LoneRows
      BY <2>3, <2>r DEF End, Seen, LoneRows
    <3>3. QED
      BY <2>0, <2>r, <3>1, <3>2
  <2>4. QED
    BY <1>2, <2>1, <2>2, <2>3 DEF LoneMove
<1>3. ASSUME w \in Open \ contended, Tick \/ UNCHANGED vars PROVE LoneCallIsLast(w)'
  <2>1. UNCHANGED <<pc, row, table, disk, acked>>
    BY <1>3 DEF Tick, vars
  <2>2. UNCHANGED <<pc, row, Seen, LoneRows>>
    BY <2>1 DEF Seen, LoneRows, LoneRecords
  <2>3. QED
    BY <1>3, <2>2 DEF OrderInv, Recorded
<1>4. QED
  BY <1>t, <1>1, <1>2, <1>3, LoneSteps

\* A row joins the lone ones when its call returns, as the last of them
LEMMA NextOrdered ==
    ASSUME OrderInv, [Next]_vars
    PROVE  LoneRowsAreOrdered'
<1>t. TypeOK /\ IInv /\ Seen \subseteq Placed
  BY DEF OrderInv, StoreInv, IInv, TypeOK, Seen
<1> USE DEF LoneRowsAreOrdered, ListedBefore
<1>1. CASE LoneRows' \subseteq LoneRows
  BY <1>1 DEF OrderInv
<1>2. CASE LoneRecords' = LoneRecords
  <2>1. ASSUME NEW w \in Writers, NEW r \in bound, Step(w)
        PROVE  r.record \notin LoneRecords
    BY <2>1 DEF OrderInv, NoLoneRowIsBound, Step, Recorded
  <2>2. LoneRows' \subseteq LoneRows
    BY <1>2, <2>1, SeenSteps DEF LoneRows
  <2>3. QED
    BY <1>1, <2>2
<1>3. ASSUME NEW w \in Writers, Return(w), pc[w] \in {"commit", "done"},
             UNCHANGED <<now, bound, table, disk, nextSeq>>, w \notin contended
      PROVE  LoneRowsAreOrdered'
  <2>1. w \in Open /\ LoneCallIsLast(w)
    BY <1>3 DEF OrderInv, Open
  <2>2. PICK r \in row[w] : row[w] = {r}
    BY <1>t, <2>1 DEF TypeOK, Open
  <2>3. LoneRecords' = LoneRecords \union {r.record}
    BY <1>3, <2>2, ReturnRecords DEF Recorded
  <2>4. Seen' = Seen
    BY <1>3 DEF Seen
  <2> DEFINE Own == {p \in Seen : p.record = r.record}
  <2>5. LoneRows' = LoneRows \union Own
    BY <2>3, <2>4 DEF LoneRows
  <2>6. \A p \in Own : p.created_at = r.created_at /\ \A q \in LoneRows : q.seq < p.seq
    BY <1>3, <2>1 DEF LoneCallIsLast
  <2>7. \A p \in LoneRows : p.created_at <= r.created_at
    BY <2>1 DEF LoneCallIsLast
  <2>8. r.created_at \in Nat /\ \A p \in LoneRows : p.created_at \in Nat
    BY <1>t DEF TypeOK, Rows, LoneRows, Placed
  <2> HIDE DEF Own
  <2>9. QED
    BY <2>5, <2>6, <2>7, <2>8 DEF OrderInv
<1>4. QED
  <2>1. ASSUME NEW w \in Writers, NEW r \in Records, Start(w, r)
        PROVE  LoneRecords' = LoneRecords
    BY <2>1 DEF Start, LoneRecords
  <2>2. acked' = acked => LoneRecords' = LoneRecords
    BY DEF LoneRecords
  <2>3. ASSUME NEW w \in Writers, Return(w), pc[w] \in {"commit", "done"},
               UNCHANGED <<now, bound, table, disk, nextSeq>>
        PROVE  LoneRowsAreOrdered'
    BY <1>2, <1>3, <2>3, ReturnRecords
  <2>4. QED
    BY <1>t, <1>2, <2>1, <2>2, <2>3, RowSteps

LEMMA NextOrder == OrderInv /\ [Next]_vars => OrderInv'
<1> SUFFICES ASSUME OrderInv, [Next]_vars PROVE OrderInv'
  OBVIOUS
<1>t. StoreInv /\ IInv /\ TypeOK /\ HandedIn
  BY DEF OrderInv, StoreInv, IInv
<1>1. StoreInv'
  BY <1>t, NextStoreInv
<1>2. RowsAreBehind'
  BY <1>t, NextBehind DEF OrderInv
<1>3. RecordsInHand'
  BY <1>t, NextInHand DEF OrderInv
<1>4. NoLoneRowIsBound'
  BY <1>t, NextBound DEF OrderInv
<1>5. \A w \in Open' \ contended' : LoneCallIsLast(w)'
  BY NextCallIsLast
<1>6. LoneRowsAreOrdered'
  BY NextOrdered
<1>7. QED
  BY <1>1, <1>2, <1>3, <1>4, <1>5, <1>6 DEF OrderInv

(***************************************************************************)
(* get_all lists the records of the calls that met no other in the order   *)
(* in which they were inserted, whatever other calls went on before and    *)
(* between them, and through restarts.                                     *)
(***************************************************************************)
THEOREM LoneRowsStayInOrder == Spec => []LoneRowsKeepOrder
<1>1. OrderInv => LoneRowsKeepOrder
  BY DEF OrderInv, LoneRowsAreOrdered, LoneRowsKeepOrder, LoneRows, Seen
<1>2. QED
  BY <1>1, InitOrder, NextOrder, PTL DEF Spec

-----------------------------------------------------------------------------
(***************************************************************************)
(* What the look-up of an answered lone write finds.  Outside of a         *)
(* transaction the table is the disk, so the answer goes out with the      *)
(* record in both, and a restart does not bring an older one back.  The    *)
(* statement may still be bound to a record that was answered, but only    *)
(* while the table holds that very record: to insert it again changes      *)
(* nothing.                                                                *)
(***************************************************************************)
Settled == ~txn => table = disk

LoneRowsAreOnDisk == \A p \in table : p.record \in LoneRecords => p \in disk

\* The records whose INSERT has run
Inserted == Recorded(acked) \union
              UNION {Recorded(row[w]) : w \in {v \in Writers : pc[v] \in {"commit", "end", "done"}}}

BoundIsThere == Recorded(bound) \intersect Inserted \subseteq Recorded(table)

OneRowIsBound == \A r, s \in bound : r = s

LookupInv ==
    /\ OrderInv
    /\ OneRowIsBound
    /\ Settled
    /\ LoneRowsAreOnDisk
    /\ BoundIsThere

LEMMA InitLookup == Init => LookupInv
BY InitOrder DEF Init, LookupInv, OneRowIsBound, Settled, LoneRowsAreOnDisk, BoundIsThere, Recorded

\* Every end of a transaction brings the table and the disk together
LEMMA NextSettled == Settled /\ [Next]_vars => Settled'
<1> SUFFICES ASSUME Settled, [Next]_vars PROVE Settled'
  OBVIOUS
<1> USE DEF Settled
<1>1. ASSUME NEW w \in Writers, Step(w) PROVE Settled'
  BY <1>1 DEF Step
<1>2. ASSUME NEW w \in Writers, Begin(w) PROVE Settled'
  BY <1>2 DEF Begin
<1>3. ASSUME NEW w \in Writers, End(w) PROVE Settled'
  BY <1>3 DEF End
<1>4. CASE Crash
  BY <1>4 DEF Crash
<1>5. CASE UNCHANGED <<txn, table, disk>>
  BY <1>5
<1>6. QED
  BY <1>1, <1>2, <1>3, <1>4, <1>5
     DEF Next, Write, Start, Execute, Bind, Misuse, Commit, Done, Tick, vars

\* A lone call that is about to return has left no transaction behind
LEMMA LoneIsDone ==
    ASSUME LookupInv, NEW w \in Writers, w \notin contended, pc[w] \in {"commit", "done"},
           pc[w] = "commit" => ~txn
    PROVE  pc[w] = "done" /\ table = disk
<1>1. w \in Open /\ LoneCall(w)
  BY DEF LookupInv, OrderInv, StoreInv, IInv, Open
<1>2. pc[w] = "done"
  BY <1>1 DEF LoneCall
<1>3. ~txn
  BY <1>1, <1>2 DEF LookupInv, OrderInv, StoreInv, IInv, TxnIsHeld, LoneCall, Open, Closing
<1>4. QED
  BY <1>2, <1>3 DEF LookupInv, Settled

\* How a step changes who has been answered
LEMMA AnswerSteps ==
    ASSUME TypeOK, [Next]_vars
    PROVE  \/ acked' = acked
           \/ \E w \in Writers : /\ Return(w) /\ pc[w] \in {"commit", "done"}
                                 /\ pc[w] = "commit" => ~txn
                                 /\ UNCHANGED <<now, txn, bound, table, disk, nextSeq>>
<1>1. ASSUME NEW w \in Writers, Commit(w), txn PROVE acked' = acked
  BY <1>1 DEF Commit
<1>2. ASSUME NEW w \in Writers, Execute(w) \/ Begin(w) \/ Bind(w) \/ Step(w) \/ Misuse(w) \/ End(w)
      PROVE  acked' = acked
  BY <1>2 DEF Execute, Begin, Bind, Step, Misuse, End, Raise
<1>3. QED
  BY <1>1, <1>2 DEF Next, Write, Start, Commit, Done, Tick, Crash, vars

\* A lone answered record that is in the table is committed
LEMMA NextOnDisk == LookupInv /\ [Next]_vars => LoneRowsAreOnDisk'
<1> SUFFICES ASSUME LookupInv, [Next]_vars PROVE LoneRowsAreOnDisk'
  OBVIOUS
<1>t. TypeOK /\ LoneRowsAreOnDisk
  BY DEF LookupInv, OrderInv, StoreInv, IInv
<1>1. CASE acked' = acked
  <2>1. LoneRecords' = LoneRecords
    BY <1>1 DEF LoneRecords
  <2>2. ASSUME NEW w \in Writers, Step(w) PROVE LoneRowsAreOnDisk'
    <3>1. PICK r \in bound : table' = Upsert(table, r, nextSeq)
      BY <2>2 DEF Step
    <3>2. r.record \notin LoneRecords
      BY <2>2 DEF LookupInv, OrderInv, NoLoneRowIsBound, Step, Recorded
    <3>3. \A p \in table' : p \in table \/ p.record = r.record
      BY <3>1 DEF Upsert
    <3>4. QED
      BY <1>t, <2>1, <2>2, <3>2, <3>3 DEF LoneRowsAreOnDisk, Step
  <2>3. CASE UNCHANGED <<table, disk>> \/ (table' = table /\ disk' = table) \/ Crash
    BY <1>t, <2>1, <2>3 DEF LoneRowsAreOnDisk, Crash
  <2>4. QED
    BY <2>2, <2>3, TableSteps
<1>2. ASSUME NEW w \in Writers, Return(w), pc[w] \in {"commit", "done"},
             pc[w] = "commit" => ~txn, UNCHANGED <<table, disk>>
      PROVE  LoneRowsAreOnDisk'
  <2>1. CASE w \in contended
    BY <1>t, <1>2, <2>1, ReturnRecords DEF LoneRowsAreOnDisk
  <2>2. CASE w \notin contended
    BY <1>2, <2>2, LoneIsDone DEF LoneRowsAreOnDisk
  <2>3. QED
    BY <2>1, <2>2
<1>3. QED
  BY <1>t, <1>1, <1>2, AnswerSteps

\* Binding replaces what was bound
LEMMA NextOneBound == TypeOK /\ OneRowIsBound /\ [Next]_vars => OneRowIsBound'
<1> SUFFICES ASSUME TypeOK, OneRowIsBound, [Next]_vars PROVE OneRowIsBound'
  OBVIOUS
<1>1. bound' = bound \/ bound' = {} \/ \E w \in Writers : bound' = row[w]
  BY DEF Next, Write, Start, Execute, Begin, Bind, Step, Misuse, Commit, End, Done,
         Tick, Crash, vars
<1>2. QED
  BY <1>1 DEF TypeOK, OneRowIsBound

\* The statement is bound to a row before its INSERT, and to an inserted one
\* only as long as the table has it
LEMMA NextBoundThere == LookupInv /\ [Next]_vars => BoundIsThere'
<1> SUFFICES ASSUME LookupInv, [Next]_vars PROVE BoundIsThere'
  OBVIOUS
<1>t. /\ TypeOK /\ BoundIsThere /\ RecordsInHand /\ OneRowIsBound
      /\ pc \in [Writers -> Stages] /\ row \in [Writers -> SUBSET Rows]
  BY DEF LookupInv, OrderInv, StoreInv, IInv, TypeOK
<1>1. ASSUME NEW w \in Writers, Execute(w) \/ Bind(w), bound' = row[w] PROVE BoundIsThere'
  <2>1. pc[w] \in {"execute", "bind"} /\ acked' = acked /\ row' = row
    BY <1>1 DEF Execute, Bind
  <2>2. \A v \in Writers : pc'[v] \in {"commit", "end", "done"} => v # w
    BY <1>t, <1>1 DEF Execute, Bind, Goto
  <2>3. Recorded(row[w]) \intersect Inserted' = {}
    BY <1>t, <2>1, <2>2 DEF RecordsInHand, Inserted
  <2>4. QED
    BY <1>1, <2>3 DEF BoundIsThere
<1>2. ASSUME NEW w \in Writers, Step(w) PROVE BoundIsThere'
  <2>1. PICK r \in bound : table' = Upsert(table, r, nextSeq)
    BY <1>2 DEF Step
  <2>2. bound' = bound /\ \A s \in bound : s = r
    BY <1>t, <1>2 DEF Step, OneRowIsBound
  <2>3. QED
    BY <2>1, <2>2, UpsertRecords DEF BoundIsThere, Recorded
<1>3. ASSUME NEW w \in Writers, Return(w), pc[w] \in {"commit", "done"},
             UNCHANGED <<bound, table>>
      PROVE  BoundIsThere'
  <2>1. Recorded(acked') = Recorded(acked) \union Recorded(row[w])
    BY <1>3, ReturnRecords
  <2>2. \A v \in Writers : pc'[v] \in {"commit", "end", "done"} =>
            pc[v] = pc'[v] /\ row'[v] = row[v]
    BY <1>t, <1>3 DEF Return, Close, Goto
  <2>3. Inserted' \subseteq Inserted
    BY <1>3, <2>1, <2>2 DEF Inserted
  <2>4. QED
    BY <1>t, <1>3, <2>3 DEF BoundIsThere
<1>4. ASSUME UNCHANGED <<bound, table, acked>>, \A v \in Writers :
                pc'[v] \in {"commit", "end", "done"} =>
                   pc[v] \in {"commit", "end", "done"} /\ row'[v] = row[v]
      PROVE  BoundIsThere'
  <2>1. Inserted' \subseteq Inserted
    BY <1>4 DEF Inserted
  <2>2. QED
    BY <1>t, <1>4, <2>1 DEF BoundIsThere
<1>5. CASE Crash
  BY <1>5 DEF Crash, BoundIsThere, Recorded
<1>6. ASSUME NEW w \in Writers, Execute(w) \/ Begin(w) \/ Bind(w) PROVE BoundIsThere'
  <2>1. \A v \in Writers : pc'[v] \in {"commit", "end", "done"} => v # w \/ pc'[v] = pc[v]
    BY <1>t, <1>6 DEF Execute, Begin, Bind, Raise, Close, Goto
  <2>2. \A v \in Writers \ {w} : pc'[v] = pc[v] /\ row'[v] = row[v]
    BY <1>t, <1>6 DEF Execute, Begin, Bind, Raise, Close, Goto
  <2>3. QED
    BY <1>1, <1>4, <1>6, <2>1, <2>2 DEF Execute, Begin, Bind, Raise
<1>7. ASSUME NEW w \in Writers, Misuse(w) \/ Commit(w) \/ End(w) \/ Done(w)
      PROVE  BoundIsThere'
  BY <1>t, <1>3, <1>4, <1>7 DEF Misuse, Commit, End, Done, Raise, Close, Goto
<1>8. ASSUME NEW w \in Writers, NEW r \in Records, Start(w, r) PROVE BoundIsThere'
  BY <1>t, <1>4, <1>8 DEF Start, Goto
<1>9. CASE Tick \/ UNCHANGED vars
  BY <1>4, <1>9 DEF Tick, vars
<1>10. QED
  BY <1>2, <1>5, <1>6, <1>7, <1>8, <1>9 DEF Next, Write

LEMMA NextLookup == LookupInv /\ [Next]_vars => LookupInv'
<1> SUFFICES ASSUME LookupInv, [Next]_vars PROVE LookupInv'
  OBVIOUS
<1>1. OneRowIsBound'
  BY NextOneBound DEF LookupInv, OrderInv, StoreInv, IInv
<1>2. QED
  BY <1>1, NextOrder, NextSettled, NextOnDisk, NextBoundThere DEF LookupInv

\* A record in a table that has one row for each id is found under its id
LEMMA FoundIfThere ==
    ASSUME NEW a, OneRowPerId(table'), a.record \in Recorded(table')
    PROVE  Finds(a)'
<1>1. PICK p \in table' : p.record = a.record
  BY DEF Recorded
<1>2. GetById(RowId(a.record))' = {p}
  BY <1>1 DEF GetById, OneRowPerId
<1>3. QED
  BY <1>1, <1>2 DEF Finds

(***************************************************************************)
(* GET /audit/{id} finds the record of a lone answered write as the answer *)
(* goes out, and loses it to a record not answered before, to nothing      *)
(* else.                                                                   *)
(***************************************************************************)
THEOREM LookupsStayUpToDate == Spec => GetIsUpToDate
<1> DEFINE Step1 == \A a \in acked' \ acked : a.alone => Finds(a)'
           Step2 == \A a \in acked : a.alone /\ Finds(a) /\ ~Finds(a)' =>
                       \E p \in GetById(RowId(a.record))' :
                          \A b \in acked : b.record # p.record
<1>1. ASSUME LookupInv, [Next]_vars PROVE Step1
  <2> SUFFICES ASSUME NEW a \in acked', a \notin acked, a.alone PROVE Finds(a)'
    OBVIOUS
  <2>t. TypeOK /\ OneRowPerId(table) /\ LookupInv'
    BY <1>1, NextLookup DEF LookupInv, OrderInv, StoreInv, IInv
  <2>1. PICK w \in Writers : /\ Return(w) /\ pc[w] \in {"commit", "done"}
                             /\ pc[w] = "commit" => ~txn
                             /\ UNCHANGED <<table, disk>>
    BY <1>1, <2>t, AnswerSteps
  <2>2. PICK r \in row[w] : a = [record |-> r.record, alone |-> w \notin contended]
    BY <2>1 DEF Return
  <2>3. a.record = r.record /\ w \notin contended
    BY <2>2
  <2>4. pc[w] = "done" /\ table = disk
    BY <1>1, <2>1, <2>3, LoneIsDone
  <2>5. Recorded(row[w]) \subseteq Recorded(disk)
    BY <1>1, <2>3, <2>4 DEF LookupInv, OrderInv, StoreInv, LoneRecordIsThere, Open
  <2>6. a.record \in Recorded(table')
    BY <2>1, <2>3, <2>4, <2>5 DEF Recorded
  <2>7. OneRowPerId(table')
    BY <2>t, <2>1
  <2>8. QED
    BY <2>6, <2>7, FoundIfThere
<1>2. ASSUME LookupInv, [Next]_vars PROVE Step2
  <2> SUFFICES ASSUME NEW a \in acked, a.alone, Finds(a), ~Finds(a)'
               PROVE  \E p \in GetById(RowId(a.record))' :
                          \A b \in acked : b.record # p.record
    OBVIOUS
  <2>1. PICK p \in table : p.record = a.record /\ GetById(RowId(a.record)) = {p}
    BY DEF Finds
  <2>2. ~UNCHANGED table /\ ~(table' = table /\ disk' = table)
    BY <2>1 DEF Finds, GetById
  <2>3. ~Crash
    <3>1. p \in disk
      BY <1>2, <2>1 DEF LookupInv, LoneRowsAreOnDisk, LoneRecords
    <3>2. OneRowPerId(disk)
      BY <1>2 DEF LookupInv, OrderInv, StoreInv
    <3>3. ASSUME table' = disk PROVE Finds(a)'
      BY <2>1, <3>1, <3>2, <3>3 DEF Finds, GetById, OneRowPerId
    <3>4. QED
      BY <3>3 DEF Crash
  <2>4. PICK w \in Writers : Step(w)
    BY <1>2, <2>2, <2>3, TableSteps
  <2>5. PICK r \in bound : table' = Upsert(table, r, nextSeq)
    BY <2>4 DEF Step
  <2> DEFINE new == [record |-> r.record, created_at |-> r.created_at, seq |-> nextSeq]
  <2>6. table' = {q \in table : RowId(q.record) # RowId(r.record)} \union {new}
    BY <2>5 DEF Upsert
  <2>7. new.record = r.record
    OBVIOUS
  <2> HIDE DEF new
  <2>8. RowId(r.record) = RowId(a.record)
    <3>1. ASSUME RowId(r.record) # RowId(a.record)
          PROVE  p \in table' /\ GetById(RowId(a.record))' = {p}
      BY <2>1, <2>6, <2>7, <3>1 DEF GetById
    <3>2. QED
      BY <2>1, <3>1 DEF Finds
  <2>9. GetById(RowId(a.record))' = {new}
    BY <2>6, <2>7, <2>8 DEF GetById
  <2>10. r.record # a.record
    BY <2>6, <2>7, <2>9 DEF Finds
  <2>11. ASSUME NEW b \in acked, b.record = r.record PROVE FALSE
    <3>1. r.record \in Recorded(table)
      BY <1>2, <2>11 DEF LookupInv, BoundIsThere, Inserted, Recorded
    <3>2. PICK q \in table : q.record = r.record
      BY <3>1 DEF Recorded
    <3>3. q = p
      BY <2>1, <2>8, <3>2 DEF GetById
    <3>4. QED
      BY <2>1, <2>10, <3>2, <3>3
  <2>12. QED
    BY <2>7, <2>9, <2>11
<1> HIDE DEF Step1, Step2
<1>3. LookupInv /\ [Next]_vars => [Step1 /\ Step2]_vars
  BY <1>1, <1>2
<1>4. QED
  BY <1>3, InitLookup, NextLookup, PTL DEF Spec, GetIsUpToDate, Step1, Step2

-----------------------------------------------------------------------------
(***************************************************************************)
(* Which of two texts comes first is decided where they first differ.      *)
(***************************************************************************)
DifferAfter(a, b, k) ==
    /\ a \in Seq(Int) /\ b \in Seq(Int)
    /\ k \in Nat /\ k < Len(a) /\ k < Len(b)
    /\ \A i \in 1..k : a[i] = b[i]
    /\ a[k + 1] # b[k + 1]

LEMMA FirstDifference ==
    ASSUME NEW a, NEW b, NEW k, DifferAfter(a, b, k)
    PROVE  TextAtMost(a, b) <=> a[k + 1] < b[k + 1]
<1> SUFFICES ASSUME a \in Seq(Int), b \in Seq(Int), k \in Nat, k < Len(a), k < Len(b),
                    \A i \in 1..k : a[i] = b[i], a[k + 1] # b[k + 1]
             PROVE  TextAtMost(a, b) <=> a[k + 1] < b[k + 1]
  BY DEF DifferAfter
<1> DEFINE common == CommonPrefixes({a, b})
<1>1. ASSUME NEW c \in common
      PROVE  c \in Seq(Int) /\ Len(c) \in Nat /\ Len(c) <= k
  <2>1. c \in Prefixes(a) \union Prefixes(b) /\ IsPrefix(c, a) /\ IsPrefix(c, b)
    BY DEF CommonPrefixes
  <2>2. c \in Seq(Int) /\ Len(c) \in Nat
    <3>1. PICK s \in {a, b} : \E l \in 0..Len(s) : c = SubSeq(s, 1, l)
      BY <2>1 DEF Prefixes
    <3>2. PICK l \in 0..Len(s) : c = SubSeq(s, 1, l)
      BY <3>1
    <3>3. \A i \in 1..l : s[i] \in Int
      OBVIOUS
    <3>4. c \in Seq(Int)
      BY <3>2, <3>3, SubSeqProperties
    <3>5. QED
      BY <3>4
  <2>3. ASSUME k < Len(c) PROVE FALSE
    <3>1. Len(c) <= Len(a) /\ Len(c) <= Len(b)
      BY <2>1 DEF IsPrefix
    <3>2. SubSeq(a, 1, Len(c))[k + 1] = a[k + 1] /\ SubSeq(b, 1, Len(c))[k + 1] = b[k + 1]
      BY <2>2, <2>3, <3>1, SubSeqProperties
    <3>3. SubSeq(a, 1, Len(c)) = SubSeq(b, 1, Len(c))
      BY <2>1 DEF IsPrefix
    <3>4. QED
      BY <3>2, <3>3
  <2>4. QED
    BY <2>2, <2>3
<1>2. SubSeq(a, 1, k) \in common /\ Len(SubSeq(a, 1, k)) = k
  <2> DEFINE c == SubSeq(a, 1, k)
  <2>1. /\ c \in Seq(Int) /\ Len(c) = k
        /\ \A i \in 1..k : c[i] = a[i]
    BY SubSeqProperties
  <2>2. /\ SubSeq(b, 1, k) \in Seq(Int) /\ Len(SubSeq(b, 1, k)) = k
        /\ \A i \in 1..k : SubSeq(b, 1, k)[i] = b[i]
    BY SubSeqProperties
  <2>3. SubSeq(b, 1, k) = c
    BY <2>1, <2>2, SeqEqual
  <2>4. SubSeq(c, 1, k) = c
    <3>1. /\ SubSeq(c, 1, k) \in Seq(Int) /\ Len(SubSeq(c, 1, k)) = k
          /\ \A i \in 1..k : SubSeq(c, 1, k)[i] = c[i]
      <4> HIDE DEF c
      <4>1. \A i \in 1..k : c[i] \in Int
        BY <2>1
      <4>2. QED
        BY <4>1, SubSeqProperties
    <3>2. QED
      BY <2>1, <3>1, SeqEqual
  <2>5. c \in Prefixes(a)
    <3>1. k \in 0..Len(a)
      OBVIOUS
    <3>2. QED
      BY <3>1, Zenon DEF Prefixes
  <2>6. IsPrefix(c, a) /\ IsPrefix(c, b)
    BY <2>1, <2>3, <2>4 DEF IsPrefix
  <2>7. QED
    BY <2>1, <2>5, <2>6 DEF CommonPrefixes
<1> DEFINE longest == LongestCommonPrefix({a, b})
<1>3. longest \in common /\ \A other \in common : Len(other) <= Len(longest)
  <2>1. \E c \in common : \A other \in common : Len(other) <= Len(c)
    BY <1>1, <1>2
  <2>2. QED
    BY <2>1, Zenon DEF LongestCommonPrefix
<1> HIDE DEF longest, common
<1>4. Len(longest) = k
  <2>1. k <= Len(longest)
    BY <1>2, <1>3
  <2>2. QED
    BY <1>1, <1>3, <2>1
<1>5. QED
  BY <1>4 DEF TextAtMost, longest

\* The texts that get_by_date_range compares, as far as they tell: the one of a
\* whole second of UTC in a bound, and the one of a payment's time of UTC
LEMMA BoundText ==
    ASSUME NEW t \in WholeSeconds
    PROVE  /\ t.second \in Nat
           /\ IsoText(t) \in Seq(Int) /\ Len(IsoText(t)) = 3
           /\ IsoText(t)[1] = t.second
           /\ IsoText(t)[2] = Plus
<1>1. t \in Time /\ t.fraction = 0 /\ t.offset = {0}
  BY TimesAssumption DEF WholeSeconds, Utc
<1>2. (CHOOSE h \in t.offset : TRUE) = 0
  BY <1>1
<1>3. IsoText(t) = (<<t.second>> \o <<>>) \o <<Plus, 0>>
  BY <1>1, <1>2 DEF IsoText, Fraction, Sign
<1>4. t.second \in Nat
  BY <1>1 DEF Time
<1>5. <<t.second>> \in Seq(Int) /\ <<t.second>> \o <<>> = <<t.second>>
  BY <1>4
<1>6. <<Plus, 0>> \in Seq(Int) /\ Len(<<Plus, 0>>) = 2 /\ <<Plus, 0>>[1] = Plus
  BY DEF Plus
<1>7. QED
  BY <1>3, <1>4, <1>5, <1>6, ConcatProperties

LEMMA PaymentText ==
    ASSUME NEW t \in Time, Utc(t)
    PROVE  /\ t.second \in Nat /\ t.fraction \in Nat
           /\ StoredText(t) \in Seq(Int) /\ Len(StoredText(t)) >= 2
           /\ StoredText(t)[1] = t.second
           /\ StoredText(t)[2] \in {Dot, Zulu}
<1> DEFINE start == <<t.second>> \o Fraction(t)
<1>1. t.second \in Nat /\ t.fraction \in Nat
  BY DEF Time
<1>2. StoredText(t) = start \o <<Zulu>>
  BY DEF StoredText, Utc
<1>3. <<t.second>> \in Seq(Int) /\ Len(<<t.second>>) = 1 /\ <<t.second>>[1] = t.second
  BY <1>1
<1>4. <<Zulu>> \in Seq(Int) /\ Len(<<Zulu>>) = 1 /\ <<Zulu>>[1] = Zulu
  BY DEF Zulu
<1>5. CASE t.fraction = 0
  <2>1. start = <<t.second>>
    BY <1>1, <1>5 DEF Fraction
  <2> HIDE DEF start
  <2>2. QED
    BY <1>1, <1>2, <1>3, <1>4, <2>1, ConcatProperties
<1>6. CASE t.fraction # 0
  <2> DEFINE micros == <<Dot, t.fraction>>
  <2>1. micros \in Seq(Int) /\ Len(micros) = 2 /\ micros[1] = Dot
    BY <1>1 DEF Dot
  <2> DEFINE seconds == <<t.second>>
  <2>2. seconds \in Seq(Int) /\ Len(seconds) = 1 /\ seconds[1] = t.second
    BY <1>3
  <2>3. start = seconds \o micros
    BY <1>6 DEF Fraction
  <2> HIDE DEF start, micros, seconds
  <2>4. start \in Seq(Int) /\ Len(start) = 3 /\ start[1] = t.second /\ start[2] = Dot
    <3>1. /\ start \in Seq(Int) /\ Len(start) = Len(seconds) + Len(micros)
          /\ \A i \in 1 .. Len(seconds) + Len(micros) :
                start[i] = IF i <= Len(seconds) THEN seconds[i]
                                                ELSE micros[i - Len(seconds)]
      BY <2>1, <2>2, <2>3, ConcatProperties
    <3>2. Len(start) = 3 /\ start[1] = seconds[1] /\ start[2] = micros[1]
      BY <2>1, <2>2, <3>1
    <3>3. QED
      BY <2>1, <2>2, <3>1, <3>2
  <2>5. QED
    BY <1>1, <1>2, <1>4, <2>4, ConcatProperties
<1>7. QED
  BY <1>5, <1>6

\* The mark after the seconds puts a payment after a bound of the same second
LEMMA TextIsInRange ==
    ASSUME NEW b \in WholeSeconds, NEW t \in Time, Utc(t)
    PROVE  /\ TextAtMost(IsoText(b), StoredText(t)) <=> NotAfter(b, t)
           /\ TextAtMost(StoredText(t), IsoText(b)) <=> ~NotAfter(b, t)
<1> DEFINE limit == IsoText(b)
           text   == StoredText(t)
<1>1. /\ limit \in Seq(Int) /\ Len(limit) = 3
      /\ limit[1] = b.second /\ limit[2] = Plus /\ b.second \in Nat
  BY BoundText
<1>2. /\ text \in Seq(Int) /\ Len(text) \in Nat /\ Len(text) >= 2
      /\ text[1] = t.second /\ text[2] \in {Dot, Zulu}
      /\ t.second \in Nat /\ t.fraction \in Nat
  BY PaymentText
<1>3. NotAfter(b, t) <=> b.second <= t.second
  BY <1>1, <1>2 DEF NotAfter, WholeSeconds
<1> HIDE DEF limit, text
<1>4. CASE b.second # t.second
  <2>1. DifferAfter(limit, text, 0) /\ DifferAfter(text, limit, 0)
    BY <1>1, <1>2, <1>4 DEF DifferAfter
  <2>2. /\ TextAtMost(limit, text) <=> limit[0 + 1] < text[0 + 1]
        /\ TextAtMost(text, limit) <=> text[0 + 1] < limit[0 + 1]
    BY <2>1, FirstDifference
  <2>3. QED
    BY <1>1, <1>2, <1>3, <1>4, <2>2 DEF limit, text
<1>5. CASE b.second = t.second
  <2>1. limit[1 + 1] < text[1 + 1] /\ ~(text[1 + 1] < limit[1 + 1])
    BY <1>1, <1>2 DEF Plus, Dot, Zulu
  <2>2. DifferAfter(limit, text, 1) /\ DifferAfter(text, limit, 1)
    BY <1>1, <1>2, <1>5, <2>1 DEF DifferAfter, Plus, Dot, Zulu
  <2>3. TextAtMost(limit, text) /\ ~TextAtMost(text, limit)
    BY <2>1, <2>2, FirstDifference
  <2>4. QED
    BY <1>1, <1>2, <1>3, <1>5, <2>3 DEF limit, text
<1>6. QED
  BY <1>4, <1>5

(***************************************************************************)
(* Between whole seconds of UTC, get_by_date_range leaves out no event of  *)
(* UTC from its start to before its end and takes in none outside of       *)
(* [start, end], whatever the trail and the times.                         *)
(***************************************************************************)
THEOREM RangesAreRight == Spec => []RangesHoldTheirEvents
<1>1. TypeOK => RangesHoldTheirEvents
  <2> SUFFICES ASSUME TypeOK, NEW start \in WholeSeconds, NEW end \in WholeSeconds,
                      NEW p \in UtcRows
               PROVE  /\ NotAfter(start, TimeOf(p.record)) /\ ~NotAfter(end, TimeOf(p.record))
                           => p \in GetByDateRange(start, end)
                      /\ p \in GetByDateRange(start, end)
                           => NotAfter(start, TimeOf(p.record)) /\ NotAfter(TimeOf(p.record), end)
    BY DEF RangesHoldTheirEvents
  <2>0. p \in table /\ Utc(TimeOf(p.record))
    BY DEF UtcRows
  <2>1. TimeOf(p.record) \in Time
    BY <2>0, TimesAssumption DEF TypeOK, Placed
  <2>2. p \in GetByDateRange(start, end)
          <=> NotAfter(start, TimeOf(p.record)) /\ ~NotAfter(end, TimeOf(p.record))
    BY <2>0, <2>1, TextIsInRange DEF GetByDateRange
  <2>3. ~NotAfter(end, TimeOf(p.record)) => NotAfter(TimeOf(p.record), end)
    <3>1. end.second \in Nat /\ end.fraction = 0
      BY BoundText DEF WholeSeconds
    <3>2. TimeOf(p.record).second \in Nat /\ TimeOf(p.record).fraction \in Nat
      BY <2>0, <2>1, PaymentText
    <3>3. QED
      BY <3>1, <3>2 DEF NotAfter
  <2>4. QED
    BY <2>2, <2>3
<1>2. QED
  BY <1>1, TypeCorrect, PTL

=============================================================================
