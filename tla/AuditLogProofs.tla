--------------------------- MODULE AuditLogProofs ---------------------------
(***************************************************************************)
(* Proofs about AuditLog, for any number of threads, any records and any   *)
(* row ids.                                                                *)
(*                                                                         *)
(* The invariant behind them says what a call that meets no other may rely *)
(* on at each of its steps.  It needs to know that nobody left a           *)
(* transaction open before it: else the call would start in the middle of  *)
(* somebody's transaction.                                                 *)
(***************************************************************************)
EXTENDS AuditLog, TLAPS

\* The stages in which a thread is going to run COMMIT, or see it run
Closing == {"bind", "step", "commit", "end"}

TxnIsHeld == txn => \E w \in Writers : pc[w] \in Closing

DiskIsBehind == Ids(disk) \subseteq Ids(table)

\* Where a call that has met no other stands
LoneCall(w) ==
    /\ Open = {w}
    /\ pc[w] = "bind" => txn
    /\ pc[w] = "step" => txn /\ bound = row[w]
    /\ pc[w] \in {"commit", "end"} =>
         txn /\ \A r \in row[w] : RowId(r.record) \in Ids(table)
    /\ pc[w] = "done" => \A r \in row[w] : RowId(r.record) \in Ids(disk)

IInv ==
    /\ TypeOK
    /\ TxnIsHeld
    /\ DiskIsBehind
    /\ \A w \in Open \ contended : LoneCall(w)
    /\ LoneWriteIsKept

-----------------------------------------------------------------------------
(***************************************************************************)
(* INSERT OR REPLACE adds an id and takes none away.                       *)
(***************************************************************************)
LEMMA UpsertIds ==
    ASSUME NEW rows, NEW r, NEW seq
    PROVE  Ids(Upsert(rows, r, seq)) = Ids(rows) \union {RowId(r.record)}
<1> DEFINE new == [record |-> r.record, created_at |-> r.created_at, seq |-> seq]
<1>1. Upsert(rows, r, seq)
        = {p \in rows : RowId(p.record) # RowId(r.record)} \union {new}
  BY DEF Upsert
<1>2. new.record = r.record
  OBVIOUS
<1> HIDE DEF new
<1>3. ASSUME NEW i \in Ids(Upsert(rows, r, seq))
      PROVE  i \in Ids(rows) \union {RowId(r.record)}
  <2>1. PICK p \in Upsert(rows, r, seq) : i = RowId(p.record)
    BY <1>3 DEF Ids
  <2>2. CASE p \in rows
    BY <2>1, <2>2 DEF Ids
  <2>3. CASE p = new
    BY <2>1, <2>3, <1>2
  <2>4. QED
    BY <1>1, <2>1, <2>2, <2>3
<1>4. ASSUME NEW i \in Ids(rows) \union {RowId(r.record)}
      PROVE  i \in Ids(Upsert(rows, r, seq))
  <2>1. CASE i = RowId(r.record)
    BY <1>1, <1>2, <2>1 DEF Ids
  <2>2. CASE i # RowId(r.record)
    <3>1. PICK p \in rows : i = RowId(p.record)
      BY <1>4, <2>2 DEF Ids
    <3>2. p \in Upsert(rows, r, seq)
      BY <1>1, <2>2, <3>1
    <3>3. QED
      BY <3>1, <3>2 DEF Ids
  <2>3. QED
    BY <2>1, <2>2
<1>5. QED
  BY <1>3, <1>4

\* INSERT OR REPLACE of a typed row into typed rows
LEMMA UpsertType ==
    ASSUME NEW rows \in SUBSET Placed, NEW r \in Rows, NEW seq \in Nat
    PROVE  Upsert(rows, r, seq) \subseteq Placed
BY DEF Upsert, Placed, Rows

(***************************************************************************)
(* The initial state satisfies the invariant.                              *)
(***************************************************************************)
LEMMA InitIInv == Init => IInv
<1> SUFFICES ASSUME Init PROVE IInv
  OBVIOUS
<1>1. TypeOK
  BY DEF Init, TypeOK, Open, Stages
<1>2. TxnIsHeld /\ DiskIsBehind /\ LoneWriteIsKept
  BY DEF Init, TxnIsHeld, DiskIsBehind, LoneWriteIsKept
<1>3. Open = {}
  BY DEF Init, Open
<1>4. QED
  BY <1>1, <1>2, <1>3 DEF IInv

(***************************************************************************)
(* Type correctness, action by action.                                     *)
(***************************************************************************)
\* A call that ends leaves its worker idle, without a row and uncontended
LEMMA CloseType ==
    ASSUME TypeOK, NEW w \in Writers, Close(w)
    PROVE  /\ pc' \in [Writers -> Stages]
           /\ row' \in [Writers -> SUBSET Rows]
           /\ \A v \in Writers : pc'[v] = "idle" <=> row'[v] = {}
           /\ \A v \in Writers : \A r, s \in row'[v] : r = s
           /\ contended' \subseteq Open'
<1>1. /\ pc' = [pc EXCEPT ![w] = "idle"]
      /\ row' = [row EXCEPT ![w] = {}]
      /\ contended' = contended \ {w}
  BY DEF Close, Goto
<1>2. /\ pc' \in [Writers -> Stages]
      /\ row' \in [Writers -> SUBSET Rows]
  BY <1>1 DEF TypeOK, Stages
<1>3. \A v \in Writers : /\ pc'[v] = "idle" <=> row'[v] = {}
                         /\ \A r, s \in row'[v] : r = s
  BY <1>1 DEF TypeOK
<1>4. contended' \subseteq Open'
  BY <1>1 DEF TypeOK, Open
<1>5. QED
  BY <1>2, <1>3, <1>4

\* A call that returns does so too, and acknowledges a record
LEMMA ReturnType ==
    ASSUME TypeOK, NEW w \in Writers, Return(w)
    PROVE  /\ pc' \in [Writers -> Stages]
           /\ row' \in [Writers -> SUBSET Rows]
           /\ \A v \in Writers : pc'[v] = "idle" <=> row'[v] = {}
           /\ \A v \in Writers : \A r, s \in row'[v] : r = s
           /\ contended' \subseteq Open'
           /\ acked' \subseteq [record : Records, alone : BOOLEAN]
<1>1. Close(w)
  BY DEF Return
<1>2. \A r \in row[w] : r.record \in Records
  BY DEF TypeOK, Rows
<1>3. acked' \subseteq [record : Records, alone : BOOLEAN]
  <2> SUFFICES ASSUME NEW a \in acked'
               PROVE  a \in [record : Records, alone : BOOLEAN]
    OBVIOUS
  <2> DEFINE alone == w \notin contended
  <2>1. alone \in BOOLEAN
    OBVIOUS
  <2>2. acked' = acked \union {[record |-> r.record, alone |-> alone] : r \in row[w]}
    BY DEF Return
  <2> HIDE DEF alone
  <2>3. CASE a \in acked
    BY <2>3 DEF TypeOK
  <2>4. CASE a \notin acked
    BY <1>2, <2>1, <2>2, <2>4
  <2>5. QED
    BY <2>3, <2>4
<1>4. QED
  BY <1>1, <1>3, CloseType

\* Every step keeps the types
LEMMA NextTypeOK == TypeOK /\ [Next]_vars => TypeOK'
<1> SUFFICES ASSUME TypeOK, [Next]_vars PROVE TypeOK'
  OBVIOUS
<1> USE DEF TypeOK, Open, Stages
<1>1. ASSUME NEW w \in Writers, NEW r \in Records, Start(w, r) PROVE TypeOK'
  <2> DEFINE new == [record |-> r, created_at |-> now]
  <2>1. new \in Rows
    BY DEF Rows
  <2>2. row' = [row EXCEPT ![w] = {new}] /\ pc' = [pc EXCEPT ![w] = "execute"]
    BY <1>1 DEF Start, Goto
  <2> HIDE DEF new
  <2>3. row' \in [Writers -> SUBSET Rows] /\ pc' \in [Writers -> Stages]
    BY <2>1, <2>2
  <2>4. \A v \in Writers : pc'[v] = "idle" <=> row'[v] = {}
    BY <2>2
  <2>5. \A v \in Writers : \A s, t \in row'[v] : s = t
    BY <2>2
  <2>6. contended' \subseteq Open' /\ submitted' \subseteq Records
    BY <1>1, <2>2 DEF Start
  <2>7. QED
    BY <1>1, <2>3, <2>4, <2>5, <2>6 DEF Start
<1>2. ASSUME NEW w \in Writers, Execute(w) PROVE TypeOK'
  BY <1>2 DEF Execute, Goto
<1>3. ASSUME NEW w \in Writers, Begin(w) PROVE TypeOK'
  BY <1>3 DEF Begin, Goto, Raise, Close
<1>4. ASSUME NEW w \in Writers, Bind(w) PROVE TypeOK'
  BY <1>4 DEF Bind, Goto
<1>5. ASSUME NEW w \in Writers, Step(w) PROVE TypeOK'
  <2>1. PICK r \in bound : table' = Upsert(table, r, nextSeq)
    BY <1>5 DEF Step
  <2>2. table' \subseteq Placed
    BY <2>1, UpsertType
  <2>3. QED
    BY <1>5, <2>2 DEF Step, Goto
<1>6. ASSUME NEW w \in Writers, Misuse(w) PROVE TypeOK'
  BY <1>6, CloseType DEF Misuse, Raise
<1>7. ASSUME NEW w \in Writers, Commit(w) PROVE TypeOK'
  <2>1. CASE txn
    BY <1>7, <2>1 DEF Commit, Goto
  <2>2. CASE ~txn
    BY <1>7, <2>2, ReturnType DEF Commit
  <2>3. QED
    BY <2>1, <2>2
<1>8. ASSUME NEW w \in Writers, End(w) PROVE TypeOK'
  <2>1. /\ txn' = FALSE /\ disk' \in {disk, table}
        /\ UNCHANGED <<now, bound, table, nextSeq, submitted, acked>>
    BY <1>8 DEF End, Raise
  <2>2. CASE txn
    BY <1>8, <2>1, <2>2 DEF End, Goto
  <2>3. CASE ~txn
    <3>1. Close(w)
      BY <1>8, <2>3 DEF End, Raise
    <3>2. QED
      BY <2>1, <3>1, CloseType
  <2>4. QED
    BY <2>2, <2>3
<1>9. ASSUME NEW w \in Writers, Done(w) PROVE TypeOK'
  BY <1>9, ReturnType DEF Done
<1>10. CASE Tick
  BY <1>10 DEF Tick
<1>11. CASE Crash
  BY <1>11 DEF Crash
<1>12. CASE UNCHANGED vars
  BY <1>12 DEF vars
<1>13. QED
  BY <1>1, <1>2, <1>3, <1>4, <1>5, <1>6, <1>7, <1>8, <1>9, <1>10, <1>11, <1>12
     DEF Next, Write

(***************************************************************************)
(* AuditLog is type correct.                                               *)
(***************************************************************************)
THEOREM TypeCorrect == Spec => []TypeOK
<1>1. Init => TypeOK
  BY InitIInv DEF IInv
<1>2. QED
  BY <1>1, NextTypeOK, PTL DEF Spec

-----------------------------------------------------------------------------
(***************************************************************************)
(* A thread that leaves an open transaction leaves it to another that will *)
(* close it.                                                               *)
(***************************************************************************)
LEMMA NextTxnIsHeld == TypeOK /\ TxnIsHeld /\ [Next]_vars => TxnIsHeld'
<1> SUFFICES ASSUME TypeOK, TxnIsHeld, [Next]_vars PROVE TxnIsHeld'
  OBVIOUS
<1> USE DEF TypeOK, TxnIsHeld, Closing, Stages
<1>1. ASSUME NEW w \in Writers, NEW r \in Records, Start(w, r) PROVE TxnIsHeld'
  BY <1>1 DEF Start, Goto
<1>2. ASSUME NEW w \in Writers, Execute(w) PROVE TxnIsHeld'
  BY <1>2 DEF Execute, Goto
<1>3. ASSUME NEW w \in Writers, Begin(w) PROVE TxnIsHeld'
  BY <1>3 DEF Begin, Goto, Raise, Close
<1>4. ASSUME NEW w \in Writers, Bind(w) PROVE TxnIsHeld'
  BY <1>4 DEF Bind, Goto
<1>5. ASSUME NEW w \in Writers, Step(w) PROVE TxnIsHeld'
  BY <1>5 DEF Step, Goto
<1>6. ASSUME NEW w \in Writers, Misuse(w) PROVE TxnIsHeld'
  BY <1>6 DEF Misuse, Raise, Close, Goto
<1>7. ASSUME NEW w \in Writers, Commit(w) PROVE TxnIsHeld'
  BY <1>7 DEF Commit, Return, Close, Goto
<1>8. ASSUME NEW w \in Writers, End(w) PROVE TxnIsHeld'
  BY <1>8 DEF End
<1>9. ASSUME NEW w \in Writers, Done(w) PROVE TxnIsHeld'
  BY <1>9 DEF Done, Return, Close, Goto
<1>10. CASE Tick
  BY <1>10 DEF Tick
<1>11. CASE Crash
  BY <1>11 DEF Crash
<1>12. CASE UNCHANGED vars
  BY <1>12 DEF vars
<1>13. QED
  BY <1>1, <1>2, <1>3, <1>4, <1>5, <1>6, <1>7, <1>8, <1>9, <1>10, <1>11, <1>12
     DEF Next, Write

(***************************************************************************)
(* However calls overlap, no transaction outlives the calls.               *)
(***************************************************************************)
THEOREM TransactionsEnd == Spec => []NoStrandedTransaction
<1>1. Init => TypeOK /\ TxnIsHeld
  BY InitIInv DEF IInv
<1>2. TypeOK /\ TxnIsHeld => NoStrandedTransaction
  BY DEF TxnIsHeld, NoStrandedTransaction, Closing, Open
<1>3. QED
  BY <1>1, <1>2, NextTypeOK, NextTxnIsHeld, PTL DEF Spec

-----------------------------------------------------------------------------
(***************************************************************************)
(* Every step keeps the ids of the disk, and the connection's own view     *)
(* keeps up with it.                                                       *)
(***************************************************************************)
LEMMA DiskGrows ==
    ASSUME DiskIsBehind, [Next]_vars
    PROVE  Ids(disk) \subseteq Ids(disk') /\ DiskIsBehind'
<1> USE DEF DiskIsBehind
<1>1. CASE UNCHANGED <<table, disk>>
  BY <1>1
<1>2. ASSUME NEW w \in Writers, Step(w)
      PROVE  Ids(disk) \subseteq Ids(disk') /\ DiskIsBehind'
  <2>1. PICK r \in bound : table' = Upsert(table, r, nextSeq)
    BY <1>2 DEF Step
  <2>2. Ids(table') = Ids(table) \union {RowId(r.record)}
    BY <2>1, UpsertIds
  <2>3. disk' = disk \/ disk' = table'
    BY <1>2 DEF Step
  <2>4. QED
    BY <2>2, <2>3
<1>3. ASSUME NEW w \in Writers, End(w)
      PROVE  Ids(disk) \subseteq Ids(disk') /\ DiskIsBehind'
  BY <1>3 DEF End
<1>4. CASE Crash
  BY <1>4 DEF Crash
<1>5. QED
  BY <1>1, <1>2, <1>3, <1>4
     DEF Next, Write, Start, Execute, Begin, Bind, Misuse, Commit, Done, Tick, vars

(***************************************************************************)
(* The trail only grows, by any number of threads and through restarts.    *)
(***************************************************************************)
THEOREM TrailGrows == Spec => StoredIdsStay
<1>1. Init => DiskIsBehind
  BY InitIInv DEF IInv
<1>2. DiskIsBehind /\ [Next]_vars => DiskIsBehind' /\ [Ids(disk) \subseteq Ids(disk')]_vars
  BY DiskGrows
<1>3. QED
  BY <1>1, <1>2, PTL DEF Spec, StoredIdsStay

-----------------------------------------------------------------------------
(***************************************************************************)
(* While a call meets no other, only its own thread moves in write.        *)
(***************************************************************************)
LEMMA OnlyTheLoneMoves ==
    ASSUME IInv, NEW v \in Writers, pc[v] # "idle", NEW stage \in Stages,
           pc' = [pc EXCEPT ![v] = stage],
           contended' = contended \/ (stage = "idle" /\ contended' = contended \ {v}),
           NEW w \in Open' \ contended'
    PROVE  w = v /\ w \notin contended /\ LoneCall(w) /\ Open' = {w} /\ stage # "idle"
<1>1. pc \in [Writers -> Stages]
  BY DEF IInv, TypeOK
<1>2. Open' \subseteq Open /\ v \in Open /\ (stage = "idle" => v \notin Open')
  BY <1>1 DEF Open
<1>3. w \in Open \ contended
  BY <1>2
<1>4. LoneCall(w) /\ Open = {w}
  BY <1>3 DEF IInv, LoneCall
<1>5. QED
  BY <1>2, <1>3, <1>4

\* Before its BEGIN a lone call finds no transaction
LEMMA LoneFindsNoTxn ==
    ASSUME IInv, NEW w \in Writers, LoneCall(w), pc[w] \in {"execute", "begin"}
    PROVE  ~txn
BY DEF IInv, TxnIsHeld, LoneCall, Open, Closing

\* A lone call stays on its way, step by step, until it returns
LEMMA NextLoneCall ==
    ASSUME IInv, [Next]_vars, NEW w \in Open' \ contended'
    PROVE  LoneCall(w)'
<1> USE DEF Stages
<1>t. TypeOK /\ pc \in [Writers -> Stages] /\ row \in [Writers -> SUBSET Rows]
  BY DEF IInv, TypeOK
<1>w. w \in Writers
  BY DEF Open
<1>1. ASSUME NEW v \in Writers, NEW r \in Records, Start(v, r) PROVE LoneCall(w)'
  <2>1. pc' = [pc EXCEPT ![v] = "execute"] /\ pc[v] = "idle"
    BY <1>1 DEF Start, Goto
  <2>2. Open' = Open \union {v}
    BY <1>t, <2>1 DEF Open
  <2>3. Open = {}
    BY <1>1, <2>2 DEF Start
  <2>4. w = v /\ Open' = {w}
    BY <2>2, <2>3
  <2>5. QED
    BY <1>t, <2>1, <2>4 DEF LoneCall
<1>2. ASSUME NEW v \in Writers, Execute(v) PROVE LoneCall(w)'
  <2>1. pc[v] = "execute" /\ contended' = contended
    BY <1>2 DEF Execute
  <2>2. pc' = [pc EXCEPT ![v] = "step"] \/ pc' = [pc EXCEPT ![v] = "begin"]
    BY <1>2 DEF Execute, Goto
  <2>3. w = v /\ LoneCall(w) /\ Open' = {w}
    BY <2>1, <2>2, OnlyTheLoneMoves
  <2>4. ~txn
    BY <2>1, <2>3, LoneFindsNoTxn
  <2>5. pc' = [pc EXCEPT ![v] = "begin"]
    BY <1>2, <2>4 DEF Execute, Goto
  <2>6. QED
    BY <1>t, <2>3, <2>5 DEF LoneCall
<1>3. ASSUME NEW v \in Writers, Begin(v) PROVE LoneCall(w)'
  <2>1. pc[v] = "begin" /\ txn'
    BY <1>3 DEF Begin
  <2>2. \/ pc' = [pc EXCEPT ![v] = "bind"] /\ contended' = contended
        \/ pc' = [pc EXCEPT ![v] = "idle"] /\ contended' = contended \ {v}
    BY <1>3 DEF Begin, Goto, Raise, Close
  <2>3. w = v /\ Open' = {w} /\ pc' = [pc EXCEPT ![v] = "bind"]
    BY <2>1, <2>2, OnlyTheLoneMoves
  <2>4. QED
    BY <1>t, <2>1, <2>3 DEF LoneCall
<1>4. ASSUME NEW v \in Writers, Bind(v) PROVE LoneCall(w)'
  <2>1. /\ pc[v] = "bind" /\ pc' = [pc EXCEPT ![v] = "step"]
        /\ contended' = contended /\ txn' = txn /\ row' = row /\ bound' = row[v]
    BY <1>4 DEF Bind, Goto
  <2>2. w = v /\ LoneCall(w) /\ Open' = {w}
    BY <2>1, OnlyTheLoneMoves
  <2>3. QED
    BY <1>t, <2>1, <2>2 DEF LoneCall
<1>5. ASSUME NEW v \in Writers, Step(v) PROVE LoneCall(w)'
  <2>1. /\ pc[v] = "step" /\ pc' = [pc EXCEPT ![v] = "commit"]
        /\ contended' = contended /\ txn' = txn /\ row' = row
    BY <1>5 DEF Step, Goto
  <2>2. w = v /\ LoneCall(w) /\ Open' = {w}
    BY <2>1, OnlyTheLoneMoves
  <2>3. txn /\ bound = row[w]
    BY <2>1, <2>2 DEF LoneCall
  <2>4. PICK r \in bound : table' = Upsert(table, r, nextSeq)
    BY <1>5 DEF Step
  <2>5. \A s \in row[w] : s = r
    BY <1>w, <2>3, <2>4 DEF IInv, TypeOK
  <2>6. RowId(r.record) \in Ids(table')
    BY <2>4, UpsertIds
  <2>7. QED
    BY <1>t, <2>1, <2>2, <2>3, <2>5, <2>6 DEF LoneCall
<1>6. ASSUME NEW v \in Writers, Misuse(v) PROVE LoneCall(w)'
  <2>1. /\ pc[v] # "idle" /\ pc' = [pc EXCEPT ![v] = "idle"]
        /\ contended' = contended \ {v}
    BY <1>6 DEF Misuse, Raise, Close, Goto
  <2>2. QED
    BY <2>1, OnlyTheLoneMoves
<1>7. ASSUME NEW v \in Writers, Commit(v) PROVE LoneCall(w)'
  <2>1. \/ /\ pc' = [pc EXCEPT ![v] = "end"] /\ contended' = contended
           /\ txn' = txn /\ row' = row /\ table' = table
        \/ pc' = [pc EXCEPT ![v] = "idle"] /\ contended' = contended \ {v}
    BY <1>7 DEF Commit, Return, Close, Goto
  <2>2. pc[v] = "commit"
    BY <1>7 DEF Commit
  <2>3. /\ w = v /\ LoneCall(w) /\ Open' = {w}
        /\ pc' = [pc EXCEPT ![v] = "end"]
        /\ txn' = txn /\ row' = row /\ table' = table
    BY <2>1, <2>2, OnlyTheLoneMoves
  <2>4. QED
    BY <1>t, <2>2, <2>3 DEF LoneCall, Ids
<1>8. ASSUME NEW v \in Writers, End(v) PROVE LoneCall(w)'
  <2>1. \/ /\ pc' = [pc EXCEPT ![v] = "done"] /\ contended' = contended
           /\ row' = row /\ disk' = table
        \/ pc' = [pc EXCEPT ![v] = "idle"] /\ contended' = contended \ {v}
    BY <1>8 DEF End, Raise, Close, Goto
  <2>2. pc[v] = "end"
    BY <1>8 DEF End
  <2>3. /\ w = v /\ LoneCall(w) /\ Open' = {w}
        /\ pc' = [pc EXCEPT ![v] = "done"] /\ row' = row /\ disk' = table
    BY <2>1, <2>2, OnlyTheLoneMoves
  <2>4. QED
    BY <1>t, <2>2, <2>3 DEF LoneCall, Ids
<1>9. ASSUME NEW v \in Writers, Done(v) PROVE LoneCall(w)'
  <2>1. /\ pc[v] = "done" /\ pc' = [pc EXCEPT ![v] = "idle"]
        /\ contended' = contended \ {v}
    BY <1>9 DEF Done, Return, Close, Goto
  <2>2. QED
    BY <2>1, OnlyTheLoneMoves
<1>10. CASE Tick \/ UNCHANGED vars
  <2>1. UNCHANGED <<pc, row, txn, bound, table, disk, contended>>
    BY <1>10 DEF Tick, vars
  <2>2. LoneCall(w) /\ Open' = Open
    BY <2>1 DEF IInv, Open
  <2>3. QED
    BY <2>1, <2>2 DEF LoneCall, Ids
<1>11. CASE Crash
  BY <1>11 DEF Crash, Open
<1>12. QED
  BY <1>1, <1>2, <1>3, <1>4, <1>5, <1>6, <1>7, <1>8, <1>9, <1>10, <1>11
     DEF Next, Write

(***************************************************************************)
(* Of the two places where write returns, a lone call reaches only the one *)
(* after its own COMMIT.                                                   *)
(***************************************************************************)
LEMMA NextKept ==
    ASSUME IInv, [Next]_vars
    PROVE  LoneWriteIsKept'
<1>1. LoneWriteIsKept /\ Ids(disk) \subseteq Ids(disk')
  BY DiskGrows DEF IInv
<1>2. CASE acked' = acked
  BY <1>1, <1>2 DEF LoneWriteIsKept
<1>3. ASSUME NEW w \in Writers, Return(w),
             w \notin contended => \A r \in row[w] : RowId(r.record) \in Ids(disk)
      PROVE  LoneWriteIsKept'
  <2> SUFFICES ASSUME NEW a \in acked', a.alone
               PROVE  RowId(a.record) \in Ids(disk')
    BY DEF LoneWriteIsKept
  <2>1. CASE a \in acked
    BY <1>1, <2>1 DEF LoneWriteIsKept
  <2>2. CASE a \notin acked
    <3>1. PICK r \in row[w] : a = [record |-> r.record, alone |-> w \notin contended]
      BY <1>3, <2>2 DEF Return
    <3>2. w \notin contended /\ a.record = r.record
      BY <3>1
    <3>3. QED
      BY <1>1, <1>3, <3>2
  <2>3. QED
    BY <2>1, <2>2
<1>4. ASSUME NEW w \in Writers, Commit(w) PROVE LoneWriteIsKept'
  <2>1. CASE txn
    BY <1>2, <1>4, <2>1 DEF Commit
  <2>2. CASE ~txn
    <3>1. Return(w) /\ pc[w] = "commit" /\ w \in Open
      BY <1>4, <2>2 DEF Commit, Open
    <3>2. w \in contended
      BY <2>2, <3>1 DEF IInv, LoneCall
    <3>3. QED
      BY <1>3, <3>1, <3>2
  <2>3. QED
    BY <2>1, <2>2
<1>5. ASSUME NEW w \in Writers, Done(w) PROVE LoneWriteIsKept'
  <2>1. Return(w) /\ pc[w] = "done" /\ w \in Open
    BY <1>5 DEF Done, Open
  <2>2. w \notin contended => \A r \in row[w] : RowId(r.record) \in Ids(disk)
    BY <2>1 DEF IInv, LoneCall
  <2>3. QED
    BY <1>3, <2>1, <2>2
<1>6. QED
  BY <1>2, <1>4, <1>5
     DEF Next, Write, Start, Execute, Begin, Bind, Step, Misuse, End, Raise, Tick,
         Crash, vars

\* Every step keeps the invariant
LEMMA Inductive == IInv /\ [Next]_vars => IInv'
BY NextTypeOK, NextTxnIsHeld, DiskGrows, NextLoneCall, NextKept DEF IInv

(***************************************************************************)
(* A write that returned without having met another is on disk for good,   *)
(* whatever the other threads and the process did before and do after it.  *)
(***************************************************************************)
THEOREM LoneWritesAreKept == Spec => []LoneWriteIsKept
<1>1. IInv => LoneWriteIsKept
  BY DEF IInv
<1>2. QED
  BY <1>1, InitIInv, Inductive, PTL DEF Spec

-----------------------------------------------------------------------------
(***************************************************************************)
(* AuditLog implements AuditStore.  What IInv says of ids is not enough:   *)
(* the abstract store keeps records.  The commit of a whole table is a     *)
(* Persist of all its records at once, for which it must be known that     *)
(* they were handed to write and that no two of them share an id; and a    *)
(* lone call returns with its own record on disk, and not just with its    *)
(* id.                                                                     *)
(***************************************************************************)
Recorded(rows) == {p.record : p \in rows}

HandedIn ==
    /\ \A w \in Writers : Recorded(row[w]) \subseteq submitted
    /\ Recorded(bound) \subseteq submitted
    /\ Recorded(table) \subseteq submitted
    /\ Recorded(disk) \subseteq submitted
    /\ Recorded(acked) \subseteq submitted

OneRowPerId(rows) ==
    \A p, q \in rows : RowId(p.record) = RowId(q.record) => p = q

LoneRecordIsThere(w) ==
    /\ pc[w] \in {"commit", "end"} => Recorded(row[w]) \subseteq Recorded(table)
    /\ pc[w] = "done" => Recorded(row[w]) \subseteq Recorded(disk)

StoreInv ==
    /\ IInv
    /\ HandedIn
    /\ OneRowPerId(table)
    /\ OneRowPerId(disk)
    /\ \A w \in Open \ contended : LoneRecordIsThere(w)

\* INSERT OR REPLACE puts one record in and leaves each id with one row
LEMMA UpsertRecords ==
    ASSUME NEW rows, NEW r, NEW seq
    PROVE  /\ Recorded(Upsert(rows, r, seq)) \subseteq Recorded(rows) \union {r.record}
           /\ r.record \in Recorded(Upsert(rows, r, seq))
           /\ OneRowPerId(rows) => OneRowPerId(Upsert(rows, r, seq))
<1> DEFINE new == [record |-> r.record, created_at |-> r.created_at, seq |-> seq]
           others == {p \in rows : RowId(p.record) # RowId(r.record)}
<1>1. Upsert(rows, r, seq) = others \union {new}
  BY DEF Upsert
<1>2. new.record = r.record
  OBVIOUS
<1> HIDE DEF new
<1>3. Recorded(others) \subseteq Recorded(rows)
  BY DEF Recorded
<1>4. Recorded(others \union {new}) = Recorded(others) \union {r.record}
  BY <1>2 DEF Recorded
<1>5. OneRowPerId(rows) => OneRowPerId(others \union {new})
  BY <1>2 DEF OneRowPerId
<1>6. QED
  BY <1>1, <1>3, <1>4, <1>5

(***************************************************************************)
(* The steps that leave a call alone: it has just started, or moves on     *)
(* along the one path there is without another thread, or stays.           *)
(***************************************************************************)
LoneMove(w) == \/ Execute(w) /\ ~txn
               \/ Begin(w) /\ ~txn
               \/ Bind(w)
               \/ Step(w) /\ txn /\ bound = row[w]
               \/ Commit(w) /\ txn
               \/ End(w) /\ txn

LEMMA LoneSteps ==
    ASSUME IInv, [Next]_vars, NEW w \in Open' \ contended'
    PROVE  \/ Open = {} /\ \E r \in Records : Start(w, r)
           \/ w \in Open \ contended /\ Open' = {w} /\ LoneMove(w)
           \/ w \in Open \ contended /\ (Tick \/ UNCHANGED vars)
<1>t. TypeOK /\ pc \in [Writers -> Stages]
  BY DEF IInv, TypeOK
<1>1. ASSUME NEW v \in Writers, NEW r \in Records, Start(v, r)
      PROVE  Open = {} /\ w = v
  <2>1. Open' = Open \union {v}
    BY <1>1, <1>t DEF Start, Goto, Open, Stages
  <2>2. Open = {}
    BY <1>1, <2>1 DEF Start
  <2>3. QED
    BY <2>1, <2>2
<1>2. ASSUME NEW v \in Writers, Write(v)
      PROVE  w \in Open \ contended /\ Open' = {w} /\ LoneMove(w)
  <2>1. pc[v] # "idle"
    BY <1>2 DEF Write, Execute, Begin, Bind, Step, Misuse, Commit, End, Done
  <2>2. \E stage \in Stages :
           /\ pc' = [pc EXCEPT ![v] = stage]
           /\ contended' = contended \/ (stage = "idle" /\ contended' = contended \ {v})
    <3> USE DEF Goto, Close, Return, Raise, Stages
    <3>1. CASE Execute(v) \/ Bind(v) \/ Step(v)
      BY <3>1 DEF Execute, Bind, Step
    <3>2. CASE Begin(v) \/ Commit(v) \/ End(v)
      BY <3>2 DEF Begin, Commit, End
    <3>3. CASE Misuse(v) \/ Done(v)
      BY <3>3 DEF Misuse, Done
    <3>4. QED
      BY <1>2, <3>1, <3>2, <3>3 DEF Write
  <2>3. PICK stage \in Stages :
           /\ pc' = [pc EXCEPT ![v] = stage]
           /\ contended' = contended \/ (stage = "idle" /\ contended' = contended \ {v})
    BY <2>2
  <2>4. w = v /\ w \notin contended /\ LoneCall(w) /\ Open' = {w} /\ stage # "idle"
    BY <2>1, <2>3, OnlyTheLoneMoves
  <2>5. w \in Open /\ pc'[w] # "idle"
    BY <1>t, <2>1, <2>3, <2>4 DEF Open
  <2>6. LoneMove(w)
    <3>1. ~Misuse(w) /\ ~Done(w)
      BY <1>t, <2>4, <2>5 DEF Misuse, Done, Return, Raise, Close, Goto
    <3>2. Execute(w) \/ Begin(w) => ~txn
      BY <2>4, LoneFindsNoTxn DEF Execute, Begin
    <3>3. Step(w) => txn /\ bound = row[w]
      BY <2>4 DEF LoneCall, Step
    <3>4. Commit(w) \/ End(w) => txn
      BY <2>4 DEF LoneCall, Commit, End
    <3>5. QED
      BY <1>2, <2>4, <3>1, <3>2, <3>3, <3>4 DEF Write, LoneMove
  <2>7. QED
    BY <2>4, <2>5, <2>6
<1>3. CASE Tick \/ UNCHANGED vars
  BY <1>3 DEF Tick, vars, Open
<1>4. ~Crash
  BY DEF Crash, Open
<1>5. QED
  BY <1>1, <1>2, <1>3, <1>4 DEF Next

\* What a call returns was handed to it
LEMMA ReturnHandsOn ==
    ASSUME TypeOK, HandedIn, NEW w \in Writers, Return(w),
           UNCHANGED <<bound, table, disk, submitted>>
    PROVE  HandedIn'
<1>1. \A v \in Writers : Recorded(row'[v]) \subseteq Recorded(row[v])
  BY DEF TypeOK, Return, Close, Recorded
<1>2. Recorded(acked') \subseteq Recorded(acked) \union Recorded(row[w])
  <2> SUFFICES ASSUME NEW a \in acked', a \notin acked
               PROVE  a.record \in Recorded(row[w])
    BY DEF Recorded
  <2>1. PICK r \in row[w] : a = [record |-> r.record, alone |-> w \notin contended]
    BY DEF Return
  <2>2. a.record = r.record
    BY <2>1
  <2>3. QED
    BY <2>2 DEF Recorded
<1>3. QED
  BY <1>1, <1>2 DEF HandedIn

\* A call that raises lets go of its row
LEMMA RaiseHandsOn ==
    ASSUME TypeOK, HandedIn, NEW w \in Writers, Raise(w),
           UNCHANGED <<bound, submitted>>,
           Recorded(table') \subseteq Recorded(table) \union Recorded(disk),
           Recorded(disk') \subseteq Recorded(table) \union Recorded(disk)
    PROVE  HandedIn'
<1>1. \A v \in Writers : Recorded(row'[v]) \subseteq Recorded(row[v])
  BY DEF TypeOK, Raise, Close, Recorded
<1>2. QED
  BY <1>1 DEF HandedIn, Raise

\* Rows go from the callers to the statement, to the table and to the disk
LEMMA NextHandedIn == TypeOK /\ HandedIn /\ [Next]_vars => HandedIn'
<1> SUFFICES ASSUME TypeOK, HandedIn, [Next]_vars PROVE HandedIn'
  OBVIOUS
<1>1. ASSUME NEW w \in Writers, NEW r \in Records, Start(w, r) PROVE HandedIn'
  <2> DEFINE new == [record |-> r, created_at |-> now]
  <2>1. row' = [row EXCEPT ![w] = {new}] /\ submitted' = submitted \union {r}
    BY <1>1 DEF Start
  <2>2. new.record = r
    OBVIOUS
  <2> HIDE DEF new
  <2>3. \A v \in Writers : Recorded(row'[v]) \subseteq submitted'
    BY <2>1, <2>2 DEF TypeOK, HandedIn, Recorded
  <2>4. QED
    BY <1>1, <2>1, <2>3 DEF HandedIn, Start
<1>2. ASSUME NEW w \in Writers, Execute(w) \/ Bind(w) PROVE HandedIn'
  BY <1>2 DEF HandedIn, Execute, Bind
<1>3. ASSUME NEW w \in Writers, Begin(w) PROVE HandedIn'
  BY <1>3, RaiseHandsOn DEF HandedIn, Begin
<1>4. ASSUME NEW w \in Writers, Step(w) PROVE HandedIn'
  <2>1. PICK r \in bound : table' = Upsert(table, r, nextSeq)
    BY <1>4 DEF Step
  <2>2. r.record \in submitted
    BY DEF HandedIn, Recorded
  <2>3. Recorded(table') \subseteq submitted
    BY <2>1, <2>2, UpsertRecords DEF HandedIn
  <2>4. QED
    BY <1>4, <2>3 DEF HandedIn, Step
<1>5. ASSUME NEW w \in Writers, Misuse(w) PROVE HandedIn'
  BY <1>5, RaiseHandsOn DEF Misuse
<1>6. ASSUME NEW w \in Writers, Commit(w) \/ Done(w) PROVE HandedIn'
  BY <1>6, ReturnHandsOn DEF HandedIn, Commit, Done
<1>7. ASSUME NEW w \in Writers, End(w) PROVE HandedIn'
  BY <1>7, RaiseHandsOn DEF HandedIn, End
<1>8. CASE Tick \/ UNCHANGED vars
  BY <1>8 DEF HandedIn, Tick, vars
<1>9. CASE Crash
  BY <1>9 DEF HandedIn, Crash, Recorded
<1>10. QED
  BY <1>1, <1>2, <1>3, <1>4, <1>5, <1>6, <1>7, <1>8, <1>9 DEF Next, Write

\* Only the INSERT, COMMIT and a restart change table or disk
LEMMA TableSteps ==
    ASSUME [Next]_vars
    PROVE  \/ UNCHANGED <<table, disk>>
           \/ \E w \in Writers : Step(w)
           \/ \E w \in Writers : End(w) /\ txn /\ table' = table /\ disk' = table
           \/ Crash
BY DEF Next, Write, Start, Execute, Begin, Bind, Misuse, Commit, End, Done, Tick, vars

\* So an id has one row, in the table as on disk
LEMMA NextOneRow ==
    ASSUME OneRowPerId(table), OneRowPerId(disk), [Next]_vars
    PROVE  OneRowPerId(table') /\ OneRowPerId(disk')
<1>1. ASSUME NEW w \in Writers, Step(w) PROVE OneRowPerId(table') /\ OneRowPerId(disk')
  <2>1. PICK r \in bound : table' = Upsert(table, r, nextSeq)
    BY <1>1 DEF Step
  <2>2. OneRowPerId(table')
    BY <2>1, UpsertRecords
  <2>3. QED
    BY <1>1, <2>2 DEF Step
<1>2. CASE Crash
  BY <1>2 DEF Crash
<1>3. QED
  BY <1>1, <1>2, TableSteps

\* A lone call finds its own record where its INSERT and COMMIT have put it
LEMMA NextLoneRecord ==
    ASSUME StoreInv, [Next]_vars, NEW w \in Open' \ contended'
    PROVE  LoneRecordIsThere(w)'
<1>t. TypeOK /\ IInv /\ w \in Writers
  BY DEF StoreInv, IInv, Open
<1> USE DEF LoneRecordIsThere
<1>1. ASSUME NEW r \in Records, Open = {}, Start(w, r) PROVE LoneRecordIsThere(w)'
  BY <1>1, <1>t DEF Start, Goto, TypeOK
<1>2. ASSUME w \in Open \ contended, LoneMove(w) PROVE LoneRecordIsThere(w)'
  <2>0. LoneRecordIsThere(w)
    BY <1>2 DEF StoreInv
  <2>1. CASE Execute(w) \/ Begin(w) \/ Bind(w)
    BY <1>t, <1>2, <2>1 DEF Execute, Begin, Bind, Goto, LoneMove, Raise, Close, TypeOK
  <2>2. CASE Step(w) /\ bound = row[w]
    <3>1. PICK r \in row[w] : table' = Upsert(table, r, nextSeq)
      BY <2>2 DEF Step
    <3>2. \A s \in row[w] : s = r
      BY <1>t DEF TypeOK
    <3>3. Recorded(row[w]) \subseteq Recorded(table')
      BY <3>1, <3>2, UpsertRecords DEF Recorded
    <3>4. pc'[w] = "commit" /\ row' = row
      BY <1>t, <2>2 DEF Step, Goto, TypeOK
    <3>5. QED
      BY <3>3, <3>4
  <2>3. CASE Commit(w) /\ txn
    BY <1>t, <2>0, <2>3 DEF Commit, Goto, TypeOK, Recorded
  <2>4. CASE End(w) /\ txn
    BY <1>t, <2>0, <2>4 DEF End, Goto, TypeOK, Recorded
  <2>5. QED
    BY <1>2, <2>1, <2>2, <2>3, <2>4 DEF LoneMove
<1>3. ASSUME w \in Open \ contended, Tick \/ UNCHANGED vars PROVE LoneRecordIsThere(w)'
  BY <1>3 DEF StoreInv, Tick, vars, Recorded
<1>4. QED
  BY <1>t, <1>1, <1>2, <1>3, LoneSteps

LEMMA InitStoreInv == Init => StoreInv
BY InitIInv DEF Init, StoreInv, HandedIn, OneRowPerId, Recorded, Open

LEMMA NextStoreInv == StoreInv /\ [Next]_vars => StoreInv'
<1> SUFFICES ASSUME StoreInv, [Next]_vars PROVE StoreInv'
  OBVIOUS
<1>1. IInv'
  BY Inductive DEF StoreInv
<1>2. HandedIn'
  BY NextHandedIn DEF StoreInv, IInv
<1>3. OneRowPerId(table)' /\ OneRowPerId(disk)'
  BY NextOneRow DEF StoreInv, OneRowPerId
<1>4. \A w \in Open' \ contended' : LoneRecordIsThere(w)'
  BY NextLoneRecord
<1>5. QED
  BY <1>1, <1>2, <1>3, <1>4 DEF StoreInv

(***************************************************************************)
(* The abstract state that a state of the connection stands for, and what  *)
(* the steps of write are over there.                                      *)
(***************************************************************************)
Writing == [w \in Writers |-> {r.record : r \in row[w]}]
Trail   == {p.record : p \in disk}

\* A call is open there exactly if it is open here
LEMMA OpenThere == TypeOK => Store!Open = Open
<1>1. \A w \in Writers : {r.record : r \in row[w]} = {} <=> row[w] = {}
  OBVIOUS
<1>2. TypeOK => \A w \in Writers : pc[w] = "idle" <=> row[w] = {}
  BY DEF TypeOK
<1>3. QED
  BY <1>1, <1>2 DEF Store!Open, Open

\* A call that closes here closes there
LEMMA CloseThere ==
    ASSUME TypeOK, NEW w \in Writers, Close(w)
    PROVE  Writing' = [Writing EXCEPT ![w] = {}]
BY DEF TypeOK, Close, Writing

\* So does one that returns, provided its record is on disk or it met another
LEMMA ReturnThere ==
    ASSUME TypeOK, NEW w \in Writers, pc[w] # "idle", Return(w),
           w \in contended \/ Recorded(row[w]) \subseteq Recorded(disk),
           UNCHANGED <<disk, submitted>>
    PROVE  Store!Return(w)
<1>1. PICK r \in row[w] : row[w] = {r}
  BY DEF TypeOK
<1>2. Writing[w] = {r.record}
  BY <1>1 DEF Writing
<1>3. w \in contended \/ r.record \in Trail
  BY <1>1 DEF Recorded, Trail
<1>4. acked' = acked \union {[record |-> r.record, alone |-> w \notin contended]}
  BY <1>1 DEF Return
<1>5. /\ Writing' = [Writing EXCEPT ![w] = {}]
      /\ contended' = contended \ {w}
      /\ Trail' = Trail
  BY CloseThere DEF Return, Close, Trail
<1>6. QED
  BY <1>2, <1>3, <1>4, <1>5 DEF Store!Return, Store!Close, Writing, Trail

\* Or one that raises, which takes another call that it met
LEMMA RaiseThere ==
    ASSUME TypeOK, NEW w \in contended, w \in Writers, Raise(w),
           UNCHANGED <<disk, submitted>>
    PROVE  Store!Raise(w)
<1>1. /\ Writing' = [Writing EXCEPT ![w] = {}]
      /\ contended' = contended \ {w}
      /\ Trail' = Trail
  BY CloseThere DEF Raise, Close, Trail
<1>2. QED
  BY <1>1 DEF Store!Raise, Store!Close, Raise, Writing, Trail

\* While a call is open, to commit the table is to store all its records
LEMMA CommitThere ==
    ASSUME StoreInv, StoreInv', Open # {}, Ids(disk) \subseteq Ids(disk'),
           UNCHANGED <<row, contended, submitted, acked>>
    PROVE  Store!Persist
<1>1. Trail' \subseteq submitted
  BY DEF StoreInv, HandedIn, Recorded, Trail
<1>2. \A r, s \in Trail' : RowId(r) = RowId(s) => r = s
  BY DEF StoreInv, OneRowPerId, Trail
<1>3. \A t \in Trail : \E s \in Trail' : RowId(t) = RowId(s)
  BY DEF Ids, Trail
<1>4. {t \in Trail : \A s \in Trail' : RowId(t) # RowId(s)} = {}
  BY <1>3
<1>5. Store!Open # {}
  BY OpenThere DEF StoreInv, IInv
<1>6. Writing' = Writing
  BY DEF Writing
<1> DEFINE S == Trail'
<1>7. /\ S \in SUBSET submitted
      /\ \A r, s \in S : RowId(r) = RowId(s) => r = s
      /\ Trail' = {t \in Trail : \A s \in S : RowId(t) # RowId(s)} \union S
  BY <1>1, <1>2, <1>4
<1> HIDE DEF S
<1>8. QED
  BY <1>5, <1>6, <1>7 DEF Store!Persist, Trail, Writing

\* A call that begins here begins there
LEMMA StartThere ==
    ASSUME TypeOK, NEW w \in Writers, NEW r \in Records, Start(w, r)
    PROVE  Store!Start(w, r)
<1> DEFINE new == [record |-> r, created_at |-> now]
<1>1. row' = [row EXCEPT ![w] = {new}] /\ row[w] = {} /\ disk' = disk
  BY DEF Start, TypeOK
<1>2. {s.record : s \in {new}} = {r}
  OBVIOUS
<1> HIDE DEF new
<1>3. Writing[w] = {} /\ Writing' = [Writing EXCEPT ![w] = {r}]
  BY <1>1, <1>2 DEF Writing, TypeOK
<1>4. Trail' = Trail
  BY <1>1 DEF Trail
<1>5. /\ r \notin submitted
      /\ contended' = IF Store!Open = {} THEN contended ELSE Store!Open \union {w}
      /\ submitted' = submitted \union {r}
      /\ acked' = acked
  BY OpenThere DEF Start
<1>6. QED
  BY <1>3, <1>4, <1>5 DEF Store!Start, Writing, Trail

\* What the abstract store does not see
Unseen == UNCHANGED <<row, contended, submitted, disk, acked>>

LEMMA UnseenThere == Unseen => UNCHANGED Store!vars
BY DEF Unseen, Store!vars

\* Every step of a thread inside write is a step of the abstract store
LEMMA WriteThere ==
    ASSUME StoreInv, StoreInv', [Next]_vars, NEW w \in Writers, Write(w)
    PROVE  Store!Next \/ UNCHANGED Store!vars
<1>t. TypeOK /\ IInv
  BY DEF StoreInv, IInv
<1>o. w \in Open
  BY DEF Write, Execute, Begin, Bind, Step, Misuse, Commit, End, Done, Open
<1>l. w \notin contended => LoneCall(w) /\ LoneRecordIsThere(w)
  BY <1>o DEF StoreInv, IInv
<1>d. Ids(disk) \subseteq Ids(disk')
  BY <1>t, DiskGrows DEF IInv
<1>1. CASE Execute(w) \/ Bind(w)
  BY <1>1, UnseenThere DEF Execute, Bind, Unseen
<1>2. CASE Begin(w)
  <2>1. CASE txn
    <3>1. w \in contended
      BY <1>2, <1>l, <1>t, <2>1, LoneFindsNoTxn DEF Begin
    <3>2. Store!Raise(w)
      BY <1>t, <1>2, <2>1, <3>1, RaiseThere DEF Begin
    <3>3. QED
      BY <3>2 DEF Store!Next
  <2>2. CASE ~txn
    BY <1>2, <2>2, UnseenThere DEF Begin, Unseen
  <2>3. QED
    BY <2>1, <2>2
<1>3. CASE Step(w)
  <2>1. Store!Persist
    BY <1>3, <1>o, <1>d, CommitThere DEF Step
  <2>2. QED
    BY <2>1 DEF Store!Next
<1>4. CASE Misuse(w)
  <2>1. PICK u \in Writers \ {w} : pc[u] = "step"
    BY <1>4 DEF Misuse
  <2>2. u \in Open
    BY <2>1 DEF Open
  <2>3. w \in contended
    BY <1>l, <2>2 DEF LoneCall
  <2>4. Store!Raise(w)
    BY <1>t, <1>4, <2>3, RaiseThere DEF Misuse
  <2>5. QED
    BY <2>4 DEF Store!Next
<1>5. CASE Commit(w)
  <2>1. CASE txn
    BY <1>5, <2>1, UnseenThere DEF Commit, Unseen
  <2>2. CASE ~txn
    <3>1. w \in contended
      BY <1>5, <1>l, <2>2 DEF Commit, LoneCall
    <3>2. Store!Return(w)
      BY <1>t, <1>5, <2>2, <3>1, ReturnThere DEF Commit
    <3>3. QED
      BY <3>2 DEF Store!Next
  <2>3. QED
    BY <2>1, <2>2
<1>6. CASE End(w)
  <2>1. CASE txn
    <3>1. Store!Persist
      BY <1>6, <1>o, <1>d, <2>1, CommitThere DEF End
    <3>2. QED
      BY <3>1 DEF Store!Next
  <2>2. CASE ~txn
    <3>1. w \in contended
      BY <1>6, <1>l, <2>2 DEF End, LoneCall
    <3>2. Store!Raise(w)
      BY <1>t, <1>6, <2>2, <3>1, RaiseThere DEF End
    <3>3. QED
      BY <3>2 DEF Store!Next
  <2>3. QED
    BY <2>1, <2>2
<1>7. CASE Done(w)
  <2>1. w \in contended \/ Recorded(row[w]) \subseteq Recorded(disk)
    BY <1>7, <1>l DEF Done, LoneRecordIsThere
  <2>2. Store!Return(w)
    BY <1>t, <1>7, <2>1, ReturnThere DEF Done
  <2>3. QED
    BY <2>2 DEF Store!Next
<1>8. QED
  BY <1>1, <1>2, <1>3, <1>4, <1>5, <1>6, <1>7 DEF Write

(***************************************************************************)
(* write keeps its promise: each step of the threads, the library and the  *)
(* process is a step of AuditStore or changes nothing there.               *)
(***************************************************************************)
THEOREM WritesAsPromised == Spec => ImplementsStore
<1>1. Init => Store!Init
  BY DEF Init, Store!Init
<1>2. StoreInv /\ StoreInv' /\ [Next]_vars => [Store!Next]_(Store!vars)
  <2> SUFFICES ASSUME StoreInv, StoreInv', [Next]_vars
               PROVE  Store!Next \/ UNCHANGED Store!vars
    OBVIOUS
  <2>t. TypeOK
    BY DEF StoreInv, IInv
  <2>1. ASSUME NEW w \in Writers, NEW r \in Records, Start(w, r) PROVE Store!Next
    BY <2>1, <2>t, StartThere DEF Store!Next
  <2>2. ASSUME NEW w \in Writers, Write(w) PROVE Store!Next \/ UNCHANGED Store!vars
    BY <2>2, WriteThere
  <2>3. CASE Crash
    <3>1. Writing' = [w \in Writers |-> {}] /\ Trail' = Trail
      BY <2>3 DEF Crash, Writing, Trail
    <3>2. Store!Crash
      BY <2>3, <3>1 DEF Crash, Store!Crash, Writing, Trail
    <3>3. QED
      BY <3>2 DEF Store!Next
  <2>4. CASE Tick \/ UNCHANGED vars
    BY <2>4, UnseenThere DEF Tick, vars, Unseen
  <2>5. QED
    BY <2>1, <2>2, <2>3, <2>4 DEF Next
<1>3. Spec => []StoreInv
  BY InitStoreInv, NextStoreInv, PTL DEF Spec
<1>4. QED
  BY <1>1, <1>2, <1>3, PTL DEF Spec, ImplementsStore, Store!Spec
=============================================================================
