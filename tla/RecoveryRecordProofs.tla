------------------------ MODULE RecoveryRecordProofs ------------------------
(***************************************************************************)
(* Proofs about what RecoveryPipeline puts on record, for any number of    *)
(* threads and runs and any set of failure events.                         *)
(***************************************************************************)
EXTENDS RecoveryPipelineProofs

-----------------------------------------------------------------------------
(***************************************************************************)
(* An answered run stays on record.  A stored record could be replaced by  *)
(* another one of its run; so the invariant has to know that a run is      *)
(* recorded once, and for that which threads have still to record theirs.  *)
(***************************************************************************)
Before == {"judge", "post", "await", "receipt", "record"}

SubmittedOnce ==
    /\ \A r \in submitted : r.run \in used
    /\ \A r, s \in submitted : r.run = s.run => r = s

Unrecorded ==
    \A w \in Workers : pc[w] \in Before => \A r \in submitted : r.run # job[w].run

StoredWasSubmitted ==
    /\ \A w \in Workers : writing[w] \subseteq submitted
    /\ trail \subseteq submitted
    /\ \A a \in acked : a.record \in submitted

RecordInv == /\ RunInv
             /\ SubmittedOnce
             /\ Unrecorded
             /\ StoredWasSubmitted
             /\ AnsweredRunIsOnRecord

\* A started process has nothing on record
LEMMA InitRecord == Init => RecordInv
BY InitRuns
   DEF Init, Store!Init, RecordInv, SubmittedOnce, Unrecorded, StoredWasSubmitted,
       AnsweredRunIsOnRecord

\* Most steps do not touch the store
StoreIdle ==
    /\ UNCHANGED <<used, job, store>>
    /\ \A w \in Workers : pc'[w] \in Before => pc[w] \in Before

LEMMA StoreSteps ==
    ASSUME TypeOK, [Next]_vars
    PROVE  \/ \E w \in Workers : Receive(w) \/ StartWrite(w) \/ EndWrite(w)
           \/ Persist \/ Crash
           \/ StoreIdle
<1> USE DEF StoreIdle, Before, Move, TypeOK
<1>1. ASSUME NEW w \in Workers, Judge(w) PROVE StoreIdle
  BY <1>1 DEF Judge
<1>2. ASSUME NEW w \in Workers,
             SendRequest(w) \/ AnswerCreated(w) \/ AnswerWithoutId(w) \/ AnswerFailed(w)
      PROVE  StoreIdle
  BY <1>2 DEF SendRequest, AnswerCreated, AnswerWithoutId, AnswerFailed
<1>3. ASSUME NEW w \in Workers,
             ReceiptConfirms(w) \/ ReceiptDenies(w) \/ BodyUnreadable(w)
      PROVE  StoreIdle
  BY <1>3 DEF ReceiptConfirms, ReceiptDenies, BodyUnreadable
<1>4. CASE ProviderCreates \/ ProviderRefuses \/ LinkMoves \/ UNCHANGED vars
  BY <1>4 DEF ProviderCreates, ProviderRefuses, LinkMoves, vars
<1>5. QED
  BY <1>1, <1>2, <1>3, <1>4 DEF Next, Work

\* Every step keeps runs recorded once and answered runs on record
LEMMA NextRecord == RecordInv /\ [Next]_vars => RecordInv'
<1> SUFFICES ASSUME RecordInv, [Next]_vars PROVE RecordInv'
  OBVIOUS
<1>r. RunInv /\ RunInv'
  BY NextRuns DEF RecordInv
<1>t. TypeOK /\ TypeOK'
  BY <1>r DEF RunInv
<1>k. \A w \in Workers : pc[w] # "idle" => job[w].run \in used
  BY <1>r DEF RunInv, RunsAreKnown
<1>a. \A w, u \in Workers :
         pc[w] # "idle" /\ pc[u] # "idle" /\ job[w].run = job[u].run => w = u
  BY <1>r DEF RunInv, RunsAreApart
<1> USE DEF RecordInv, SubmittedOnce, Unrecorded, StoredWasSubmitted, AnsweredRunIsOnRecord
<1>1. ASSUME NEW w \in Workers, Receive(w) PROVE RecordInv'
  <2>1. PICK r \in Runs \ used, e \in Events :
           /\ used' = used \union {r}
           /\ job' = [job EXCEPT ![w] = [run |-> r, event |-> e]]
    BY <1>1 DEF Receive
  <2>2. job'[w].run = r /\ \A u \in Workers \ {w} : job'[u] = job[u]
    BY <1>t, <2>1 DEF TypeOK
  <2>3. \A u \in Workers \ {w} : pc'[u] = pc[u]
    BY <1>1, <1>t DEF Receive, Move, TypeOK
  <2>4. UNCHANGED <<writing, submitted, trail, acked>>
    BY <1>1 DEF Receive, store
  <2>5. QED
    BY <1>r, <2>1, <2>2, <2>3, <2>4
<1>2. CASE StoreIdle
  BY <1>r, <1>2 DEF StoreIdle, store
<1>3. ASSUME NEW w \in Workers, StartWrite(w) PROVE RecordInv'
  <2> DEFINE new == RecordOf(w)
  <2>1. /\ pc[w] = "record" /\ pc'[w] = "write"
        /\ \A u \in Workers \ {w} : pc'[u] = pc[u]
        /\ UNCHANGED <<used, job>>
    BY <1>3, <1>t DEF StartWrite, Move, TypeOK
  <2>2. new.run = job[w].run
    BY DEF RecordOf
  <2> HIDE DEF new
  <2>3. /\ submitted' = submitted \union {new}
        /\ writing' = [writing EXCEPT ![w] = {new}]
        /\ UNCHANGED <<trail, acked>>
    BY <1>3 DEF StartWrite, Store!Start, new
  <2>4. \A r \in submitted : r.run # new.run
    BY <2>1, <2>2 DEF Before
  <2>5. SubmittedOnce'
    BY <1>k, <2>1, <2>2, <2>3, <2>4
  <2>6. Unrecorded'
    <3> SUFFICES ASSUME NEW u \in Workers, pc'[u] \in Before, NEW r \in submitted'
                 PROVE  r.run # job'[u].run
      OBVIOUS
    <3>1. u # w /\ pc[u] \in Before /\ job'[u] = job[u]
      BY <2>1 DEF Before
    <3>2. job[u].run # job[w].run
      BY <1>a, <2>1, <3>1 DEF Before
    <3>3. QED
      BY <2>2, <2>3, <3>1, <3>2
  <2>7. StoredWasSubmitted'
    BY <1>t, <2>3 DEF TypeOK
  <2>8. QED
    BY <1>r, <2>3, <2>5, <2>6, <2>7
<1>4. ASSUME NEW w \in Workers, EndWrite(w) PROVE RecordInv'
  <2>1. /\ \A u \in Workers : pc'[u] \in Before => pc[u] \in Before
        /\ UNCHANGED <<used, job>>
    BY <1>4, <1>t DEF EndWrite, Move, Before, TypeOK
  <2>2. CASE Store!Return(w)
    <3>1. PICK r \in writing[w] :
            /\ w \in contended \/ r \in trail
            /\ acked' = acked \union {[record |-> r, alone |-> w \notin contended]}
      BY <2>2 DEF Store!Return
    <3>2. UNCHANGED <<submitted, trail>> /\ writing' = [writing EXCEPT ![w] = {}]
      BY <2>2 DEF Store!Return, Store!Close
    <3>3. r \in submitted
      BY <3>1
    <3>4. StoredWasSubmitted'
      BY <1>t, <3>1, <3>2, <3>3 DEF TypeOK
    <3>5. AnsweredRunIsOnRecord'
      <4> DEFINE alone == w \notin contended
                 entry == [record |-> r, alone |-> alone]
      <4>1. alone => r \in trail
        BY <3>1
      <4>2. acked' = acked \union {entry}
        BY <3>1
      <4>3. entry.record = r /\ entry.alone = alone
        OBVIOUS
      <4> HIDE DEF alone, entry
      <4>4. entry.alone => entry.record \in trail
        BY <4>1, <4>3, Zenon
      <4>5. \A a \in acked' : a \in acked \/ a = entry
        BY <4>2
      <4>6. trail' = trail
        BY <3>2
      <4>7. QED
        BY <1>r, <4>4, <4>5, <4>6, Zenon
    <3>6. QED
      BY <1>r, <2>1, <3>2, <3>4, <3>5
  <2>3. CASE Store!Raise(w)
    <3>1. /\ UNCHANGED <<submitted, trail, acked>>
          /\ writing' = [writing EXCEPT ![w] = {}]
      BY <2>3 DEF Store!Raise, Store!Close
    <3>2. StoredWasSubmitted'
      BY <1>t, <3>1 DEF TypeOK
    <3>3. QED
      BY <1>r, <2>1, <3>1, <3>2
  <2>4. QED
    BY <1>4, <2>2, <2>3 DEF EndWrite
<1>5. CASE Persist
  <2>1. UNCHANGED <<pc, used, job, writing, submitted, acked>>
    BY <1>5 DEF Persist, Store!Persist
  <2>2. PICK S \in SUBSET submitted :
          trail' = {t \in trail : \A s \in S : RunOf(t) # RunOf(s)} \union S
    BY <1>5 DEF Persist, Store!Persist
  <2>3. \A r \in trail : r \in trail'
    <3> SUFFICES ASSUME NEW r \in trail, r \notin S PROVE r \in trail'
      BY <2>2
    <3>1. \A s \in S : RunOf(r) # RunOf(s)
      BY DEF RunOf
    <3>2. QED
      BY <2>2, <3>1
  <2>4. trail' \subseteq submitted
    BY <2>2
  <2>5. QED
    BY <1>r, <2>1, <2>3, <2>4
<1>6. CASE Crash
  <2>1. /\ \A w \in Workers : pc'[w] = "idle" /\ writing'[w] = {}
        /\ UNCHANGED <<used, job, submitted, trail, acked>>
    BY <1>6 DEF Crash, Store!Crash
  <2>2. QED
    BY <1>r, <2>1 DEF Before
<1>7. QED
  BY <1>1, <1>2, <1>3, <1>4, <1>5, <1>6, <1>t, StoreSteps

LEMMA AlwaysRecord == Spec => []RecordInv
BY InitRecord, NextRecord, PTL DEF Spec

(***************************************************************************)
(* A run whose caller got its record back, and whose write met no other,   *)
(* is in the trail in every later state.                                   *)
(***************************************************************************)
THEOREM AnsweredRunsStayOnRecord == Spec => []AnsweredRunIsOnRecord
<1>1. RecordInv => AnsweredRunIsOnRecord
  BY DEF RecordInv
<1>2. QED
  BY AlwaysRecord, <1>1, PTL

-----------------------------------------------------------------------------
(***************************************************************************)
(* Records tell the truth.  A record is as good as the result it is made   *)
(* of, and the result as the gate's verdict it was reached under: both are *)
(* remembered from the step that made them to the one that records them.   *)
(***************************************************************************)
Gated(w) == /\ Verdict(job[w].event).authorized
            /\ ChosenAction(job[w].event) \in RetryActions

ThreadsAreGated ==
    \A w \in Workers : pc[w] \in {"post", "await", "receipt"} => Gated(w)

UnsentIfUntouched(w) ==
    result[w].detail \in Untouched => \A c \in Sent : c.run # job[w].run

LinkIfDelivered(w) ==
    result[w].receipt = "delivered" => \E l \in links : l.run = job[w].run

GatedIfExecuted(w) == /\ result[w].executed <=> result[w].receipt # "none"
                      /\ result[w].executed => Gated(w)

ResultIsTrue(w) == UnsentIfUntouched(w) /\ LinkIfDelivered(w) /\ GatedIfExecuted(w)

ResultsTellTruth == \A w \in Workers : pc[w] = "record" => ResultIsTrue(w)

TruthInv == /\ RecordInv
            /\ ThreadsAreGated
            /\ ResultsTellTruth
            /\ RecordsTellTruth

\* A started process has told nobody anything
LEMMA InitTruth == Init => TruthInv
BY InitRecord
   DEF Init, Store!Init, TruthInv, ThreadsAreGated, ResultsTellTruth, RecordsTellTruth

\* What a run has sent it keeps, and only its own POST adds to it
LEMMA SentSteps ==
    ASSUME TypeOK, [Next]_vars
    PROVE  \A c \in Sent' : \/ \E d \in Sent : c.run = d.run
                            \/ \E w \in Workers : SendRequest(w) /\ c.run = job[w].run
<1>1. ASSUME NEW w \in Workers, Receive(w) PROVE Sent' = Sent
  BY <1>1 DEF Receive, Sent
<1>2. ASSUME NEW w \in Workers, SendRequest(w)
      PROVE  \A c \in Sent' : c \in Sent \/ c.run = job[w].run
  BY <1>2 DEF SendRequest, Sent, RequestOf
<1>3. ProviderStep => \A c \in Sent' : \E d \in Sent : c.run = d.run
  BY DEF ProviderStep
<1>4. QuietStep => Sent' = Sent
  BY DEF QuietStep, Sent
<1>5. QED
  BY <1>1, <1>2, <1>3, <1>4, StepKinds

\* A link may change its status and is never taken away
LEMMA LinksStay ==
    ASSUME TypeOK, [Next]_vars, NEW l \in links
    PROVE  \E m \in links' : m.run = l.run
<1>1. CASE LinkMoves
  <2>1. PICK k \in links, s \in LinkStatus :
           links' = (links \ {k}) \union {[k EXCEPT !.status = s]}
    BY <1>1 DEF LinkMoves
  <2> DEFINE new == [k EXCEPT !.status = s]
  <2>2. new.run = k.run
    BY DEF TypeOK, Link
  <2>3. new \in links' /\ (l = k \/ l \in links')
    BY <2>1
  <2> HIDE DEF new
  <2>4. QED
    BY <2>2, <2>3
<1>2. CASE ProviderCreates
  BY <1>2 DEF ProviderCreates
<1>3. links' = links \/ LinkMoves \/ ProviderCreates
  BY DEF Next, Work, Receive, Judge, SendRequest, AnswerCreated, AnswerWithoutId,
         AnswerFailed, ReceiptConfirms, ReceiptDenies, BodyUnreadable, StartWrite,
         EndWrite, ProviderRefuses, Persist, Crash, vars
<1>4. QED
  BY <1>1, <1>2, <1>3

\* The steps that end a run's business, told by the thread they are taken by
Concludes(w) == \/ Judge(w) \/ AnswerWithoutId(w) \/ AnswerFailed(w)
                \/ ReceiptConfirms(w) \/ ReceiptDenies(w)

LEMMA RecordSteps ==
    ASSUME TypeOK, [Next]_vars, NEW w \in Workers, pc'[w] = "record"
    PROVE  \/ pc[w] = "record" /\ UNCHANGED <<engine, job[w], result[w]>>
           \/ Concludes(w)
<1> USE DEF Move, Finish, TypeOK
<1>1. ASSUME NEW u \in Workers, Receive(u)
      PROVE  pc[w] = "record" /\ UNCHANGED <<engine, job[w], result[w]>>
  BY <1>1 DEF Receive
<1>2. ASSUME NEW u \in Workers, Concludes(u), u # w
      PROVE  pc[w] = "record" /\ UNCHANGED <<engine, job[w], result[w]>>
  BY <1>2 DEF Concludes, Judge, AnswerWithoutId, AnswerFailed, ReceiptConfirms, ReceiptDenies
<1>3. ASSUME NEW u \in Workers,
             SendRequest(u) \/ AnswerCreated(u) \/ BodyUnreadable(u)
               \/ StartWrite(u) \/ EndWrite(u)
      PROVE  pc[w] = "record" /\ UNCHANGED <<engine, job[w], result[w]>>
  BY <1>3 DEF SendRequest, AnswerCreated, BodyUnreadable, StartWrite, EndWrite
<1>4. CASE ProviderCreates \/ ProviderRefuses \/ LinkMoves \/ Persist \/ UNCHANGED vars
  BY <1>4 DEF ProviderCreates, ProviderRefuses, LinkMoves, Persist, vars
<1>5. ~Crash
  BY DEF Crash
<1>6. QED
  BY <1>1, <1>2, <1>3, <1>4, <1>5 DEF Next, Work, Concludes

\* A thread on its way to the provider got there through the gate
LEMMA NextGated == TypeOK /\ ThreadsAreGated /\ [Next]_vars => ThreadsAreGated'
<1> SUFFICES ASSUME TypeOK, ThreadsAreGated, [Next]_vars,
                    NEW w \in Workers, pc'[w] \in {"post", "await", "receipt"}
             PROVE  Gated(w)'
  BY DEF ThreadsAreGated, Gated
<1>e. engine' = engine
  BY DEF Next, Work, Receive, Judge, SendRequest, AnswerCreated, AnswerWithoutId,
         AnswerFailed, ReceiptConfirms, ReceiptDenies, BodyUnreadable, StartWrite,
         EndWrite, ProviderCreates, ProviderRefuses, LinkMoves, Persist, Crash, vars
<1>v. \A e : /\ Verdict(e)' = Verdict(e)
             /\ ChosenAction(e)' = ChosenAction(e)
  BY <1>e, EngineIsFixed
<1>1. CASE Judge(w)
  <2> DEFINE gate == Verdict(job[w].event)
  <2>1. gate.authorized /\ Dispatch(gate) = "link" /\ job' = job
    BY <1>1 DEF Judge, Move, TypeOK
  <2>2. gate \in GateDecision
    BY VerdictType DEF TypeOK, Job
  <2> HIDE DEF gate
  <2>3. gate.chosen_action.action_type \in RetryActions
    BY <2>1, <2>2 DEF Dispatch, GateDecision, CandidateAction, ActionTypes, RetryActions
  <2>4. QED
    BY <1>v, <2>1, <2>3 DEF ChosenAction, gate, Gated
<1>2. CASE pc[w] \in {"post", "await", "receipt"} /\ job'[w] = job[w]
  BY <1>2, <1>v DEF ThreadsAreGated, Gated
<1>3. Judge(w) \/ (pc[w] \in {"post", "await", "receipt"} /\ job'[w] = job[w])
  <2> DEFINE Held == pc[w] \in {"post", "await", "receipt"} /\ job'[w] = job[w]
  <2>1. ASSUME NEW v \in Workers, Receive(v) PROVE Held
    BY <2>1 DEF Receive, Move, TypeOK
  <2>2. ASSUME NEW v \in Workers, Judge(v) PROVE Judge(w) \/ Held
    BY <2>2 DEF Judge, Move, TypeOK
  <2>3. ASSUME NEW v \in Workers, SendRequest(v) PROVE Held
    BY <2>3 DEF SendRequest, Move, TypeOK
  <2>4. ASSUME NEW v \in Workers, AnswerCreated(v) \/ AnswerWithoutId(v) \/ AnswerFailed(v)
        PROVE  Held
    BY <2>4 DEF AnswerCreated, AnswerWithoutId, AnswerFailed, Move, TypeOK
  <2>5. ASSUME NEW v \in Workers, ReceiptConfirms(v) \/ ReceiptDenies(v) \/ BodyUnreadable(v)
        PROVE  Held
    BY <2>5 DEF ReceiptConfirms, ReceiptDenies, BodyUnreadable, Move, TypeOK
  <2>6. ASSUME NEW v \in Workers, StartWrite(v) \/ EndWrite(v) PROVE Held
    BY <2>6 DEF StartWrite, EndWrite, Move, TypeOK
  <2>7. ASSUME ProviderCreates \/ ProviderRefuses \/ LinkMoves \/ Persist PROVE Held
    BY <2>7 DEF ProviderCreates, ProviderRefuses, LinkMoves, Persist
  <2>8. ASSUME Crash PROVE Held
    BY <2>8 DEF Crash
  <2>9. ASSUME UNCHANGED vars PROVE Held
    BY <2>9 DEF vars
  <2> HIDE DEF Held
  <2>10. Judge(w) \/ Held
    <3>1. ASSUME NEW v \in Workers, Receive(v) \/ Work(v) PROVE Judge(w) \/ Held
      BY <3>1, <2>1, <2>2, <2>3, <2>4, <2>5, <2>6, Zenon DEF Work
    <3>2. \/ \E v \in Workers : Receive(v) \/ Work(v)
          \/ ProviderCreates \/ ProviderRefuses \/ LinkMoves \/ Persist
          \/ Crash \/ UNCHANGED vars
      BY Zenon DEF Next
    <3>3. QED
      BY <3>1, <3>2, <2>7, <2>8, <2>9, Zenon
  <2>11. QED
    BY <2>10 DEF Held
<1>4. QED
  BY <1>1, <1>2, <1>3

\* Whatever ends a run's business says the truth about it
LEMMA ConcludedIsTrue ==
    ASSUME TruthInv, NEW w \in Workers, Concludes(w), pc'[w] = "record"
    PROVE  ResultIsTrue(w)'
<1>t. TypeOK /\ NothingSentYet
  BY DEF TruthInv, RecordInv, RunInv
<1>u. UNCHANGED <<engine, job, links, requests>>
  BY DEF Concludes, Judge, AnswerWithoutId, AnswerFailed, ReceiptConfirms, ReceiptDenies
<1>g. pc[w] \in {"await", "receipt"} => Gated(w)'
  <2>1. Gated(w)' <=> Gated(w)
    BY <1>u, EngineIsFixed DEF Gated
  <2>2. QED
    BY <2>1 DEF TruthInv, ThreadsAreGated
<1> USE DEF ResultIsTrue, UnsentIfUntouched, LinkIfDelivered, GatedIfExecuted
<1>1. CASE Judge(w)
  <2>1. pc[w] = "judge"
    BY <1>1 DEF Judge, Move
  <2>2. \E d : Finish(w, FALSE, d, "none")
    BY <1>1, <1>t DEF Judge, Move, TypeOK
  <2>3. ~result'[w].executed /\ result'[w].receipt = "none"
    BY <2>2, <1>t DEF Finish, TypeOK
  <2>4. \A c \in Sent' : c.run # job'[w].run
    BY <1>t, <1>u, <2>1 DEF NothingSentYet, Sent
  <2>5. QED
    BY <2>3, <2>4
<1>2. CASE AnswerFailed(w)
  BY <1>2, <1>t DEF AnswerFailed, Finish, TypeOK, Untouched
<1>3. CASE AnswerWithoutId(w) \/ ReceiptDenies(w)
  <2>1. Finish(w, TRUE, "created", "undelivered") /\ pc[w] \in {"await", "receipt"}
    BY <1>3 DEF AnswerWithoutId, ReceiptDenies, Move
  <2>2. QED
    BY <1>t, <1>g, <2>1 DEF Finish, TypeOK, Untouched
<1>4. CASE ReceiptConfirms(w)
  <2>1. /\ Finish(w, TRUE, "created", "delivered")
        /\ pc[w] = "receipt"
        /\ \E l \in links : l.run = job[w].run
    BY <1>4 DEF ReceiptConfirms, Move
  <2>2. \E l \in links' : l.run = job'[w].run
    BY <1>u, <2>1
  <2>3. QED
    BY <1>t, <1>g, <2>1, <2>2 DEF Finish, TypeOK, Untouched
<1>5. QED
  BY <1>1, <1>2, <1>3, <1>4 DEF Concludes

\* Every step keeps results and records true
LEMMA NextTruth == TruthInv /\ [Next]_vars => TruthInv'
<1> SUFFICES ASSUME TruthInv, [Next]_vars PROVE TruthInv'
  OBVIOUS
<1>r. RecordInv /\ RecordInv'
  BY NextRecord DEF TruthInv
<1>t. TypeOK /\ RunsAreApart
  BY <1>r DEF RecordInv, RunInv
<1>g. ThreadsAreGated'
  BY <1>t, NextGated DEF TruthInv
<1>1. ResultsTellTruth'
  <2> SUFFICES ASSUME NEW w \in Workers, pc'[w] = "record" PROVE ResultIsTrue(w)'
    BY DEF ResultsTellTruth, ResultIsTrue, UnsentIfUntouched, LinkIfDelivered,
           GatedIfExecuted, Gated
  <2>1. CASE pc[w] = "record" /\ UNCHANGED <<engine, job[w], result[w]>>
    <3>0. UnsentIfUntouched(w) /\ LinkIfDelivered(w) /\ GatedIfExecuted(w)
      BY <2>1 DEF TruthInv, ResultsTellTruth, ResultIsTrue
    <3>1. UnsentIfUntouched(w)'
      <4> SUFFICES ASSUME result[w].detail \in Untouched, NEW c \in Sent'
                   PROVE  c.run # job[w].run
        BY <2>1 DEF UnsentIfUntouched
      <4>1. \A d \in Sent : d.run # job[w].run
        BY <3>0 DEF UnsentIfUntouched
      <4>2. \A u \in Workers : SendRequest(u) => job[u].run # job[w].run
        BY <1>t, <2>1 DEF RunsAreApart, SendRequest, Move
      <4>3. QED
        BY <1>t, <4>1, <4>2, SentSteps
    <3>2. LinkIfDelivered(w)'
      BY <1>t, <2>1, <3>0, LinksStay DEF LinkIfDelivered
    <3>3. GatedIfExecuted(w)'
      BY <2>1, <3>0, EngineIsFixed DEF GatedIfExecuted, Gated
    <3>4. QED
      BY <3>1, <3>2, <3>3 DEF ResultIsTrue
  <2>2. CASE Concludes(w)
    BY <2>2, ConcludedIsTrue
  <2>3. QED
    BY <1>t, <2>1, <2>2, RecordSteps
<1>2. RecordsTellTruth'
  <2> SUFFICES ASSUME NEW r \in submitted'
               PROVE  /\ UntouchedIsUntouched(r)'
                      /\ DeliveredHasLink(r)'
                      /\ ExecutedWasAuthorized(r)
    BY DEF RecordsTellTruth, UntouchedIsUntouched, DeliveredHasLink, ExecutedWasAuthorized
  <2>1. CASE r \in submitted
    <3>0. UntouchedIsUntouched(r) /\ DeliveredHasLink(r) /\ ExecutedWasAuthorized(r)
      BY <2>1 DEF TruthInv, RecordsTellTruth
    <3>1. UntouchedIsUntouched(r)'
      <4> SUFFICES ASSUME r.detail \in Untouched, NEW c \in Sent' PROVE c.run # r.run
        BY DEF UntouchedIsUntouched, Sent
      <4>1. \A d \in Sent : d.run # r.run
        BY <3>0 DEF UntouchedIsUntouched, Sent
      <4>2. \A u \in Workers : SendRequest(u) => job[u].run # r.run
        BY <1>r, <2>1 DEF RecordInv, Unrecorded, Before, SendRequest, Move
      <4>3. QED
        BY <1>t, <4>1, <4>2, SentSteps
    <3>2. DeliveredHasLink(r)'
      BY <1>t, <3>0, LinksStay DEF DeliveredHasLink
    <3>3. QED
      BY <3>0, <3>1, <3>2
  <2>2. ASSUME NEW w \in Workers, StartWrite(w), r = RecordOf(w)
        PROVE  /\ UntouchedIsUntouched(r)'
               /\ DeliveredHasLink(r)'
               /\ ExecutedWasAuthorized(r)
    <3>1. UnsentIfUntouched(w) /\ LinkIfDelivered(w) /\ GatedIfExecuted(w)
      BY <2>2 DEF TruthInv, ResultsTellTruth, ResultIsTrue, StartWrite, Move
    <3>2. /\ r.run = job[w].run
          /\ r.detail = result[w].detail
          /\ r.receipt = result[w].receipt
          /\ r.executed = result[w].executed
          /\ r.gate_decision = Verdict(job[w].event)
      BY <2>2 DEF RecordOf
    <3>3. links' = links /\ requests' = requests
      BY <2>2 DEF StartWrite
    <3>4. UntouchedIsUntouched(r)' /\ DeliveredHasLink(r)'
      BY <3>1, <3>2, <3>3 DEF UnsentIfUntouched, LinkIfDelivered, UntouchedIsUntouched,
                              DeliveredHasLink, Sent
    <3>5. ExecutedWasAuthorized(r)
      BY <3>1, <3>2 DEF GatedIfExecuted, Gated, ExecutedWasAuthorized, ChosenAction
    <3>6. QED
      BY <3>4, <3>5
  <2>3. r \in submitted \/ \E w \in Workers : StartWrite(w) /\ r = RecordOf(w)
    BY DEF Next, Work, Receive, Judge, SendRequest, AnswerCreated, AnswerWithoutId,
         AnswerFailed, ReceiptConfirms, ReceiptDenies, BodyUnreadable, StartWrite,
         EndWrite, ProviderCreates, ProviderRefuses, LinkMoves, Persist, Crash, vars,
         store, Store!Start, Store!Return, Store!Raise, Store!Close, Store!Persist,
         Store!Crash
  <2>4. QED
    BY <2>1, <2>2, <2>3
<1>3. QED
  BY <1>r, <1>g, <1>1, <1>2 DEF TruthInv

(***************************************************************************)
(* What is recorded of a run is true when it is recorded and remains so,   *)
(* with any number of threads, late requests and restarts.                 *)
(***************************************************************************)
THEOREM RecordsStayTrue == Spec => []RecordsTellTruth
<1>1. TruthInv => RecordsTellTruth
  BY DEF TruthInv
<1>2. QED
  BY InitTruth, NextTruth, <1>1, PTL DEF Spec

-----------------------------------------------------------------------------
(***************************************************************************)
(* The pipeline implements GovernedRecovery.  Its promise relates a link   *)
(* to the record of its run, made before it or after; so what a run has    *)
(* sent must be known to be about the event and the action that its thread *)
(* still works on, or that its record names.                               *)
(***************************************************************************)
Concerns(c, run, event, action) == c.run = run => c.event = event /\ c.action = action

JobsAgree ==
    \A w \in Workers : pc[w] # "idle" =>
        \A c \in Sent : Concerns(c, job[w].run, job[w].event, ChosenAction(job[w].event))

RecordsAgree ==
    \A r \in submitted : \A c \in Sent :
        Concerns(c, r.run, r.event, r.gate_decision.chosen_action.action_type)

GovernedInv == /\ TruthInv
               /\ GateInv
               /\ JobsAgree
               /\ RecordsAgree

LEMMA InitGoverned == Init => GovernedInv
BY InitTruth, InitGate DEF Init, Store!Init, GovernedInv, JobsAgree, RecordsAgree, Sent

\* What was sent keeps its run, its event and its action
LEMMA SentStays ==
    ASSUME TypeOK, [Next]_vars
    PROVE  \A c \in Sent' :
              \/ \E d \in Sent : c.run = d.run /\ c.event = d.event /\ c.action = d.action
              \/ \E w \in Workers, customer \in Customers :
                    SendRequest(w) /\ c = RequestOf(job[w], customer)
<1> DEFINE Kept == \A c \in Sent' : \E d \in Sent :
                      c.run = d.run /\ c.event = d.event /\ c.action = d.action
<1>1. ASSUME NEW w \in Workers, SendRequest(w)
      PROVE  \A c \in Sent' :
                c \in Sent \/ \E customer \in Customers : c = RequestOf(job[w], customer)
  BY <1>1 DEF SendRequest, Sent
<1>2. CASE ProviderCreates
  <2>1. PICK q \in requests : /\ requests' = requests \ {q}
                              /\ links' = links \union {LinkOf(q, "created")}
    BY <1>2 DEF ProviderCreates
  <2> DEFINE new == LinkOf(q, "created")
  <2>2. new.run = q.run /\ new.event = q.event /\ new.action = q.action
    BY DEF LinkOf
  <2>3. Sent' \subseteq Sent \union {new} /\ q \in Sent
    BY <2>1 DEF Sent
  <2> HIDE DEF new
  <2>4. QED
    BY <2>2, <2>3
<1>3. CASE LinkMoves
  <2>1. PICK l \in links, s \in LinkStatus :
            /\ links' = (links \ {l}) \union {[l EXCEPT !.status = s]}
            /\ requests' = requests
    BY <1>3 DEF LinkMoves
  <2> DEFINE new == [l EXCEPT !.status = s]
  <2>2. new.run = l.run /\ new.event = l.event /\ new.action = l.action
    BY DEF TypeOK, Link
  <2>3. Sent' \subseteq Sent \union {new} /\ l \in Sent
    BY <2>1 DEF Sent
  <2> HIDE DEF new
  <2>4. QED
    BY <2>2, <2>3
<1>4. CASE links' \subseteq links /\ requests' \subseteq requests
  BY <1>4 DEF Sent
<1>5. \/ \E w \in Workers : SendRequest(w)
      \/ ProviderCreates
      \/ LinkMoves
      \/ links' \subseteq links /\ requests' \subseteq requests
  BY DEF Next, Work, Receive, Judge, AnswerCreated, AnswerWithoutId, AnswerFailed,
         ReceiptConfirms, ReceiptDenies, BodyUnreadable, StartWrite, EndWrite,
         ProviderRefuses, Persist, Crash, vars
<1>6. QED
  BY <1>1, <1>2, <1>3, <1>4, <1>5

\* The planner of the process stays
LEMMA EngineStays == [Next]_vars => engine' = engine
BY DEF Next, Work, Receive, Judge, SendRequest, AnswerCreated, AnswerWithoutId,
       AnswerFailed, ReceiptConfirms, ReceiptDenies, BodyUnreadable, StartWrite,
       EndWrite, ProviderCreates, ProviderRefuses, LinkMoves, Persist, Crash, vars

\* A thread in the middle of a call has the job it had, or has just received it
LEMMA JobSteps ==
    ASSUME TypeOK, [Next]_vars, NEW w \in Workers, pc'[w] # "idle"
    PROVE  \/ pc[w] # "idle" /\ job'[w] = job[w]
           \/ Receive(w)
<1>1. ASSUME NEW u \in Workers, Receive(u) PROVE u = w \/ (pc[w] # "idle" /\ job'[w] = job[w])
  BY <1>1 DEF Receive, Move, TypeOK
<1>2. CASE job' = job
  BY <1>2 DEF Next, Work, Receive, Judge, SendRequest, AnswerCreated,
         AnswerWithoutId, AnswerFailed, ReceiptConfirms, ReceiptDenies,
         BodyUnreadable, StartWrite, EndWrite, ProviderCreates, ProviderRefuses,
         LinkMoves, Persist, Crash, vars, Move, TypeOK
<1>3. job' = job \/ \E u \in Workers : Receive(u)
  BY DEF Next, Work, Judge, SendRequest, AnswerCreated, AnswerWithoutId,
       AnswerFailed, ReceiptConfirms, ReceiptDenies, BodyUnreadable, StartWrite,
       EndWrite, ProviderCreates, ProviderRefuses, LinkMoves, Persist, Crash, vars
<1>4. QED
  BY <1>1, <1>2, <1>3

\* Records are submitted when their thread comes to write them
LEMMA SubmitSteps ==
    ASSUME [Next]_vars, NEW r \in submitted'
    PROVE  r \in submitted \/ \E w \in Workers : StartWrite(w) /\ r = RecordOf(w)
BY DEF Next, Work, Receive, Judge, SendRequest, AnswerCreated, AnswerWithoutId, AnswerFailed,
       ReceiptConfirms, ReceiptDenies, BodyUnreadable, StartWrite, EndWrite,
       ProviderCreates, ProviderRefuses, LinkMoves, Persist, Crash, vars, store,
       Store!Start, Store!Return, Store!Raise, Store!Close, Store!Persist, Store!Crash

\* Every step keeps links, jobs and records in agreement
LEMMA NextGoverned == GovernedInv /\ [Next]_vars => GovernedInv'
<1> SUFFICES ASSUME GovernedInv, [Next]_vars PROVE GovernedInv'
  OBVIOUS
<1>i. TruthInv' /\ GateInv'
  BY NextTruth, NextGate DEF GovernedInv
<1>r. RecordInv /\ RunInv /\ TypeOK
  BY DEF GovernedInv, TruthInv, RecordInv, RunInv
<1>e. engine' = engine
  BY EngineStays
<1>v. \A e : ChosenAction(e)' = ChosenAction(e)
  BY <1>e, EngineIsFixed
<1>1. ASSUME NEW w \in Workers, pc'[w] # "idle", NEW c \in Sent', c.run = job'[w].run
      PROVE  c.event = job'[w].event /\ c.action = ChosenAction(job'[w].event)
  <2>1. CASE pc[w] # "idle" /\ job'[w] = job[w]
    <3>1. \A d \in Sent : Concerns(d, job[w].run, job[w].event, ChosenAction(job[w].event))
      BY <2>1 DEF GovernedInv, JobsAgree
    <3>2. ASSUME NEW d \in Sent, c.run = d.run /\ c.event = d.event /\ c.action = d.action
          PROVE  c.event = job'[w].event /\ c.action = ChosenAction(job'[w].event)
      BY <1>1, <2>1, <3>1, <3>2 DEF Concerns
    <3>3. ASSUME NEW u \in Workers, NEW customer \in Customers, SendRequest(u),
                 c = RequestOf(job[u], customer)
          PROVE  c.event = job'[w].event /\ c.action = ChosenAction(job'[w].event)
      <4>1. c.run = job[u].run /\ c.event = job[u].event /\ c.action = ChosenAction(job[u].event)
        BY <3>3 DEF RequestOf
      <4>2. u = w
        BY <1>1, <1>r, <2>1, <3>3, <4>1 DEF RunInv, RunsAreApart, SendRequest, Move
      <4>3. QED
        BY <2>1, <4>1, <4>2
    <3>4. QED
      BY <1>r, <3>2, <3>3, SentStays
  <2>2. CASE Receive(w)
    <3>1. Sent' = Sent /\ job'[w].run \notin used
      BY <1>r, <2>2 DEF Receive, Sent, TypeOK
    <3>2. QED
      BY <1>1, <1>r, <3>1 DEF RunInv, RunsAreKnown
  <2>3. QED
    BY <1>1, <1>r, <2>1, <2>2, JobSteps
<1>2. JobsAgree'
  BY <1>1, <1>v DEF JobsAgree, Concerns
<1>3. ASSUME NEW r \in submitted', NEW c \in Sent', c.run = r.run
      PROVE  c.event = r.event /\ c.action = r.gate_decision.chosen_action.action_type
  <2>1. CASE r \in submitted
    <3>1. ASSUME NEW d \in Sent, c.run = d.run /\ c.event = d.event /\ c.action = d.action
          PROVE  c.event = r.event /\ c.action = r.gate_decision.chosen_action.action_type
      BY <1>3, <2>1, <3>1 DEF GovernedInv, RecordsAgree, Concerns
    <3>2. ASSUME NEW u \in Workers, NEW customer \in Customers, SendRequest(u),
                 c = RequestOf(job[u], customer)
          PROVE  FALSE
      <4>1. c.run = job[u].run /\ pc[u] = "post"
        BY <3>2 DEF RequestOf, SendRequest, Move
      <4>2. QED
        BY <1>3, <1>r, <2>1, <4>1 DEF RecordInv, Unrecorded, Before
    <3>3. QED
      BY <1>r, <3>1, <3>2, SentStays
  <2>2. ASSUME NEW w \in Workers, StartWrite(w), r = RecordOf(w)
        PROVE  c.event = r.event /\ c.action = r.gate_decision.chosen_action.action_type
    <3>1. Sent' = Sent /\ pc[w] = "record"
      BY <2>2 DEF StartWrite, Sent, Move
    <3>2. /\ r.run = job[w].run /\ r.event = job[w].event
          /\ r.gate_decision.chosen_action.action_type = ChosenAction(job[w].event)
      BY <2>2 DEF RecordOf, ChosenAction
    <3>3. QED
      BY <1>3, <3>1, <3>2 DEF GovernedInv, JobsAgree, Concerns
  <2>3. QED
    BY <2>1, <2>2, SubmitSteps
<1>4. RecordsAgree'
  BY <1>3 DEF RecordsAgree, Concerns
<1>5. QED
  BY <1>i, <1>2, <1>4 DEF GovernedInv

\* A record and what its run has sent do not contradict each other
LEMMA RecordAgrees ==
    ASSUME GovernedInv, NEW r \in submitted, NEW c \in Sent
    PROVE  Governed!Agree(ContactOf(c), EntryOf(r))
<1> SUFFICES ASSUME c.run = r.run
             PROVE  /\ EntryOf(r).claim = "tried"
                    /\ c.event = EntryOf(r).event
                    /\ c.action = EntryOf(r).action
  BY DEF Governed!Agree, ContactOf, EntryOf
<1>1. r.detail \notin Untouched
  BY DEF GovernedInv, TruthInv, RecordsTellTruth, UntouchedIsUntouched, Sent
<1>2. c.event = r.event /\ c.action = r.gate_decision.chosen_action.action_type
  BY DEF GovernedInv, RecordsAgree, Concerns
<1>3. QED
  BY <1>1, <1>2 DEF EntryOf

\* A record's entry is one the abstract trail may have
LEMMA EntryType ==
    ASSUME NEW r \in AuditRecord
    PROVE  EntryOf(r) \in [run : Runs, event : Events,
                           action : ActionTypes, claim : {"left alone", "tried"}]
<1>1. /\ r.run \in Runs /\ r.event \in Events
      /\ r.gate_decision.chosen_action.action_type \in ActionTypes
  BY DEF AuditRecord, GateDecision, CandidateAction
<1>2. QED
  BY <1>1 DEF EntryOf

\* The provider creates a link: a customer is contacted
LEMMA CreationContacts ==
    ASSUME GovernedInv, ProviderCreates
    PROVE  Governed!Contact
<1>t. TypeOK /\ OneLinkPerRun /\ StoredWasSubmitted /\ ContactIsPermitted
  BY DEF GovernedInv, TruthInv, RecordInv, RunInv, GateInv
<1>1. PICK q \in requests : links' = links \union {LinkOf(q, "created")}
  BY DEF ProviderCreates
<1> DEFINE contact == ContactOf(q)
<1>2. contact = [run |-> q.run, event |-> q.event, action |-> q.action]
  BY DEF ContactOf
<1>3. ContactOf(LinkOf(q, "created")) = contact
  BY DEF ContactOf, LinkOf
<1>4. Contacts' = Contacts \union {contact}
  BY <1>1, <1>3 DEF Contacts
<1>5. Governed!Permitted(q.event, q.action)
  BY <1>t DEF ContactIsPermitted
<1>6. q.run \in Runs /\ q.event \in Events /\ q.action \in RetryActions
  BY <1>t, <1>5 DEF TypeOK, Request, Governed!Permitted, Governed!RetryActions, RetryActions
<1>7. \A c \in Contacts : c.run # q.run
  <2>1. \A l \in links : l.run # q.run
    BY <1>t, LinksAreNotRequests DEF OneLinkPerRun, TypeOK
  <2>2. QED
    BY <2>1 DEF Contacts, ContactOf
<1>8. \A t \in Entries : Governed!Agree(contact, t)
  BY <1>t, RecordAgrees DEF Entries, Sent, StoredWasSubmitted
<1>9. Entries' = Entries
  BY DEF ProviderCreates, store, Entries
<1>10. QED
  BY <1>2, <1>4, <1>5, <1>6, <1>7, <1>8, <1>9
     DEF Governed!Contact, Governed!RetryActions, RetryActions

\* The store commits: records are logged
LEMMA CommitLogs ==
    ASSUME GovernedInv, GovernedInv', Persist
    PROVE  Governed!Log
<1>t. TypeOK' /\ SubmittedOnce' /\ StoredWasSubmitted'
  BY DEF GovernedInv, TruthInv, RecordInv, RunInv
<1>1. PICK S \in SUBSET submitted :
         trail' = {t \in trail : \A s \in S : RunOf(t) # RunOf(s)} \union S
  BY DEF Persist, Store!Persist
<1>2. trail \subseteq trail'
  <2> SUFFICES ASSUME NEW r \in trail, r \notin S PROVE r \in trail'
    BY <1>1
  <2>1. \A s \in S : RunOf(r) # RunOf(s)
    BY DEF RunOf, GovernedInv, TruthInv, RecordInv, SubmittedOnce, StoredWasSubmitted
  <2>2. QED
    BY <1>1, <2>1
<1>3. Entries \subseteq Entries'
  BY <1>2 DEF Entries
<1>4. \A r \in trail' : r \in submitted /\ r \in AuditRecord
  BY <1>t DEF TypeOK, StoredWasSubmitted, Persist, Store!Persist
<1>5. ASSUME NEW t \in Entries'
      PROVE  /\ t \in [run : Runs, event : Events, action : ActionTypes,
                       claim : {"left alone", "tried"}]
             /\ \A u \in Entries' : u.run = t.run => u = t
             /\ \A c \in Contacts : Governed!Agree(c, t)
  <2>1. PICK r \in trail' : t = EntryOf(r)
    BY DEF Entries
  <2>2. \A s \in trail' : s.run = r.run => s = r
    BY <1>t DEF SubmittedOnce, StoredWasSubmitted
  <2>3. \A s : EntryOf(s).run = s.run
    BY DEF EntryOf
  <2>4. \A u \in Entries' : u.run = t.run => u = t
    BY <2>1, <2>2, <2>3 DEF Entries
  <2>5. \A c \in Contacts : Governed!Agree(c, t)
    BY <1>4, <2>1, RecordAgrees DEF Contacts, Sent
  <2>6. QED
    BY <1>4, <2>1, <2>4, <2>5, EntryType
<1>6. Contacts' = Contacts
  BY DEF Persist, Contacts
<1>7. QED
  BY <1>3, <1>5, <1>6
     DEF Governed!Log, Governed!Claims, Governed!ActionTypes, Governed!RetryActions,
         ActionTypes, RetryActions

\* Nothing else is seen there
LEMMA OthersUnseen ==
    ASSUME TypeOK, [Next]_vars, ~ProviderCreates, ~Persist
    PROVE  Contacts' = Contacts /\ Entries' = Entries
<1>1. trail' = trail
  BY DEF Next, Work, Receive, Judge, SendRequest, AnswerCreated, AnswerWithoutId,
         AnswerFailed, ReceiptConfirms, ReceiptDenies, BodyUnreadable, StartWrite,
         EndWrite, ProviderRefuses, LinkMoves, Crash, vars, store,
         Store!Start, Store!Return, Store!Raise, Store!Close, Store!Crash
<1>2. LinkMoves => Contacts' = Contacts
  <2> SUFFICES ASSUME LinkMoves PROVE Contacts' = Contacts
    OBVIOUS
  <2>1. PICK l \in links, s \in LinkStatus :
            links' = (links \ {l}) \union {[l EXCEPT !.status = s]}
    BY DEF LinkMoves
  <2> DEFINE new == [l EXCEPT !.status = s]
  <2>2. ContactOf(new) = ContactOf(l)
    BY DEF ContactOf, TypeOK, Link
  <2> HIDE DEF new
  <2>3. ASSUME NEW x \in Contacts PROVE x \in Contacts'
    <3>1. PICK m \in links : x = ContactOf(m)
      BY DEF Contacts
    <3>2. \E n \in links' : x = ContactOf(n)
      BY <2>1, <2>2, <3>1 DEF new
    <3>3. QED
      BY <3>2 DEF Contacts
  <2>4. ASSUME NEW x \in Contacts' PROVE x \in Contacts
    <3>1. PICK n \in links' : x = ContactOf(n)
      BY DEF Contacts
    <3>2. \E m \in links : x = ContactOf(m)
      BY <2>1, <2>2, <3>1 DEF new
    <3>3. QED
      BY <3>2 DEF Contacts
  <2>5. QED
    BY <2>3, <2>4
<1>3. links' = links \/ LinkMoves
  BY DEF Next, Work, Receive, Judge, SendRequest, AnswerCreated, AnswerWithoutId,
         AnswerFailed, ReceiptConfirms, ReceiptDenies, BodyUnreadable, StartWrite,
         EndWrite, ProviderRefuses, Crash, vars
<1>4. QED
  BY <1>1, <1>2, <1>3 DEF Contacts, Entries

(***************************************************************************)
(* The pipeline keeps its promise: customers are contacted where policy    *)
(* permits it, at most once per run, and no record is contradicted by a    *)
(* contact made before or after it, with any number of threads and         *)
(* whatever the provider, the database and the process do.                 *)
(***************************************************************************)
THEOREM PipelineIsGoverned == Spec => ImplementsGoverned
<1>1. Init => Governed!Init
  BY DEF Init, Store!Init, Governed!Init, Contacts, Entries
<1>2. GovernedInv /\ GovernedInv' /\ [Next]_vars => [Governed!Next]_(Governed!vars)
  <2> SUFFICES ASSUME GovernedInv, GovernedInv', [Next]_vars
               PROVE  Governed!Next \/ UNCHANGED Governed!vars
    OBVIOUS
  <2>1. CASE ProviderCreates
    BY <2>1, CreationContacts DEF Governed!Next
  <2>2. CASE Persist
    BY <2>2, CommitLogs DEF Governed!Next
  <2>3. CASE ~ProviderCreates /\ ~Persist
    <3>1. Contacts' = Contacts /\ Entries' = Entries
      BY <2>3, OthersUnseen DEF GovernedInv, GateInv
    <3>2. QED
      BY <3>1 DEF Governed!vars
  <2>4. QED
    BY <2>1, <2>2, <2>3
<1>3. Spec => []GovernedInv
  BY InitGoverned, NextGoverned, PTL DEF Spec
<1>4. QED
  BY <1>1, <1>2, <1>3, PTL DEF Spec, ImplementsGoverned, Governed!Spec
=============================================================================
