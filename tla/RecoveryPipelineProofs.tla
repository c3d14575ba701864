----------------------- MODULE RecoveryPipelineProofs -----------------------
(***************************************************************************)
(* Proofs about RecoveryPipeline, for any number of threads and runs and   *)
(* any set of failure events.                                              *)
(***************************************************************************)
EXTENDS RecoveryPipeline, RecoveryPolicyProofs

-----------------------------------------------------------------------------
\* diagnose, decide and authorize in a row return a decision
LEMMA VerdictType ==
    ASSUME engine \in Engines, NEW e \in Events
    PROVE  Verdict(e) \in GateDecision
<1>1. e \in FailureEvent /\ engine \in EngineNames
  BY EventsAssumption, EnginesAssumption
<1>2. Plan(engine, e, Diagnose(e))[1] \in CandidateAction
  BY <1>1, DiagnoseType, PlanType
<1>3. QED
  BY <1>1, <1>2, AuthorizeType DEF Verdict

(***************************************************************************)
(* The gate lets a retry through only where policy permits a contact.      *)
(***************************************************************************)
LEMMA GatePermits ==
    ASSUME NEW e \in FailureEvent, NEW c \in CandidateAction,
           Authorize(e, c).authorized, c.action_type \in RetryActions
    PROVE  Governed!Permitted(e, c.action_type)
BY GateRefuses DEF Governed!Permitted, Governed!RetryActions, RetryActions

\* So does the pipeline as far as the gate
LEMMA VerdictPermits ==
    ASSUME engine \in Engines, NEW e \in Events,
           Verdict(e).authorized, ChosenAction(e) \in RetryActions
    PROVE  Governed!Permitted(e, ChosenAction(e))
<1> DEFINE c == Plan(engine, e, Diagnose(e))[1]
<1>1. e \in FailureEvent /\ engine \in EngineNames
  BY EventsAssumption, EnginesAssumption
<1>2. c \in CandidateAction
  BY <1>1, DiagnoseType, PlanType
<1>3. Verdict(e) = Authorize(e, c) /\ ChosenAction(e) = c.action_type
  BY DEF Verdict, ChosenAction, Authorize
<1> HIDE DEF c
<1>4. QED
  BY <1>1, <1>2, <1>3, GatePermits

\* What the client sends is a request
LEMMA RequestType ==
    ASSUME engine \in Engines, NEW j \in Job, NEW customer \in Customers
    PROVE  RequestOf(j, customer) \in Request
<1>1. j.event \in Events /\ j.event \in FailureEvent /\ j.run \in Runs
  BY EventsAssumption DEF Job
<1>2. ChosenAction(j.event) \in ActionTypes
  BY <1>1, VerdictType DEF ChosenAction, GateDecision, CandidateAction
<1>3. Paise(j.event.amount) \in Int
  BY <1>1 DEF Paise, FailureEvent
<1>4. QED
  BY <1>1, <1>2, <1>3, CustomersAssumption DEF RequestOf, Request

-----------------------------------------------------------------------------
(***************************************************************************)
(* Type correctness.  The audit store's steps keep its types.              *)
(***************************************************************************)
StoreTypes ==
    /\ writing \in [Workers -> SUBSET AuditRecord]
    /\ contended \subseteq Workers
    /\ submitted \subseteq AuditRecord
    /\ trail \subseteq AuditRecord
    /\ acked \subseteq [record : AuditRecord, alone : BOOLEAN]

\* A write that begins hands the store a record
LEMMA StartKeepsTypes ==
    ASSUME StoreTypes, NEW w \in Workers, NEW r \in AuditRecord, Store!Start(w, r)
    PROVE  StoreTypes'
BY DEF StoreTypes, Store!Start, Store!Open

\* A write that returns acknowledges the record it was given
LEMMA ReturnKeepsTypes ==
    ASSUME StoreTypes, NEW w \in Workers, Store!Return(w)
    PROVE  StoreTypes'
<1>1. PICK r \in writing[w] :
         acked' = acked \union {[record |-> r, alone |-> w \notin contended]}
  BY DEF Store!Return
<1> DEFINE alone == w \notin contended
<1>2. alone \in BOOLEAN /\ acked' = acked \union {[record |-> r, alone |-> alone]}
  BY <1>1
<1> HIDE DEF alone
<1>3. r \in AuditRecord
  BY DEF StoreTypes
<1>4. acked' \subseteq [record : AuditRecord, alone : BOOLEAN]
  BY <1>2, <1>3 DEF StoreTypes
<1>5. QED
  BY <1>4 DEF StoreTypes, Store!Return, Store!Close

\* Commits, failed writes and restarts handle submitted records only
LEMMA OthersKeepTypes ==
    ASSUME StoreTypes,
           Store!Persist \/ Store!Crash \/ \E w \in Workers : Store!Raise(w)
    PROVE  StoreTypes'
<1>1. CASE Store!Persist
  BY <1>1 DEF StoreTypes, Store!Persist
<1>2. CASE Store!Crash
  BY <1>2 DEF StoreTypes, Store!Crash
<1>3. ASSUME NEW w \in Workers, Store!Raise(w) PROVE StoreTypes'
  BY <1>3 DEF StoreTypes, Store!Raise, Store!Close
<1>4. QED
  BY <1>1, <1>2, <1>3

\* What run_pipeline writes is an audit record
LEMMA RecordType ==
    ASSUME TypeOK, NEW w \in Workers
    PROVE  RecordOf(w) \in AuditRecord
<1>1. job[w] \in Job /\ result[w] \in Result /\ engine \in Engines
  BY DEF TypeOK
<1>2. Verdict(job[w].event) \in GateDecision
  BY <1>1, VerdictType DEF Job
<1>3. QED
  BY <1>1, <1>2 DEF RecordOf, AuditRecord, Job, Result

\* A started process is type correct
LEMMA InitTypeOK == Init => TypeOK
<1> SUFFICES ASSUME Init PROVE TypeOK
  OBVIOUS
<1>1. PICK r \in Runs, e \in Events : TRUE
  BY RunsAssumption, EventsAssumption
<1>2. [run |-> r, event |-> e] \in Job
  BY DEF Job
<1>3. (CHOOSE j \in Job : TRUE) \in Job
  BY <1>2
<1>4. NoResult \in Result
  BY DEF NoResult, Result, Details, Untouched, Receipts
<1>5. QED
  BY <1>3, <1>4 DEF Init, TypeOK, Stages, Store!Init

\* Every step keeps the types
LEMMA NextTypeOK == TypeOK /\ [Next]_vars => TypeOK'
<1> SUFFICES ASSUME TypeOK, [Next]_vars PROVE TypeOK'
  OBVIOUS
<1>s. StoreTypes
  BY DEF TypeOK, StoreTypes
<1>r. \A b \in BOOLEAN, d \in Details, c \in Receipts :
        [executed |-> b, detail |-> d, receipt |-> c] \in Result
  BY DEF Result
<1> USE DEF TypeOK, Stages, Move
<1>1. ASSUME NEW w \in Workers, Receive(w) PROVE TypeOK'
  <2>1. PICK r \in Runs, e \in Events :
           used' = used \union {r} /\ job' = [job EXCEPT ![w] = [run |-> r, event |-> e]]
    BY <1>1 DEF Receive
  <2>2. [run |-> r, event |-> e] \in Job
    BY DEF Job
  <2>3. NoResult \in Result
    BY DEF NoResult, Result, Details, Untouched, Receipts
  <2>4. QED
    BY <1>1, <2>1, <2>2, <2>3 DEF Receive, store
<1>2. ASSUME NEW w \in Workers, Judge(w) PROVE TypeOK'
  <2>1. job[w].event \in Events
    BY DEF Job
  <2>2. Verdict(job[w].event) \in GateDecision
    BY <2>1, VerdictType
  <2> DEFINE gate    == Verdict(job[w].event)
             outcome == IF gate.authorized THEN Dispatch(gate) ELSE "denied"
  <2>3. outcome \in Details \union {"link"}
    BY <2>2 DEF Dispatch, Details, Untouched, GateDecision, CandidateAction, ActionTypes
  <2> HIDE DEF outcome
  <2>4. \/ pc' = [pc EXCEPT ![w] = "post"] /\ result' = result
        \/ /\ outcome # "link" /\ pc' = [pc EXCEPT ![w] = "record"]
           /\ Finish(w, FALSE, outcome, "none")
    BY <1>2 DEF Judge, outcome
  <2>5. result' \in [Workers -> Result]
    BY <1>r, <2>3, <2>4 DEF Finish, Receipts
  <2>6. QED
    BY <1>2, <2>4, <2>5 DEF Judge, store
<1>3. ASSUME NEW w \in Workers, SendRequest(w) PROVE TypeOK'
  <2>1. PICK customer \in Customers :
            requests' = requests \union {RequestOf(job[w], customer)}
    BY <1>3 DEF SendRequest
  <2>2. RequestOf(job[w], customer) \in Request
    BY RequestType
  <2>3. QED
    BY <1>3, <2>1, <2>2 DEF SendRequest, store
<1>4. ASSUME NEW w \in Workers, AnswerCreated(w) PROVE TypeOK'
  BY <1>4 DEF AnswerCreated, store
<1>5. ASSUME NEW w \in Workers,
             AnswerWithoutId(w) \/ AnswerFailed(w)
               \/ ReceiptConfirms(w) \/ ReceiptDenies(w)
      PROVE  TypeOK'
  <2>1. \E b \in BOOLEAN, d \in Details, c \in Receipts : Finish(w, b, d, c)
    BY <1>5 DEF AnswerWithoutId, AnswerFailed, ReceiptConfirms, ReceiptDenies,
                Details, Receipts
  <2>2. result' \in [Workers -> Result]
    BY <1>r, <2>1 DEF Finish
  <2>3. QED
    BY <1>5, <2>2 DEF AnswerWithoutId, AnswerFailed, ReceiptConfirms, ReceiptDenies, store
<1>6. ASSUME NEW w \in Workers, BodyUnreadable(w) PROVE TypeOK'
  BY <1>6 DEF BodyUnreadable, store
<1>7. ASSUME NEW w \in Workers, StartWrite(w) PROVE TypeOK'
  <2>1. StoreTypes'
    BY <1>s, <1>7, RecordType, StartKeepsTypes DEF StartWrite
  <2>2. QED
    BY <1>7, <2>1 DEF StartWrite, StoreTypes
<1>8. ASSUME NEW w \in Workers, EndWrite(w) PROVE TypeOK'
  <2>1. StoreTypes'
    BY <1>s, <1>8, ReturnKeepsTypes, OthersKeepTypes DEF EndWrite
  <2>2. QED
    BY <1>8, <2>1 DEF EndWrite, StoreTypes
<1>9. CASE ProviderCreates
  <2>1. \A q \in Request : LinkOf(q, "created") \in Link
    BY DEF LinkOf, Request, Link, LinkStatus
  <2>2. QED
    BY <1>9, <2>1 DEF ProviderCreates, store
<1>10. CASE ProviderRefuses
  BY <1>10 DEF ProviderRefuses, store
<1>11. CASE LinkMoves
  <2>1. \A l \in Link, s \in LinkStatus : [l EXCEPT !.status = s] \in Link
    BY DEF Link
  <2>2. QED
    BY <1>11, <2>1 DEF LinkMoves, store
<1>12. CASE Persist
  <2>1. StoreTypes'
    BY <1>s, <1>12, OthersKeepTypes DEF Persist
  <2>2. QED
    BY <1>12, <2>1 DEF Persist, StoreTypes
<1>13. CASE Crash
  <2>1. StoreTypes'
    BY <1>s, <1>13, OthersKeepTypes DEF Crash
  <2>2. QED
    BY <1>13, <2>1 DEF Crash, StoreTypes
<1>14. CASE UNCHANGED vars
  BY <1>14 DEF vars, store
<1>15. QED
  BY <1>1, <1>2, <1>3, <1>4, <1>5, <1>6, <1>7, <1>8, <1>9, <1>10, <1>11, <1>12,
     <1>13, <1>14 DEF Next, Work

(***************************************************************************)
(* RecoveryPipeline is type correct.                                       *)
(***************************************************************************)
THEOREM TypeCorrect == Spec => []TypeOK
BY InitTypeOK, NextTypeOK, PTL DEF Spec

-----------------------------------------------------------------------------
(***************************************************************************)
(* The gate cannot be got round.  ContactIsPermitted alone is not          *)
(* inductive: a thread may stand before its POST, and that it has the      *)
(* gate's consent is what PostIsGated remembers for it.                    *)
(***************************************************************************)
PostIsGated ==
    \A w \in Workers : pc[w] = "post" =>
        /\ Verdict(job[w].event).authorized
        /\ ChosenAction(job[w].event) \in RetryActions

GateInv == /\ TypeOK
           /\ PostIsGated
           /\ ContactIsPermitted

\* While the planner stays, so does its verdict on an event
LEMMA EngineIsFixed ==
    ASSUME engine' = engine, NEW e
    PROVE  Verdict(e)' = Verdict(e) /\ ChosenAction(e)' = ChosenAction(e)
BY DEF Verdict, ChosenAction, Plan

\* A started process has contacted nobody
LEMMA InitGate == Init => GateInv
BY InitTypeOK DEF Init, GateInv, PostIsGated, ContactIsPermitted

\* Every step keeps the gate's hold on POSTs, requests and links
LEMMA NextGate == GateInv /\ [Next]_vars => GateInv'
<1> SUFFICES ASSUME GateInv, [Next]_vars PROVE GateInv'
  OBVIOUS
<1>t. TypeOK /\ TypeOK'
  BY NextTypeOK DEF GateInv
<1>e. engine' = engine
  BY DEF Next, Work, Receive, Judge, SendRequest, AnswerCreated, AnswerWithoutId,
         AnswerFailed, ReceiptConfirms, ReceiptDenies, BodyUnreadable, StartWrite,
         EndWrite, ProviderCreates, ProviderRefuses, LinkMoves, Persist, Crash, vars
<1>v. \A e : /\ Verdict(e)' = Verdict(e)
             /\ ChosenAction(e)' = ChosenAction(e)
  BY <1>e, EngineIsFixed
<1>p. \A e \in Events : /\ Verdict(e).authorized
                        /\ ChosenAction(e) \in RetryActions
                        => Governed!Permitted(e, ChosenAction(e))
  BY <1>t, VerdictPermits DEF TypeOK
\* Who newly stands before its POST
<1>1. PostIsGated'
  <2> SUFFICES ASSUME NEW w \in Workers, pc'[w] = "post"
               PROVE  /\ Verdict(job'[w].event).authorized
                      /\ ChosenAction(job'[w].event) \in RetryActions
    BY <1>v DEF PostIsGated
  <2>1. CASE Judge(w) /\ pc[w] # "post"
    <3> DEFINE gate == Verdict(job[w].event)
    <3>1. gate.authorized /\ Dispatch(gate) = "link" /\ job' = job
      BY <2>1, <1>t DEF Judge, Move, TypeOK
    <3>2. gate \in GateDecision
      BY <1>t, VerdictType DEF TypeOK, Job
    <3> HIDE DEF gate
    <3>3. gate.chosen_action.action_type \in RetryActions
      BY <3>1, <3>2
         DEF Dispatch, GateDecision, CandidateAction, ActionTypes, RetryActions
    <3>4. QED
      BY <3>1, <3>3 DEF ChosenAction, gate
  <2>2. CASE pc[w] = "post" /\ job'[w] = job[w]
    BY <2>2 DEF GateInv, PostIsGated
  <2>3. \/ Judge(w) /\ pc[w] # "post"
        \/ pc[w] = "post" /\ job'[w] = job[w]
    <3> DEFINE Held == pc[w] = "post" /\ job'[w] = job[w]
    <3>1. ASSUME NEW v \in Workers, Receive(v) PROVE Held
      BY <1>t, <3>1 DEF Receive, Move, TypeOK
    <3>2. ASSUME NEW v \in Workers, Judge(v) PROVE (Judge(w) /\ pc[w] # "post") \/ Held
      BY <1>t, <3>2 DEF Judge, Move, TypeOK
    <3>3. ASSUME NEW v \in Workers,
                 \/ SendRequest(v) \/ AnswerCreated(v) \/ AnswerWithoutId(v)
                 \/ AnswerFailed(v)
          PROVE  Held
      BY <1>t, <3>3 DEF SendRequest, AnswerCreated, AnswerWithoutId, AnswerFailed,
           Move, TypeOK
    <3>4. ASSUME NEW v \in Workers,
                 \/ ReceiptConfirms(v) \/ ReceiptDenies(v) \/ BodyUnreadable(v)
                 \/ StartWrite(v) \/ EndWrite(v)
          PROVE  Held
      BY <1>t, <3>4 DEF ReceiptConfirms, ReceiptDenies, BodyUnreadable, StartWrite,
           EndWrite, Move, TypeOK
    <3>5. ASSUME \/ ProviderCreates \/ ProviderRefuses \/ LinkMoves \/ Persist
                 \/ Crash \/ UNCHANGED vars
          PROVE  Held
      BY <1>t, <3>5 DEF ProviderCreates, ProviderRefuses, LinkMoves, Persist, Crash,
           vars
    <3> HIDE DEF Held
    <3>6. ASSUME NEW v \in Workers, Receive(v) \/ Work(v)
          PROVE  (Judge(w) /\ pc[w] # "post") \/ Held
      BY <3>1, <3>2, <3>3, <3>4, <3>6, Zenon DEF Work
    <3>7. \/ \E v \in Workers : Receive(v) \/ Work(v)
          \/ ProviderCreates \/ ProviderRefuses \/ LinkMoves \/ Persist
          \/ Crash \/ UNCHANGED vars
      BY Zenon DEF Next
    <3>8. (Judge(w) /\ pc[w] # "post") \/ Held
      BY <3>5, <3>6, <3>7, Zenon
    <3>9. QED
      BY <3>8 DEF Held
  <2>4. QED
    BY <2>1, <2>2, <2>3
\* What newly exists, or may come to exist, at the provider
<1>2. ContactIsPermitted'
  <2> SUFFICES ASSUME NEW c \in links' \union requests'
               PROVE  Governed!Permitted(c.event, c.action)
    BY DEF ContactIsPermitted, Governed!Permitted
  <2>0. \A d \in links \union requests : Governed!Permitted(d.event, d.action)
    BY DEF GateInv, ContactIsPermitted
  <2>1. ASSUME NEW w \in Workers, SendRequest(w)
        PROVE  Governed!Permitted(c.event, c.action)
    <3>1. Governed!Permitted(job[w].event, ChosenAction(job[w].event))
      BY <2>1, <1>t, <1>p DEF SendRequest, Move, GateInv, PostIsGated, TypeOK, Job
    <3>2. c \in links \union requests \/ \E customer \in Customers : c = RequestOf(job[w], customer)
      BY <2>1 DEF SendRequest
    <3>3. \A customer \in Customers :
             /\ RequestOf(job[w], customer).event = job[w].event
             /\ RequestOf(job[w], customer).action = ChosenAction(job[w].event)
      BY DEF RequestOf
    <3>4. QED
      BY <2>0, <3>1, <3>2, <3>3
  <2>2. CASE ProviderCreates
    <3>1. \A q \in requests : LinkOf(q, "created").event = q.event
                              /\ LinkOf(q, "created").action = q.action
      BY DEF LinkOf
    <3>2. c \in links \union requests
            \/ \E q \in requests : c = LinkOf(q, "created")
      BY <2>2 DEF ProviderCreates
    <3>3. QED
      BY <2>0, <3>1, <3>2
  <2>3. CASE LinkMoves
    <3>1. c \in links \union requests
            \/ \E l \in links, s \in LinkStatus : c = [l EXCEPT !.status = s]
      BY <2>3 DEF LinkMoves
    <3>2. \A l \in Link, s \in LinkStatus :
             /\ [l EXCEPT !.status = s].event = l.event
             /\ [l EXCEPT !.status = s].action = l.action
      BY DEF Link
    <3>3. links \subseteq Link
      BY <1>t DEF TypeOK
    <3>4. ASSUME NEW l \in links, NEW s \in LinkStatus,
                 c = [l EXCEPT !.status = s]
          PROVE  Governed!Permitted(c.event, c.action)
      <4>1. c.event = l.event /\ c.action = l.action
        BY <3>2, <3>3, <3>4
      <4>2. QED
        BY <2>0, <4>1
    <3>5. QED
      BY <2>0, <3>1, <3>4
  <2>4. CASE c \in links \union requests
    BY <2>0, <2>4
  <2>5. \/ \E w \in Workers : SendRequest(w)
        \/ ProviderCreates
        \/ LinkMoves
        \/ c \in links \union requests
    BY DEF Next, Work, Receive, Judge, AnswerCreated,
         AnswerWithoutId, AnswerFailed, ReceiptConfirms, ReceiptDenies,
         BodyUnreadable, StartWrite, EndWrite, ProviderRefuses,
         Persist, Crash, vars
  <2>6. QED
    BY <2>1, <2>2, <2>3, <2>4, <2>5
<1>3. QED
  BY <1>t, <1>1, <1>2 DEF GateInv

(***************************************************************************)
(* RecoveryPipeline never contacts a customer, nor has a request under way *)
(* that may yet do so, where policy forbids it.                            *)
(***************************************************************************)
THEOREM GateIsNeverBypassed == Spec => []ContactIsPermitted
<1>1. GateInv => ContactIsPermitted
  BY DEF GateInv
<1>2. QED
  BY InitGate, NextGate, <1>1, PTL DEF Spec

-----------------------------------------------------------------------------
(***************************************************************************)
(* One call makes one link.  OneLinkPerRun alone is not inductive: before  *)
(* a POST it must be known that the run has sent none, and that no other   *)
(* thread serves the same run.                                             *)
(***************************************************************************)
Sent == links \union requests

RunsAreKnown ==
    /\ \A c \in Sent : c.run \in used
    /\ \A w \in Workers : pc[w] # "idle" => job[w].run \in used

RunsAreApart ==
    \A w, u \in Workers :
        /\ pc[w] # "idle" /\ pc[u] # "idle"
        /\ job[w].run = job[u].run
        => w = u

NothingSentYet ==
    \A w \in Workers : pc[w] \in {"judge", "post"} =>
        \A c \in Sent : c.run # job[w].run

RunInv == /\ TypeOK
          /\ RunsAreKnown
          /\ RunsAreApart
          /\ NothingSentYet
          /\ OneLinkPerRun

\* A request has no status, a link has one
LEMMA LinksAreNotRequests ==
    ASSUME NEW l \in Link, NEW q \in Request
    PROVE  l # q
<1>1. DOMAIN l = {"run", "event", "action", "paise", "notify", "status"}
  BY DEF Link
<1>2. DOMAIN q = {"run", "event", "action", "paise", "notify"}
  BY DEF Request
<1>3. "status" \in DOMAIN l /\ "status" \notin DOMAIN q
  BY <1>1, <1>2
<1>4. QED
  BY <1>3

\* A started process has sent nothing and serves nobody
LEMMA InitRuns == Init => RunInv
BY InitTypeOK
   DEF Init, RunInv, RunsAreKnown, RunsAreApart, NothingSentYet, OneLinkPerRun, Sent

\* At the provider things only change their shape: a step that neither receives
\* an event nor sends a request leaves every run with what it had
ProviderStep ==
    /\ UNCHANGED <<used, job, pc>>
    /\ \E old \in Sent : \E new : /\ new.run = old.run
                                 /\ Sent' \subseteq (Sent \ {old}) \union {new}

LEMMA ProviderSteps ==
    ASSUME TypeOK, ProviderCreates \/ ProviderRefuses \/ LinkMoves
    PROVE  ProviderStep
<1>0. \A l \in links, q \in requests : l # q
  BY LinksAreNotRequests DEF TypeOK
<1>1. CASE ProviderCreates
  <2>1. PICK q \in requests : /\ requests' = requests \ {q}
                              /\ links' = links \union {LinkOf(q, "created")}
    BY <1>1 DEF ProviderCreates
  <2>2. LinkOf(q, "created").run = q.run
    BY DEF LinkOf
  <2>3. Sent' \subseteq (Sent \ {q}) \union {LinkOf(q, "created")}
    BY <1>0, <2>1 DEF Sent
  <2>4. QED
    BY <1>1, <2>1, <2>2, <2>3 DEF ProviderStep, ProviderCreates, Sent
<1>2. CASE ProviderRefuses
  <2>1. PICK q \in requests : requests' = requests \ {q} /\ links' = links
    BY <1>2 DEF ProviderRefuses
  <2>2. Sent' \subseteq (Sent \ {q}) \union {q}
    BY <2>1 DEF Sent
  <2>3. QED
    BY <1>2, <2>1, <2>2 DEF ProviderStep, ProviderRefuses, Sent
<1>3. CASE LinkMoves
  <2>1. PICK l \in links, s \in LinkStatus :
            /\ links' = (links \ {l}) \union {[l EXCEPT !.status = s]}
            /\ requests' = requests
    BY <1>3 DEF LinkMoves
  <2> DEFINE new == [l EXCEPT !.status = s]
  <2>2. new.run = l.run
    BY DEF TypeOK, Link
  <2>3. Sent' \subseteq (Sent \ {l}) \union {new}
    BY <1>0, <2>1 DEF Sent
  <2>4. l \in Sent
    BY DEF Sent
  <2> HIDE DEF new
  <2>5. QED
    BY <1>3, <2>2, <2>3, <2>4 DEF ProviderStep, LinkMoves
<1>4. QED
  BY <1>1, <1>2, <1>3

\* Every other step leaves what was sent alone
QuietStep ==
    /\ UNCHANGED <<used, job, links, requests>>
    /\ \A w \in Workers : /\ pc'[w] # "idle" => pc[w] # "idle"
                          /\ pc'[w] \in {"judge", "post"} => pc[w] \in {"judge", "post"}

LEMMA StepKinds ==
    ASSUME TypeOK, [Next]_vars
    PROVE  \/ \E w \in Workers : Receive(w) \/ SendRequest(w)
           \/ ProviderStep
           \/ QuietStep
<1>1. ASSUME NEW w \in Workers, Judge(w) PROVE QuietStep
  BY <1>1 DEF QuietStep, Judge, Move, TypeOK
<1>2. ASSUME NEW w \in Workers,
             AnswerCreated(w) \/ AnswerWithoutId(w) \/ AnswerFailed(w)
               \/ ReceiptConfirms(w) \/ ReceiptDenies(w) \/ BodyUnreadable(w)
      PROVE  QuietStep
  BY <1>2 DEF QuietStep, AnswerCreated, AnswerWithoutId, AnswerFailed,
              ReceiptConfirms, ReceiptDenies, BodyUnreadable, Move, TypeOK
<1>3. ASSUME NEW w \in Workers, StartWrite(w) \/ EndWrite(w) PROVE QuietStep
  BY <1>3 DEF QuietStep, StartWrite, EndWrite, Move, TypeOK
<1>4. CASE Persist \/ Crash \/ UNCHANGED vars
  BY <1>4 DEF QuietStep, Persist, Crash, vars
<1>5. CASE ProviderCreates \/ ProviderRefuses \/ LinkMoves
  BY <1>5, ProviderSteps
<1>6. QED
  BY <1>1, <1>2, <1>3, <1>4, <1>5 DEF Next, Work

\* Every step keeps runs apart and sends for a run at most once
LEMMA NextRuns == RunInv /\ [Next]_vars => RunInv'
<1> SUFFICES ASSUME RunInv, [Next]_vars PROVE RunInv'
  OBVIOUS
<1>t. TypeOK /\ TypeOK'
  BY NextTypeOK DEF RunInv
<1> USE DEF RunInv, RunsAreKnown, RunsAreApart, NothingSentYet, OneLinkPerRun
<1>1. ASSUME NEW w \in Workers, Receive(w) PROVE RunInv'
  <2>1. PICK r \in Runs \ used, e \in Events :
           /\ used' = used \union {r}
           /\ job' = [job EXCEPT ![w] = [run |-> r, event |-> e]]
    BY <1>1 DEF Receive
  <2>2. job'[w].run = r /\ \A u \in Workers \ {w} : job'[u] = job[u]
    BY <1>t, <2>1 DEF TypeOK
  <2>3. pc'[w] = "judge" /\ \A u \in Workers \ {w} : pc'[u] = pc[u]
    BY <1>1, <1>t DEF Receive, Move, TypeOK
  <2>4. Sent' = Sent
    BY <1>1 DEF Receive, Sent
  <2>5. RunsAreKnown'
    BY <2>1, <2>2, <2>3, <2>4
  <2>6. RunsAreApart'
    BY <2>1, <2>2, <2>3
  <2>7. NothingSentYet'
    BY <2>1, <2>2, <2>3, <2>4
  <2>8. OneLinkPerRun'
    BY <2>4 DEF Sent
  <2>9. QED
    BY <1>t, <2>5, <2>6, <2>7, <2>8
<1>2. ASSUME NEW w \in Workers, SendRequest(w) PROVE RunInv'
  <2>0. PICK customer \in Customers :
            requests' = requests \union {RequestOf(job[w], customer)}
    BY <1>2 DEF SendRequest
  <2>1. /\ Sent' = Sent \union {RequestOf(job[w], customer)}
        /\ used' = used /\ job' = job
    BY <1>2, <2>0 DEF SendRequest, Sent
  <2>2. RequestOf(job[w], customer).run = job[w].run
    BY DEF RequestOf
  <2>3. pc[w] = "post" /\ pc'[w] = "await"
        /\ \A u \in Workers \ {w} : pc'[u] = pc[u]
    BY <1>2, <1>t DEF SendRequest, Move, TypeOK
  <2>4. RunsAreKnown'
    BY <2>1, <2>2, <2>3
  <2>5. RunsAreApart'
    BY <2>1, <2>3
  <2>6. NothingSentYet'
    BY <2>1, <2>2, <2>3
  <2>7. OneLinkPerRun'
    BY <2>1, <2>2, <2>3 DEF Sent
  <2>8. QED
    BY <1>t, <2>4, <2>5, <2>6, <2>7
<1>3. CASE ProviderStep
  <2>0. PICK old \in Sent :
           \E new : new.run = old.run /\ Sent' \subseteq (Sent \ {old}) \union {new}
    BY <1>3 DEF ProviderStep
  <2>1. PICK new : new.run = old.run /\ Sent' \subseteq (Sent \ {old}) \union {new}
    BY <2>0
  <2>2. UNCHANGED <<used, job, pc>>
    BY <1>3 DEF ProviderStep
  <2>3. \A c \in Sent' : \E d \in Sent : c.run = d.run
    BY <2>1
  <2>4. RunsAreKnown' /\ RunsAreApart' /\ NothingSentYet'
    BY <2>2, <2>3
  <2>5. \A c, d \in Sent : c.run = d.run => c = d
    BY DEF Sent
  <2>6. \A c, d \in Sent' : c.run = d.run => c = d
    BY <2>1, <2>5
  <2>7. QED
    BY <1>t, <2>4, <2>6 DEF Sent
<1>4. CASE QuietStep
  BY <1>4, <1>t DEF QuietStep, Sent
<1>5. QED
  BY <1>1, <1>2, <1>3, <1>4, <1>t, StepKinds

(***************************************************************************)
(* A run has at most one payment link or request under way, with any       *)
(* number of threads and whatever the provider does with it.               *)
(***************************************************************************)
THEOREM RunsSendOnce == Spec => []OneLinkPerRun
<1>1. RunInv => OneLinkPerRun
  BY DEF RunInv
<1>2. QED
  BY InitRuns, NextRuns, <1>1, PTL DEF Spec
=============================================================================
