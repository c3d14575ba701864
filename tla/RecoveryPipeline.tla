-------------------------- MODULE RecoveryPipeline --------------------------
(***************************************************************************)
(* run_pipeline as the API runs it: every POST /events is handled by a     *)
(* thread of the server's pool, all threads share one Razorpay client, one *)
(* notifier and one audit log.                                             *)
(*                                                                         *)
(* Diagnoser, DecisionEngine and CapabilityGate are pure and take one step *)
(* together.  The thread then meets the world at three points, each a step *)
(* of its own and each with all the answers the code distinguishes: the    *)
(* POST that creates the payment link, the GET that asks for its status,   *)
(* and the audit write.  The process may die between any two steps.        *)
(***************************************************************************)
EXTENDS RecoveryPolicy

CONSTANTS Workers,        \* threads of the server's pool
          Runs,           \* ids of the calls of run_pipeline, used once each
          Events,         \* the failure events that may be posted
          Engines,        \* what pipeline.decide may be bound to
          Customers       \* whether execute gets a CustomerContact: never from
                          \* run_pipeline itself, only from a wrapper around it

ASSUME EventsAssumption  == Events \subseteq FailureEvent /\ Events # {}
ASSUME EnginesAssumption == Engines \subseteq EngineNames /\ Engines # {}
ASSUME RunsAssumption    == Runs # {}
ASSUME CustomersAssumption == Customers \subseteq BOOLEAN /\ Customers # {}

VARIABLES
    engine,               \* the planner this process uses
    pc,                   \* where each thread is in run_pipeline
    used,                 \* runs begun so far
    job,                  \* the call a thread is serving
    result,               \* its executed, execution_result, notification_result
    requests,             \* create requests under way to Razorpay
    links,                \* payment links that exist at Razorpay
    writing, contended, submitted, trail, acked     \* the audit store

store == <<writing, contended, submitted, trail, acked>>
vars  == <<engine, pc, used, job, result, requests, links, store>>

Stages == {"idle", "judge", "post", "await", "receipt", "record", "write"}

Job == [run : Runs, event : Events]

Untouched == {"denied", "escalated", "nothing", "refused"}
Details   == Untouched \union {"none", "created", "failed"}
Receipts  == {"none", "delivered", "undelivered"}
Result    == [executed : BOOLEAN, detail : Details, receipt : Receipts]

\* The request body, with the call that sent it
Request == [run : Runs, event : Events, action : ActionTypes,
            paise : Int, notify : BOOLEAN]

LinkStatus == {"created", "partially_paid", "paid", "expired", "cancelled"}

Link == [run : Runs, event : Events, action : ActionTypes,
         paise : Int, notify : BOOLEAN, status : LinkStatus]

AuditRecord == [run : Runs, event : Events, gate_decision : GateDecision,
                executed : BOOLEAN, detail : Details, receipt : Receipts]

\* Runs get distinct row ids here; AuditLog has the case where they do not
RunOf(record) == record.run

Store == INSTANCE AuditStore
            WITH Writers <- Workers, Records <- AuditRecord, RowId <- RunOf

\* Calls, requests, links and records are those the code and Razorpay can make
TypeOK ==
    /\ engine \in Engines
    /\ pc \in [Workers -> Stages]
    /\ used \subseteq Runs
    /\ job \in [Workers -> Job]
    /\ result \in [Workers -> Result]
    /\ requests \subseteq Request
    /\ links \subseteq Link
    /\ writing \in [Workers -> SUBSET AuditRecord]
    /\ contended \subseteq Workers
    /\ submitted \subseteq AuditRecord
    /\ trail \subseteq AuditRecord
    /\ acked \subseteq [record : AuditRecord, alone : BOOLEAN]

NoResult == [executed |-> FALSE, detail |-> "none", receipt |-> "none"]

Init ==
    /\ engine \in Engines
    /\ pc = [w \in Workers |-> "idle"]
    /\ used = {}
    /\ job = [w \in Workers |-> CHOOSE j \in Job : TRUE]
    /\ result = [w \in Workers |-> NoResult]
    /\ requests = {}
    /\ links = {}
    /\ Store!Init

(***************************************************************************)
(* The pure stages                                                         *)
(***************************************************************************)
\* run_pipeline only ever asks the gate about candidates[0]
Verdict(event) ==
    Authorize(event, Plan(engine, event, Diagnose(event))[1])

ChosenAction(event) == Verdict(event).chosen_action.action_type

\* int(amount * 100) truncates towards zero
Paise(amount) == IF amount >= 0 THEN amount \div 10 ELSE -((-amount) \div 10)

\* notify is sent only for a contact
RequestOf(j, customer) ==
    [run |-> j.run, event |-> j.event, action |-> ChosenAction(j.event),
     paise |-> Paise(j.event.amount), notify |-> customer]

LinkOf(q, status) ==
    [run |-> q.run, event |-> q.event, action |-> q.action,
     paise |-> q.paise, notify |-> q.notify, status |-> status]

\* Mutant of RecordOf: notification_result is not passed to AuditRecord
RecordWithoutReceipt(w) ==
    [run |-> job[w].run, event |-> job[w].event,
     gate_decision |-> Verdict(job[w].event),
     executed |-> result[w].executed, detail |-> result[w].detail]

RecordOf(w) ==
    [run |-> job[w].run, event |-> job[w].event,
     gate_decision |-> Verdict(job[w].event),
     executed |-> result[w].executed, detail |-> result[w].detail,
     receipt |-> result[w].receipt]

(***************************************************************************)
(* One call of run_pipeline                                                *)
(***************************************************************************)
Move(w, from, to) == pc[w] = from /\ pc' = [pc EXCEPT ![w] = to]

Finish(w, executed, detail, receipt) ==
    result' = [result EXCEPT ![w] =
                 [executed |-> executed, detail |-> detail, receipt |-> receipt]]

Receive(w) ==
    /\ Move(w, "idle", "judge")
    /\ \E r \in Runs \ used : \E e \in Events :
          /\ used' = used \union {r}
          /\ job' = [job EXCEPT ![w] = [run |-> r, event |-> e]]
    /\ result' = [result EXCEPT ![w] = NoResult]
    /\ UNCHANGED <<engine, requests, links, store>>

Judge(w) ==
    LET gate    == Verdict(job[w].event)
        outcome == IF gate.authorized THEN Dispatch(gate) ELSE "denied"
    IN  /\ IF outcome = "link"
             THEN Move(w, "judge", "post") /\ UNCHANGED result
             ELSE Move(w, "judge", "record") /\ Finish(w, FALSE, outcome, "none")
        /\ UNCHANGED <<engine, used, job, requests, links, store>>

\* client.create_payment_link sends its one POST
SendRequest(w) ==
    /\ Move(w, "post", "await")
    /\ \E customer \in Customers :
          requests' = requests \union {RequestOf(job[w], customer)}
    /\ UNCHANGED <<engine, used, job, result, links, store>>

HasLink(w) == \E l \in links : l.run = job[w].run

\* 2xx with the new link
AnswerCreated(w) ==
    /\ Move(w, "await", "receipt")
    /\ HasLink(w)
    /\ UNCHANGED <<engine, used, job, result, requests, links, store>>

\* A status below 400 whose JSON has no id counts as created, whether there is
\* a link or not; the notifier then has nothing to ask for
AnswerWithoutId(w) ==
    /\ Move(w, "await", "record")
    /\ Finish(w, TRUE, "created", "undelivered")
    /\ UNCHANGED <<engine, used, job, requests, links, store>>

\* Mutant of AnswerFailed: the client retries what failed
RetryOnFailure(w) ==
    /\ Move(w, "await", "post")
    /\ UNCHANGED <<engine, used, job, result, requests, links, store>>

\* Mutant of AnswerFailed: the client has no timeout
FailedOnlyIfRefused(w) ==
    /\ Move(w, "await", "record")
    /\ \A c \in requests \union links : c.run # job[w].run
    /\ Finish(w, FALSE, "failed", "none")
    /\ UNCHANGED <<engine, used, job, requests, links, store>>

\* A status of 400 or more, or a transport error: a timeout says nothing of
\* what became of the request
AnswerFailed(w) ==
    /\ Move(w, "await", "record")
    /\ Finish(w, FALSE, "failed", "none")
    /\ UNCHANGED <<engine, used, job, requests, links, store>>

\* notifier.record asks for the link's status
ReceiptConfirms(w) ==
    /\ Move(w, "receipt", "record")
    /\ \E l \in links : /\ l.run = job[w].run
                        /\ l.status \in {"created", "partially_paid", "paid"}
    /\ Finish(w, TRUE, "created", "delivered")
    /\ UNCHANGED <<engine, used, job, requests, links, store>>

\* Another status, a status of 400 or more, or a transport error
ReceiptDenies(w) ==
    /\ Move(w, "receipt", "record")
    /\ Finish(w, TRUE, "created", "undelivered")
    /\ UNCHANGED <<engine, used, job, requests, links, store>>

\* A body that is not JSON: resp.json() raises what neither the client nor the
\* notifier nor run_pipeline catches, and the call ends without a record
BodyUnreadable(w) ==
    /\ Move(w, "await", "idle") \/ Move(w, "receipt", "idle")
    /\ UNCHANGED <<engine, used, job, result, requests, links, store>>

StartWrite(w) ==
    /\ Move(w, "record", "write")
    /\ Store!Start(w, RecordOf(w))
    /\ UNCHANGED <<engine, used, job, result, requests, links>>

\* The record is returned to the caller, or the exception escapes
EndWrite(w) ==
    /\ Move(w, "write", "idle")
    /\ Store!Return(w) \/ Store!Raise(w)
    /\ UNCHANGED <<engine, used, job, result, requests, links>>

(***************************************************************************)
(* The provider, the audit database and the process                        *)
(***************************************************************************)
\* Razorpay creates the link, its caller waiting for it or not
ProviderCreates ==
    /\ \E q \in requests : /\ requests' = requests \ {q}
                           /\ links' = links \union {LinkOf(q, "created")}
    /\ UNCHANGED <<engine, pc, used, job, result, store>>

\* Razorpay refuses the request, or the network loses it
ProviderRefuses ==
    /\ \E q \in requests : requests' = requests \ {q}
    /\ UNCHANGED <<engine, pc, used, job, result, links, store>>

\* The customer pays, or the link lapses
LinkMoves ==
    /\ \E l \in links, s \in LinkStatus \ {"created"} :
          /\ l.status \in {"created", "partially_paid"} /\ s # l.status
          /\ links' = (links \ {l}) \union {[l EXCEPT !.status = s]}
    /\ UNCHANGED <<engine, pc, used, job, result, requests, store>>

Persist ==
    /\ Store!Persist
    /\ UNCHANGED <<engine, pc, used, job, result, requests, links>>

Crash ==
    /\ pc' = [w \in Workers |-> "idle"]
    /\ Store!Crash
    /\ UNCHANGED <<engine, used, job, result, requests, links>>

Work(w) == \/ Judge(w) \/ SendRequest(w)
           \/ AnswerCreated(w) \/ AnswerWithoutId(w) \/ AnswerFailed(w)
           \/ ReceiptConfirms(w) \/ ReceiptDenies(w) \/ BodyUnreadable(w)
           \/ StartWrite(w) \/ EndWrite(w)

Next ==
    \/ \E w \in Workers : Receive(w) \/ Work(w)
    \/ ProviderCreates \/ ProviderRefuses \/ LinkMoves
    \/ Persist
    \/ Crash

Spec == Init /\ [][Next]_vars

(***************************************************************************)
(* Properties                                                              *)
(***************************************************************************)
\* What GovernedRecovery sees of a link and of a record
ContactOf(l) == [run |-> l.run, event |-> l.event, action |-> l.action]

EntryOf(t) == [run    |-> t.run,
               event  |-> t.event,
               action |-> t.gate_decision.chosen_action.action_type,
               claim  |-> IF t.detail \in Untouched THEN "left alone" ELSE "tried"]

Contacts == {ContactOf(l) : l \in links}
Entries  == {EntryOf(t) : t \in trail}

Governed == INSTANCE GovernedRecovery WITH contacts <- Contacts, trail <- Entries

(***************************************************************************)
(* The gate cannot be got round: whichever planner is plugged in, and      *)
(* however threads, timeouts, late requests and restarts fall, a link that *)
(* exists, or may yet come to exist out of a request under way, is for an  *)
(* event and an action that policy permits.                                *)
(***************************************************************************)
ContactIsPermitted ==
    \A c \in links \union requests : Governed!Permitted(c.event, c.action)

(***************************************************************************)
(* One call of run_pipeline makes at most one link: the client never sends *)
(* its POST twice, however the first one ends.                             *)
(***************************************************************************)
OneLinkPerRun ==
    \A c, d \in links \union requests : c.run = d.run => c = d

(***************************************************************************)
(* What a record says is so, from the moment it is written and for ever:   *)
(* a run said to be denied, escalated or idle has no link and will get     *)
(* none; a delivery receipt is for a link that exists; a receipt is there  *)
(* exactly for an executed run, and only an authorized retry is executed.  *)
(***************************************************************************)
UntouchedIsUntouched(r) ==
    r.detail \in Untouched => \A c \in links \union requests : c.run # r.run

DeliveredHasLink(r) ==
    r.receipt = "delivered" => \E l \in links : l.run = r.run

ExecutedWasAuthorized(r) ==
    /\ r.executed <=> r.receipt # "none"
    /\ r.executed => /\ r.gate_decision.authorized
                     /\ r.gate_decision.chosen_action.action_type \in RetryActions

RecordsTellTruth ==
    \A r \in submitted : /\ UntouchedIsUntouched(r)
                         /\ DeliveredHasLink(r)
                         /\ ExecutedWasAuthorized(r)

(***************************************************************************)
(* A run whose caller got its record back, and whose audit write met no    *)
(* other, is in the trail, with the link if it made one, whatever happens  *)
(* to the process afterwards.                                              *)
(***************************************************************************)
AnsweredRunIsOnRecord ==
    \A a \in acked : a.alone => a.record \in trail

(***************************************************************************)
(* The pipeline does what GovernedRecovery promises.                       *)
(***************************************************************************)
ImplementsGoverned == Governed!Spec

(***************************************************************************)
(* capability_gate.py: customers are not contacted "during quiet hours     *)
(* (22:00-07:00 UTC)".  An immediate retry keeps clear of them.            *)
(***************************************************************************)
QuietHoursAreUtc ==
    \A l \in links : l.action = "retry_now" => ~QuietHour(UtcHour(l.event))

(***************************************************************************)
(* README.md: contacting customers "who hold a valid promise-to-pay and    *)
(* during quiet hours" is what the gate blocks.  No link is made for an    *)
(* event of the quiet hours.                                               *)
(***************************************************************************)
QuietHoursHaveNoContact ==
    \A l \in links : ~QuietHour(l.event.hour)

(***************************************************************************)
(* notifier/__init__.py: delivered=True means that Razorpay was instructed *)
(* to notify the customer.                                                 *)
(***************************************************************************)
DeliveredWasInstructed ==
    \A r \in submitted : r.receipt = "delivered" =>
        \E l \in links : l.run = r.run /\ l.notify
=============================================================================
