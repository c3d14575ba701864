------------------------------ MODULE CaseLoop ------------------------------
(***************************************************************************)
(* One payment's way through POST /events, attempt after attempt.  The     *)
(* service keeps nothing of a case between two runs, and the retry count   *)
(* it limits is the one its caller sends.  The caller here is the honest   *)
(* one the code is written for: it sends the count it knows, raises it by  *)
(* one when the payment of a link has failed again, and sends the same     *)
(* event again when it got no answer or was told that no link was made.    *)
(*                                                                         *)
(* A run is one step here; RecoveryPipeline shows that it makes one link   *)
(* at the most, and that a run said to have failed may have made it.       *)
(***************************************************************************)
EXTENDS RecoveryPolicy

CONSTANTS Payments,       \* the events of first failures
          Engines,        \* what pipeline.decide may be bound to
          Days,           \* days on which the caller may stamp an event
          MaxBlind        \* bound on the links the caller does not know of

ASSUME PaymentsAssumption ==
    Payments \subseteq {e \in FailureEvent : e.retry_count = 0}
ASSUME EnginesAssumption == Engines \subseteq EngineNames
ASSUME BoundsAssumption == Days \subseteq Int /\ MaxBlind \in Nat

VARIABLES
    engine,               \* the planner of the service
    event,                \* what the caller posts, or has posted
    phase,                \* where the caller is
    outcome,              \* what the last run says of itself
    links,                \* how many links the customer was sent
    blind                 \* how many of them the caller does not know of

vars == <<engine, event, phase, outcome, links, blind>>

Outcomes == {"none", "created", "failed", "denied", "escalated", "nothing"}

\* The caller is told one of the outcomes it knows what to do with
TypeOK ==
    /\ engine \in Engines
    /\ event \in FailureEvent
    /\ phase \in {"ready", "posted", "answered", "settled"}
    /\ outcome \in Outcomes
    /\ links \in Nat
    /\ blind \in Nat

Init ==
    /\ engine \in Engines
    /\ event \in Payments
    /\ phase = "ready"
    /\ outcome = "none"
    /\ links = 0
    /\ blind = 0

Verdict(e) == Authorize(e, Plan(engine, e, Diagnose(e))[1])

\* run_pipeline on the posted event.  Any answer below 400 is a link created
\* to the client, also one that names none
Post ==
    LET gate == Verdict(event)
    IN  /\ phase = "ready"
        /\ phase' = "posted"
        /\ \/ /\ ~gate.authorized
              /\ outcome' = "denied"
              /\ UNCHANGED <<links, blind>>
           \/ /\ gate.authorized /\ Dispatch(gate) # "link"
              /\ outcome' = Dispatch(gate)
              /\ UNCHANGED <<links, blind>>
           \/ /\ gate.authorized /\ Dispatch(gate) = "link"
              /\ outcome' = "created"
              /\ links' \in {links, links + 1}
              /\ UNCHANGED blind
           \/ /\ gate.authorized /\ Dispatch(gate) = "link"
              /\ outcome' = "failed"
              /\ UNCHANGED <<links, blind>>
           \/ /\ gate.authorized /\ Dispatch(gate) = "link"
              /\ blind < MaxBlind
              /\ outcome' = "failed"
              /\ links' = links + 1
              /\ blind' = blind + 1
        /\ UNCHANGED <<engine, event>>

Answer ==
    /\ phase = "posted"
    /\ phase' = "answered"
    /\ UNCHANGED <<engine, event, outcome, links, blind>>

\* The response is lost, and with it what the caller would have learnt
LoseResponse ==
    /\ phase = "posted"
    /\ phase' = "ready"
    /\ \/ outcome # "created" /\ UNCHANGED blind
       \/ outcome = "created" /\ blind < MaxBlind /\ blind' = blind + 1
    /\ UNCHANGED <<engine, event, outcome, links>>

\* The customer pays, or the case is closed or handed to a person
Settle ==
    /\ phase = "answered" /\ outcome \in {"created", "escalated", "nothing"}
    /\ phase' = "settled"
    /\ UNCHANGED <<engine, event, outcome, links, blind>>

\* The next attempt is stamped with its own time
Again(count) ==
    /\ phase' = "ready"
    /\ \E day \in Days : \E hour \in 0..23 :
          /\ day >= event.day
          /\ event' = [event EXCEPT !.retry_count = count, !.day = day, !.hour = hour]
    /\ UNCHANGED <<engine, outcome, links, blind>>

FailAgain == phase = "answered" /\ outcome = "created" /\ Again(event.retry_count + 1)

\* Nothing has been tried: the promise or the night is waited out, or the
\* provider's trouble
TryAgain ==
    /\ phase = "answered" /\ outcome \in {"failed", "denied"}
    /\ Again(event.retry_count)

Next == Post \/ Answer \/ LoseResponse \/ Settle \/ FailAgain \/ TryAgain

Spec == Init /\ [][Next]_vars

(***************************************************************************)
(* Properties                                                              *)
(***************************************************************************)

(***************************************************************************)
(* A customer is sent ten links for a payment and no more, except for one  *)
(* for each response that was lost and each failure that was none: what    *)
(* limits the contacts of a case is its caller's count, and a caller that  *)
(* does not learn of a link does not count it.                             *)
(***************************************************************************)
ContactsAreLimited == links <= 10 + blind

(***************************************************************************)
(* No case is turned away for ever: whatever a planner makes of a case, a  *)
(* denied one is no longer denied if it comes again the day after its      *)
(* promise is due, at noon.                                                *)
(***************************************************************************)
DenialsAreTemporary ==
    phase = "answered" /\ outcome = "denied" =>
        \E day \in {d + 1 : d \in event.ptp_date} \union {event.day} :
            day >= event.day /\ Verdict([event EXCEPT !.day = day, !.hour = 12]).authorized
=============================================================================
