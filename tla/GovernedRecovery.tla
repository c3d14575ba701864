-------------------------- MODULE GovernedRecovery --------------------------
(***************************************************************************)
(* What RecoveryLoop as a whole promises, with no threads, provider or     *)
(* database in sight: customers are contacted only where policy permits    *)
(* it, at most once per run, and what the trail says of a run is not       *)
(* contradicted by a contact made before or after it was written.          *)
(***************************************************************************)
EXTENDS RecoveryPolicy

CONSTANTS Runs,           \* the runs of the pipeline
          Events          \* the failure events they are given

VARIABLES contacts,       \* the payment links that exist: [run, event, action]
          trail           \* the audit trail: [run, event, action, claim]

vars == <<contacts, trail>>

\* A payment link may exist for this event on the strength of this action.
\* Spelled out, and not in terms of the gate's own operators
Permitted(event, action) ==
    /\ action \in RetryActions
    /\ event.retry_count \in 0..9
    /\ event.has_active_ptp => \A d \in event.ptp_date : d < event.day
    /\ event.amount # 0
    /\ action = "retry_now" => event.hour \in 7..21

\* The record says that the run left the customer alone, or that it tried
Claims == {"left alone", "tried"}

Agree(contact, entry) ==
    contact.run = entry.run =>
        /\ entry.claim = "tried"
        /\ contact.event = entry.event
        /\ contact.action = entry.action

Init ==
    /\ contacts = {}
    /\ trail = {}

Contact ==
    /\ \E r \in Runs, e \in Events, a \in RetryActions :
          LET contact == [run |-> r, event |-> e, action |-> a]
          IN  /\ Permitted(e, a)
              /\ \A c \in contacts : c.run # r
              /\ \A t \in trail : Agree(contact, t)
              /\ contacts' = contacts \union {contact}
    /\ UNCHANGED trail

\* One commit may write the records of several runs
Log ==
    /\ trail \subseteq trail'
    /\ \A t \in trail' \ trail :
          /\ t \in [run : Runs, event : Events, action : ActionTypes, claim : Claims]
          /\ \A u \in trail' : u.run = t.run => u = t
          /\ \A c \in contacts : Agree(c, t)
    /\ UNCHANGED contacts

Next == Contact \/ Log

Spec == Init /\ [][Next]_vars
=============================================================================
