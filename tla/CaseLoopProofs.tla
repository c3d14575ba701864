--------------------------- MODULE CaseLoopProofs ---------------------------
(***************************************************************************)
(* Proofs about CaseLoop, for every payment, planner and day.              *)
(***************************************************************************)
EXTENDS CaseLoop, RecoveryPolicyProofs

-----------------------------------------------------------------------------
\* diagnose, decide and authorize in a row choose an action
LEMMA ChosenType ==
    ASSUME engine \in EngineNames, NEW e \in FailureEvent
    PROVE  Verdict(e).chosen_action.action_type \in ActionTypes
<1>1. Plan(engine, e, Diagnose(e))[1] \in CandidateAction
  BY DiagnoseType, PlanType
<1>2. QED
  BY <1>1 DEF Verdict, Authorize, CandidateAction

\* A run makes a link only within the budget, and what else it does the
\* caller is told, and is not told that a link was created
LEMMA LinksAreWithinBudget ==
    ASSUME engine \in EngineNames, NEW e \in FailureEvent, Verdict(e).authorized
    PROVE  /\ Dispatch(Verdict(e)) \in {"link", "escalated", "nothing"}
           /\ Dispatch(Verdict(e)) = "link" => e.retry_count < RetryBudget
<1> DEFINE action == Verdict(e).chosen_action.action_type
<1>1. action \in ActionTypes
  BY ChosenType
<1>2. BrokenRule(e, action) = {}
  BY DEF Verdict, Authorize
<1>3. action \in RetryActions => e.retry_count < RetryBudget
  BY <1>2 DEF BrokenRule, FailureEvent, RetryBudget
<1>4. QED
  BY <1>1, <1>3 DEF Dispatch, ActionTypes, RetryActions

-----------------------------------------------------------------------------
(***************************************************************************)
(* The inductive invariant.  Each count below the present one stands for   *)
(* one known link at the most, and so does the present one as long as a    *)
(* created link has not been followed up.                                  *)
(***************************************************************************)
Pending == IF outcome = "created" /\ phase # "ready" THEN 1 ELSE 0

Counted ==
    /\ event.retry_count + Pending <= RetryBudget
    /\ links <= event.retry_count + blind + Pending

IInv == TypeOK /\ Counted

LEMMA InitIsCounted == Init => IInv
BY PaymentsAssumption
   DEF Init, IInv, TypeOK, Outcomes, Counted, Pending, RetryBudget, FailureEvent

LEMMA StepIsCounted == IInv /\ [Next]_vars => IInv'
<1> SUFFICES ASSUME IInv, [Next]_vars PROVE IInv'
  OBVIOUS
<1> USE DEF IInv, TypeOK, Outcomes, Counted, Pending, RetryBudget
<1>0. event.retry_count \in Nat /\ engine \in EngineNames
  BY EnginesAssumption DEF FailureEvent
<1>1. CASE Post
  <2>1. phase = "ready" /\ phase' = "posted" /\ event' = event /\ engine' = engine
    BY <1>1 DEF Post
  <2>2. CASE UNCHANGED <<links, blind>> /\ outcome' \in Outcomes \ {"created"}
    BY <1>0, <2>1, <2>2
  <2>3. CASE /\ Verdict(event).authorized /\ Dispatch(Verdict(event)) = "link"
             /\ outcome' = "created" /\ links' \in {links, links + 1} /\ blind' = blind
    BY <1>0, <2>1, <2>3, LinksAreWithinBudget
  <2>4. CASE outcome' = "failed" /\ links' = links + 1 /\ blind' = blind + 1
    BY <1>0, <2>1, <2>4
  <2>5. QED
    <3>1. Verdict(event).authorized =>
             Dispatch(Verdict(event)) \in {"link", "escalated", "nothing"}
      BY <1>0, LinksAreWithinBudget
    <3>2. QED
      BY <1>1, <2>2, <2>3, <2>4, <3>1 DEF Post
<1>2. CASE Answer
  BY <1>0, <1>2 DEF Answer
<1>3. CASE LoseResponse
  <2>1. CASE outcome # "created" /\ UNCHANGED blind
    BY <1>0, <1>3, <2>1 DEF LoseResponse
  <2>2. CASE outcome = "created" /\ blind' = blind + 1
    BY <1>0, <1>3, <2>2 DEF LoseResponse
  <2>3. QED
    BY <1>3, <2>1, <2>2 DEF LoseResponse
<1>4. CASE Settle
  BY <1>0, <1>4 DEF Settle
<1>5. ASSUME NEW n \in Nat, Again(n)
      PROVE  /\ event' \in FailureEvent /\ event'.retry_count = n
             /\ phase' = "ready" /\ UNCHANGED <<engine, outcome, links, blind>>
  <2>1. PICK day \in Days, hour \in 0..23 :
          event' = [event EXCEPT !.retry_count = n, !.day = day, !.hour = hour]
    BY <1>5 DEF Again
  <2>2. day \in Int
    BY BoundsAssumption
  <2>3. event' \in FailureEvent /\ event'.retry_count = n
    BY <2>1, <2>2 DEF FailureEvent
  <2>4. QED
    BY <1>5, <2>3 DEF Again
<1>6. CASE FailAgain
  <2>1. Again(event.retry_count + 1) /\ phase = "answered" /\ outcome = "created"
    BY <1>6 DEF FailAgain
  <2>2. QED
    BY <1>0, <1>5, <2>1
<1>7. CASE TryAgain
  <2>1. Again(event.retry_count) /\ outcome # "created"
    BY <1>7 DEF TryAgain
  <2>2. QED
    BY <1>0, <1>5, <2>1
<1>8. CASE UNCHANGED vars
  BY <1>0, <1>8 DEF vars
<1>9. QED
  BY <1>1, <1>2, <1>3, <1>4, <1>6, <1>7, <1>8 DEF Next

LEMMA AlwaysCounted == Spec => []IInv
BY InitIsCounted, StepIsCounted, PTL DEF Spec

(***************************************************************************)
(* The caller is always in one of its phases, with an event the schema     *)
(* accepts, and is told nothing else than it knows what to do with.        *)
(***************************************************************************)
THEOREM CallerTypeCorrect == Spec => []TypeOK
BY AlwaysCounted, PTL DEF IInv

(***************************************************************************)
(* A customer is sent ten links for a payment and no more, but for one per *)
(* link that the caller does not learn of.                                 *)
(***************************************************************************)
THEOREM ContactsOfACaseAreLimited == Spec => []ContactsAreLimited
<1>1. IInv => ContactsAreLimited
  BY DEF IInv, TypeOK, Counted, Pending, ContactsAreLimited, RetryBudget, FailureEvent
<1>2. QED
  BY <1>1, AlwaysCounted, PTL

-----------------------------------------------------------------------------
(***************************************************************************)
(* At noon of a day after the promise, no rule of the gate stands against  *)
(* what a planner puts first.                                              *)
(***************************************************************************)
LEMMA NothingStandsAtNoon ==
    ASSUME NEW e \in FailureEvent, engine \in EngineNames, e.hour = 12, ~ValidPromise(e)
    PROVE  Verdict(e).authorized
<1> DEFINE action == Plan(engine, e, Diagnose(e))[1].action_type
<1>1. action \in RetryActions => ~(e.retry_count >= RetryBudget) /\ e.amount # 0
  BY PlannersHeedTheDiagnosis DEF FailureEvent, RetryBudget
<1> HIDE DEF action
<1>2. ~QuietHour(e.hour)
  BY DEF QuietHour
<1>3. BrokenRule(e, action) = {}
  BY <1>1, <1>2 DEF BrokenRule
<1>4. QED
  BY <1>3 DEF Verdict, Authorize, action

Noon(e, day) == [e EXCEPT !.day = day, !.hour = 12]

\* Only the day and the hour are others
LEMMA NoonType ==
    ASSUME NEW e \in FailureEvent, NEW day \in Int
    PROVE  /\ Noon(e, day) \in FailureEvent
           /\ Noon(e, day).hour = 12 /\ Noon(e, day).day = day
           /\ Noon(e, day).ptp_date = e.ptp_date
           /\ Noon(e, day).has_active_ptp = e.has_active_ptp
<1>1. 12 \in 0..23
  OBVIOUS
<1>2. Noon(e, day) \in FailureEvent
  BY <1>1 DEF Noon, FailureEvent
<1>3. Noon(e, day).hour = 12
  BY DEF Noon, FailureEvent
<1>4. Noon(e, day).day = day
  BY DEF Noon, FailureEvent
<1>5. /\ Noon(e, day).ptp_date = e.ptp_date
      /\ Noon(e, day).has_active_ptp = e.has_active_ptp
  BY DEF Noon, FailureEvent
<1>6. QED
  BY <1>2, <1>3, <1>4, <1>5

(***************************************************************************)
(* No case is turned away for ever.                                        *)
(***************************************************************************)
THEOREM NoCaseIsTurnedAwayForEver == Spec => []DenialsAreTemporary
<1>1. ASSUME TypeOK PROVE DenialsAreTemporary
  <2>1. /\ engine \in EngineNames /\ event \in FailureEvent
        /\ event.day \in Int /\ event.ptp_date \in Optional(Int)
    BY <1>1, EnginesAssumption DEF TypeOK, FailureEvent
  <2>2. ASSUME NEW day \in Int, day >= event.day,
               day \in {d + 1 : d \in event.ptp_date} \union {event.day},
               ~ValidPromise(Noon(event, day))
        PROVE  DenialsAreTemporary
    <3>1. Verdict(Noon(event, day)).authorized
      BY <2>1, <2>2, NoonType, NothingStandsAtNoon
    <3>2. QED
      BY <2>2, <3>1 DEF DenialsAreTemporary, Noon
  <2>3. CASE ValidPromise(event)
    <3>1. PICK d \in event.ptp_date : d >= event.day
      BY <2>3 DEF ValidPromise
    <3>2. d \in Int /\ \A x \in event.ptp_date : x = d
      BY <2>1 DEF Optional
    <3>3. ~ValidPromise(Noon(event, d + 1))
      <4>1. /\ Noon(event, d + 1).day = d + 1
            /\ Noon(event, d + 1).ptp_date = event.ptp_date
        BY <2>1, <3>2, NoonType
      <4>2. \A x \in event.ptp_date : ~(x >= d + 1)
        BY <3>2
      <4>3. QED
        BY <4>1, <4>2 DEF ValidPromise
    <3>4. d + 1 \in Int /\ d + 1 >= event.day
      BY <2>1, <3>1, <3>2
    <3>5. QED
      BY <2>2, <3>3, <3>4
  <2>4. CASE ~ValidPromise(event)
    <3>1. ~ValidPromise(Noon(event, event.day))
      BY <2>1, <2>4, NoonType DEF ValidPromise
    <3>2. QED
      BY <2>1, <2>2, <3>1
  <2>5. QED
    BY <2>3, <2>4
<1>2. QED
  BY <1>1, AlwaysCounted, PTL DEF IInv
=============================================================================
