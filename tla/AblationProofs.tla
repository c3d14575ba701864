--------------------------- MODULE AblationProofs ---------------------------
(***************************************************************************)
(* Proofs about Ablation, for every batch of any length.                   *)
(***************************************************************************)
EXTENDS Ablation, RecoveryPolicyProofs, FiniteSetTheorems

-----------------------------------------------------------------------------
(***************************************************************************)
(* The inductive invariant: in a row the globals are those of the row,     *)
(* outside of one those of the module, and within the finally the engine   *)
(* is back before the gate is.                                             *)
(***************************************************************************)
RowIsBound ==
    /\ row \in 1..5
    /\ phase \in Phases
    /\ phase \notin {"bind", "failed", "written"} => row \in 1..4
    /\ decide \in EngineNames \union {"diagnosis_only"}
    /\ authorize \in {"authorize", "always_authorized"}
    /\ InRow => /\ decide = Rows[row].policy
                /\ authorize = IF Rows[row].gate THEN "authorize" ELSE "always_authorized"
    /\ phase \in {"returning", "raising"} => decide = "decision_engine"

Bindings == RowIsBound /\ BindingsComeBack

LEMMA RowsAreFour ==
    /\ Len(Rows) = 4
    /\ \A r \in 1..4 : Rows[r].policy \in EngineNames \union {"diagnosis_only"}
BY DEF Rows, Row, EngineNames

\* A row starts from the module's bindings and gives them back
LEMMA InitBindings == Init => Bindings
BY DEF Init, Bindings, RowIsBound, BindingsComeBack, InRow, Phases, EngineNames

LEMMA NextBindings == Bindings /\ [Next]_vars => Bindings'
<1> SUFFICES ASSUME Bindings, [Next]_vars PROVE Bindings'
  OBVIOUS
<1> USE DEF Bindings, RowIsBound, BindingsComeBack, InRow, Phases
<1>1. CASE Bind
  BY <1>1, RowsAreFour DEF Bind
<1>2. CASE Score \/ Report
  BY <1>2 DEF Score, Report
<1>3. CASE Reject \/ EmptyBatch
  BY <1>3 DEF Reject, EmptyBatch
<1>4. CASE Interrupt
  BY <1>4 DEF Interrupt
<1>5. CASE RestoreDecide
  BY <1>5 DEF RestoreDecide, EngineNames
<1>6. CASE RestoreAuthorize
  BY <1>6 DEF RestoreAuthorize
<1>7. CASE WriteFile
  BY <1>7 DEF WriteFile
<1>8. CASE UNCHANGED vars
  BY <1>8 DEF vars
<1>9. QED
  BY <1>1, <1>2, <1>3, <1>4, <1>5, <1>6, <1>7, <1>8 DEF Next

(***************************************************************************)
(* Whatever a row meets, an exception or a control-C, the engine and the   *)
(* gate are in place again when it is over, unless the control-C falls     *)
(* into the finally itself.                                                *)
(***************************************************************************)
THEOREM BindingsAlwaysComeBack == Spec => []BindingsComeBack
<1>1. Bindings => BindingsComeBack
  BY DEF Bindings
<1>2. QED
  BY InitBindings, NextBindings, <1>1, PTL DEF Spec

-----------------------------------------------------------------------------
(***************************************************************************)
(* Gated rows are governed.  The invariant remembers of each audit result  *)
(* of the row that its event is one, and that the contact is permitted.    *)
(***************************************************************************)
Sound(r) == r.executed => Governed!Permitted(r.event, Action(r))

Results == [ event : FailureEvent, diagnosis : Diagnosis,
             gate_decision : GateDecision, executed : BOOLEAN ]

RowInv ==
    /\ Bindings
    /\ batch \in Batches
    /\ at \in Nat \ {0}
    /\ results \in Seq(Results)
    /\ InRow /\ Rows[row].gate => \A i \in DOMAIN results : Sound(results[i])

\* One case through the pipeline leaves an audit result
LEMMA ResultType ==
    ASSUME NEW e \in FailureEvent, decide \in EngineNames \union {"diagnosis_only"}
    PROVE  RunPipeline(e) \in Results
<1> DEFINE top  == Plan(decide, e, Diagnose(e))[1]
           gate == IF authorize = "authorize" THEN Authorize(e, top)
                                              ELSE AlwaysAuthorized(top)
<1>1. top \in CandidateAction /\ Diagnose(e) \in Diagnosis
  BY DiagnoseType, PlanType
<1> HIDE DEF top
<1>2. AlwaysAuthorized(top) \in GateDecision
  BY <1>1 DEF AlwaysAuthorized, GateDecision, Optional
<1>3. gate \in GateDecision
  BY <1>1, <1>2, AuthorizeType
<1> HIDE DEF gate
<1>4. RunPipeline(e) = [ event |-> e, diagnosis |-> Diagnose(e), gate_decision |-> gate,
                         executed |-> /\ Dispatch(gate) = "link"
                                      /\ CreatePaymentLink(FALSE) = "created" ]
  BY DEF RunPipeline, gate, top
<1> DEFINE executed == Dispatch(gate) = "link" /\ CreatePaymentLink(FALSE) = "created"
<1>5. executed \in BOOLEAN
  OBVIOUS
<1> HIDE DEF executed
<1>6. RunPipeline(e) = [ event |-> e, diagnosis |-> Diagnose(e), gate_decision |-> gate,
                         executed |-> executed ]
  BY <1>4 DEF executed
<1>7. QED
  BY <1>1, <1>3, <1>5, <1>6 DEF Results

\* With the gate in place it contacts nobody whom policy protects
LEMMA GatedResultIsSound ==
    ASSUME NEW e \in FailureEvent, decide \in EngineNames \union {"diagnosis_only"},
           authorize = "authorize"
    PROVE  Sound(RunPipeline(e))
<1> DEFINE top == Plan(decide, e, Diagnose(e))[1]
<1>1. top \in CandidateAction
  BY DiagnoseType, PlanType
<1>2. /\ RunPipeline(e).event = e
      /\ RunPipeline(e).gate_decision = Authorize(e, top)
      /\ RunPipeline(e).executed => Dispatch(Authorize(e, top)) = "link"
  BY DEF RunPipeline
<1> HIDE DEF top
<1>3. Action(RunPipeline(e)) = top.action_type
  BY <1>2 DEF Action, Authorize
<1>4. top.action_type \in ActionTypes
  BY <1>1 DEF CandidateAction
<1>5. ASSUME RunPipeline(e).executed
      PROVE  Authorize(e, top).authorized /\ top.action_type \in RetryActions
  <2>1. Dispatch(Authorize(e, top)) = "link"
    BY <1>2, <1>5
  <2>2. Authorize(e, top).chosen_action.action_type = top.action_type
    BY DEF Authorize
  <2>3. Authorize(e, top) \in GateDecision
    BY <1>1, AuthorizeType
  <2> DEFINE gate == Authorize(e, top)
  <2> HIDE DEF gate
  <2>4. gate.authorized \in BOOLEAN /\ Dispatch(gate) = "link"
        /\ gate.chosen_action.action_type = top.action_type
    BY <2>1, <2>2, <2>3 DEF gate, GateDecision
  <2>5. gate.authorized /\ top.action_type \in RetryActions
    BY <1>4, <2>4 DEF Dispatch, ActionTypes, RetryActions
  <2>6. QED
    BY <2>5 DEF gate
<1>6. QED
  BY <1>1, <1>2, <1>3, <1>5, GateRefuses
     DEF Sound, Governed!Permitted, Governed!RetryActions, RetryActions

LEMMA InitRow == Init => RowInv
BY InitBindings DEF Init, RowInv, InRow

LEMMA NextRow == RowInv /\ [Next]_vars => RowInv'
<1> SUFFICES ASSUME RowInv, [Next]_vars PROVE RowInv'
  OBVIOUS
<1>b. Bindings /\ Bindings'
  BY NextBindings DEF RowInv
<1> USE DEF RowInv, InRow
<1>1. CASE Bind
  BY <1>b, <1>1 DEF Bind
<1>2. CASE Score
  <2>1. /\ phase = "score" /\ at \in 1..Len(batch)
        /\ UNCHANGED <<batch, row, phase, decide, authorize>>
    BY <1>2, BatchesAssumption DEF Score
  <2>2. PICK case \in batch[at] : results' = Append(results, RunPipeline(case.event))
    BY <1>2 DEF Score
  <2>3. case.event \in FailureEvent
    <3>1. batch[at] \in Optional(Case)
      BY <2>1, BatchesAssumption
    <3>2. case \in Case
      BY <3>1 DEF Optional
    <3>3. QED
      BY <3>2 DEF Case
  <2>4. decide \in EngineNames \union {"diagnosis_only"}
    BY <1>b, <2>1, RowsAreFour DEF Bindings, RowIsBound
  <2>5. RunPipeline(case.event) \in Results
    BY <2>3, <2>4, ResultType
  <2>6. Rows[row].gate => Sound(RunPipeline(case.event))
    BY <1>b, <2>1, <2>3, <2>4, GatedResultIsSound DEF Bindings, RowIsBound
  <2> DEFINE new == RunPipeline(case.event)
  <2> HIDE DEF new
  <2>7. results' = Append(results, new) /\ new \in Results
        /\ (Rows[row].gate => Sound(new))
    BY <2>2, <2>5, <2>6 DEF new
  <2>8. results' \in Seq(Results)
    BY <2>7
  <2>9. ASSUME NEW i \in DOMAIN results', Rows[row].gate PROVE Sound(results'[i])
    <3>1. i \in 1..(Len(results) + 1)
      BY <2>7
    <3>2. results'[i] = IF i = Len(results) + 1 THEN new ELSE results[i]
      BY <2>7, <3>1
    <3>3. CASE i = Len(results) + 1
      BY <2>7, <2>9, <3>2, <3>3
    <3>4. CASE i \in DOMAIN results
      BY <2>1, <2>9, <3>2, <3>4
    <3>5. QED
      BY <3>1, <3>3, <3>4
  <2>10. Rows'[row'].gate = Rows[row].gate
    BY <2>1 DEF Rows, Row
  <2>11. at' \in Nat \ {0}
    BY <1>2 DEF Score
  <2>12. \A i \in DOMAIN results' : Sound(results[i])' <=> Sound(results'[i])
    BY DEF Sound, Action, Governed!Permitted
  <2>13. QED
    BY <1>b, <2>1, <2>8, <2>9, <2>10, <2>11, <2>12
<1>3. CASE Reject \/ EmptyBatch \/ Interrupt \/ Report
  BY <1>b, <1>3 DEF Reject, EmptyBatch, Interrupt, Report, locals
<1>4. CASE RestoreDecide \/ RestoreAuthorize
  BY <1>b, <1>4 DEF RestoreDecide, RestoreAuthorize, locals
<1>5. CASE WriteFile
  BY <1>b, <1>5 DEF WriteFile, locals
<1>6. CASE UNCHANGED vars
  BY <1>b, <1>6 DEF vars, locals
<1>7. QED
  BY <1>1, <1>2, <1>3, <1>4, <1>5, <1>6 DEF Next

(***************************************************************************)
(* In every row announced as gated, on any batch, only those are contacted *)
(* whom policy permits to contact.                                         *)
(***************************************************************************)
THEOREM GatedRowsStayGoverned == Spec => []GatedRowsAreGoverned
<1>1. RowInv => GatedRowsAreGoverned
  BY DEF RowInv, GatedRowsAreGoverned, Sound, Range
<1>2. QED
  BY InitRow, NextRow, <1>1, PTL DEF Spec

-----------------------------------------------------------------------------
(***************************************************************************)
(* What a row computes.  With the bindings made explicit, one case through *)
(* the pipeline is a function of the row and the event.                    *)
(***************************************************************************)
PolicyNames == EngineNames \union {"diagnosis_only"}

FirstChoice(policy, event) == Plan(policy, event, Diagnose(event))[1]

Verdict(policy, gated, event) ==
    IF gated THEN Authorize(event, FirstChoice(policy, event))
             ELSE AlwaysAuthorized(FirstChoice(policy, event))

ResultOf(policy, gated, event) ==
    [ event         |-> event,
      diagnosis     |-> Diagnose(event),
      gate_decision |-> Verdict(policy, gated, event),
      executed      |-> /\ Dispatch(Verdict(policy, gated, event)) = "link"
                        /\ CreatePaymentLink(FALSE) = "created" ]

LEMMA ResultIsOfItsRow ==
    ASSUME NEW e
    PROVE  RunPipeline(e) = ResultOf(decide, authorize = "authorize", e)
BY DEF RunPipeline, ResultOf, Verdict, FirstChoice

LEMMA ChoiceType ==
    ASSUME NEW e \in FailureEvent, NEW p \in PolicyNames
    PROVE  FirstChoice(p, e) \in CandidateAction
BY DiagnoseType, PlanType DEF FirstChoice, PolicyNames

LEMMA VerdictType ==
    ASSUME NEW e \in FailureEvent, NEW p \in PolicyNames, NEW g \in BOOLEAN
    PROVE  /\ Verdict(p, g, e) \in GateDecision
           /\ Verdict(p, g, e).chosen_action = FirstChoice(p, e)
           /\ Verdict(p, g, e).authorized <=>
                (g => BrokenRule(e, FirstChoice(p, e).action_type) = {})
<1> DEFINE top == FirstChoice(p, e)
<1>1. top \in CandidateAction
  BY ChoiceType
<1> HIDE DEF top
<1>2. AlwaysAuthorized(top) \in GateDecision
  BY <1>1 DEF AlwaysAuthorized, GateDecision, Optional
<1>3. Authorize(e, top) \in GateDecision
  BY <1>1, AuthorizeType
<1>4. Verdict(p, g, e) = IF g THEN Authorize(e, top) ELSE AlwaysAuthorized(top)
  BY DEF Verdict, top
<1>5. Authorize(e, top).authorized <=> BrokenRule(e, top.action_type) = {}
  <2> DEFINE lets == BrokenRule(e, top.action_type) = {}
  <2>1. Authorize(e, top) = [ chosen_action |-> top, authorized |-> lets,
                policy_rule_triggered |-> BrokenRule(e, top.action_type) ]
    BY DEF Authorize
  <2> HIDE DEF lets
  <2>2. Authorize(e, top).authorized = lets
    BY <2>1
  <2>3. QED
    BY <2>2 DEF lets
<1>6. Verdict(p, g, e).authorized <=> (g => BrokenRule(e, top.action_type) = {})
  <2>1. CASE g
    BY <1>4, <1>5, <2>1
  <2>2. CASE ~g
    BY <1>4, <2>2 DEF AlwaysAuthorized
  <2>3. QED
    BY <2>1, <2>2
<1>7. Verdict(p, g, e).chosen_action = top
  BY <1>4 DEF Authorize, AlwaysAuthorized
<1>8. Verdict(p, g, e) \in GateDecision
  BY <1>2, <1>3, <1>4
<1>9. QED
  BY <1>6, <1>7, <1>8 DEF top

\* What is contacted is what the planner chose to retry and nothing forbade
LEMMA ResultFields ==
    ASSUME NEW e \in FailureEvent, NEW p \in PolicyNames, NEW g \in BOOLEAN
    PROVE  LET r      == ResultOf(p, g, e)
               chosen == FirstChoice(p, e).action_type
           IN  /\ r.event = e
               /\ r.diagnosis = Diagnose(e)
               /\ Action(r) = chosen
               /\ chosen \in ActionTypes
               /\ r.gate_decision.authorized <=> (g => BrokenRule(e, chosen) = {})
               /\ r.executed <=> /\ g => BrokenRule(e, chosen) = {}
                                 /\ chosen \in RetryActions
               /\ ShouldExecute(r) <=> r.executed
<1> DEFINE v      == Verdict(p, g, e)
           r      == ResultOf(p, g, e)
           chosen == FirstChoice(p, e).action_type
<1> DEFINE executed == /\ Dispatch(v) = "link"
                       /\ CreatePaymentLink(FALSE) = "created"
<1>0. v \in GateDecision
  BY VerdictType
<1>1. /\ v.chosen_action.action_type = chosen
      /\ v.authorized <=> (g => BrokenRule(e, chosen) = {})
  BY VerdictType
<1>2. chosen \in ActionTypes
  BY ChoiceType DEF CandidateAction
<1> HIDE DEF chosen
<1>9. executed <=> Dispatch(v) = "link"
  BY DEF CreatePaymentLink
<1>10. r = [ event |-> e, diagnosis |-> Diagnose(e), gate_decision |-> v,
             executed |-> executed ]
  BY DEF ResultOf
<1> HIDE DEF v, r, executed
<1>3. /\ r.event = e /\ r.diagnosis = Diagnose(e) /\ r.gate_decision = v
      /\ r.executed <=> Dispatch(v) = "link"
  BY <1>9, <1>10
<1>4. v.authorized \in BOOLEAN
  BY <1>0 DEF GateDecision
<1>5. Dispatch(v) = "link" <=> v.authorized /\ chosen \in RetryActions
  BY <1>1, <1>2, <1>4 DEF Dispatch, ActionTypes, RetryActions
<1>6. Action(r) = chosen
  BY <1>1, <1>3 DEF Action
<1>7. ShouldExecute(r) <=> r.executed
  BY <1>3, <1>4, <1>5, <1>6 DEF ShouldExecute
<1>8. QED
  BY <1>1, <1>2, <1>3, <1>4, <1>5, <1>6, <1>7 DEF r, chosen

-----------------------------------------------------------------------------
(***************************************************************************)
(* The properties of a row, of one event                                   *)
(***************************************************************************)
LEMMA EngineIsPreferred ==
    ASSUME NEW e \in FailureEvent
    PROVE  FirstChoice("decision_engine", e).action_type = Preferred(e)
BY EngineChoice DEF FirstChoice, Plan

LEMMA DenialsOfTheEngine ==
    ASSUME NEW e \in FailureEvent,
           ~ResultOf("decision_engine", TRUE, e).gate_decision.authorized
    PROVE  LET r    == ResultOf("decision_engine", TRUE, e)
               rule == r.gate_decision.policy_rule_triggered
           IN  \/ rule = {"quiet_hours"} /\ r.event.retry_count = 0
               \/ /\ rule = {"active_valid_ptp_blocks_contact"}
                  /\ r.event.retry_count >= RetryBudget
<1> DEFINE r == ResultOf("decision_engine", TRUE, e)
<1>1. r.event = e /\ BrokenRule(e, Preferred(e)) # {}
  BY ResultFields, EngineIsPreferred DEF EngineNames, PolicyNames
<1>2. r.gate_decision.policy_rule_triggered = BrokenRule(e, Preferred(e))
  BY EngineIsPreferred DEF ResultOf, Verdict, Authorize
<1>3. QED
  BY <1>1, <1>2, EngineAgainstGate

LEMMA ContactsHeedTheCode ==
    ASSUME NEW e \in FailureEvent, NEW p \in PolicyNames, NEW g \in BOOLEAN,
           ResultOf(p, g, e).executed
    PROVE  e.failure_code \notin {"expired_card", "unknown"}
<1>1. FirstChoice(p, e).action_type \in RetryActions
  BY ResultFields
<1>2. QED
  BY <1>1, PlannersHeedTheCode DEF FirstChoice, PolicyNames, RetryableCodes

LEMMA GateDecidesTheDifference ==
    ASSUME NEW e \in FailureEvent
    PROVE  LET gated == ResultOf("always_retry", TRUE, e)
               free  == ResultOf("diagnosis_only", FALSE, e)
           IN  /\ Action(gated) = Action(free)
               /\ gated.executed <=> /\ free.executed
                                     /\ Governed!Permitted(gated.event, Action(gated))
<1> DEFINE gated  == ResultOf("always_retry", TRUE, e)
           free   == ResultOf("diagnosis_only", FALSE, e)
           top    == FirstChoice("always_retry", e)
           chosen == top.action_type
<1>1. FirstChoice("diagnosis_only", e) = top
  BY BaselineChoice DEF FirstChoice
<1>2. /\ Action(gated) = chosen
      /\ gated.event = e
      /\ gated.executed <=> BrokenRule(e, chosen) = {} /\ chosen \in RetryActions
  BY ResultFields DEF PolicyNames, EngineNames
<1>3. Action(free) = chosen /\ (free.executed <=> chosen \in RetryActions)
  BY <1>1, ResultFields DEF PolicyNames, EngineNames
<1>4. top \in CandidateAction
  BY ChoiceType DEF PolicyNames, EngineNames
<1>5. Authorize(e, top).authorized <=> BrokenRule(e, chosen) = {}
  <2> DEFINE lets == BrokenRule(e, chosen) = {}
  <2>1. Authorize(e, top) = [ chosen_action |-> top, authorized |-> lets,
                policy_rule_triggered |-> BrokenRule(e, chosen) ]
    BY DEF Authorize
  <2> HIDE DEF lets
  <2>2. Authorize(e, top).authorized = lets
    BY <2>1
  <2>3. QED
    BY <2>2 DEF lets
<1> HIDE DEF gated, free, top
<1>6. chosen \in RetryActions =>
        (BrokenRule(e, chosen) = {} <=> Governed!Permitted(e, chosen))
  BY <1>4, <1>5, GateRefuses, GateLetsThrough
     DEF Governed!Permitted, Governed!RetryActions, RetryActions
<1>7. Governed!Permitted(e, chosen) => chosen \in RetryActions
  BY DEF Governed!Permitted, Governed!RetryActions, RetryActions
<1>8. QED
  BY <1>2, <1>3, <1>6, <1>7 DEF gated, free

LEMMA RetriesOnlyAddUp ==
    ASSUME NEW e \in FailureEvent, NEW n \in Nat, e.retry_count <= n
    PROVE  Insistence(Favourite([e EXCEPT !.retry_count = n])) <= Insistence(Favourite(e))
<1> DEFINE f == [e EXCEPT !.retry_count = n]
<1>1. f \in FailureEvent
  BY DEF FailureEvent
<1>2. /\ f.retry_count = n /\ f.amount = e.amount /\ f.failure_code = e.failure_code
      /\ f.has_active_ptp = e.has_active_ptp /\ f.ptp_date = e.ptp_date /\ f.day = e.day
  BY DEF FailureEvent
<1>3. e.retry_count \in Nat
  BY DEF FailureEvent
<1> HIDE DEF f
<1>4. ValidPromise(f) <=> ValidPromise(e)
  BY <1>2 DEF ValidPromise
<1>5. Favourite(f) = Preferred(f) /\ Favourite(e) = Preferred(e)
  BY <1>1, EngineChoice DEF Favourite
<1>6. /\ Insistence("retry_now") = 2 /\ Insistence("retry_later") = 1
      /\ Insistence("escalate") = 0 /\ Insistence("no_action") = 0
  BY DEF Insistence
<1>7. Insistence(Preferred(f)) <= Insistence(Preferred(e))
  BY <1>2, <1>3, <1>4, <1>6 DEF Preferred, RetryBudget
<1>8. QED
  BY <1>5, <1>7 DEF f

-----------------------------------------------------------------------------
(***************************************************************************)
(* Engine and labels, of one event the generator may draw                  *)
(***************************************************************************)
\* No drawn event is later than the reference date
LEMMA DrawnBeforeTheReference ==
    ASSUME NEW m \in Moments PROVE m[1] <= 0
<1>1. CASE m \in {<<0, hour>> : hour \in 18..21}
  BY <1>1
<1>2. CASE m \in {<<h \div 24, h % 24>> : h \in (21 - 31 * 24)..(21 - 2 * 24)}
  <2>1. PICK h \in (21 - 31 * 24)..(21 - 2 * 24) : m = <<h \div 24, h % 24>>
    BY <1>2
  <2>2. h \div 24 <= 0
    BY <2>1
  <2>3. QED
    BY <2>1, <2>2
<1>3. QED
  BY <1>1, <1>2 DEF Moments

\* A label asks for a contact if it names a retry
LEMMA LabelWants ==
    ASSUME NEW case, NEW kind, case.label \in Labels(kind, case.event)
    PROVE  ExpectedExecute(case) <=> LabelAction(kind, case.event) \in RetryActions
<1> DEFINE action     == LabelAction(kind, case.event)
           authorized == action # "no_action"
           cause      == IF kind = "amount_zero" THEN "zero_amount"
                                                 ELSE case.event.failure_code
<1>1. PICK outcome : case.label = [ root_cause |-> cause, action |-> action,
                                    authorized |-> authorized, outcome |-> outcome ]
  BY DEF Labels
<1> HIDE DEF action, authorized, cause
<1>2. case.label.action = action /\ case.label.authorized = authorized
  BY <1>1
<1>3. action \in RetryActions => authorized
  BY DEF RetryActions, authorized
<1>4. QED
  BY <1>2, <1>3 DEF ExpectedExecute, action

\* A promise that the generator calls valid binds the engine on the day
LEMMA DrawnPromiseStands ==
    ASSUME NEW e \in FailureEvent, MayDraw("ptp_valid", e) PROVE ValidPromise(e)
<1>1. /\ e.has_active_ptp
      /\ e.ptp_date \in {{d} : d \in 1..7}
      /\ <<e.day, e.hour>> \in Moments
  BY DEF MayDraw, ShapeOf, Shape
<1>2. PICK d \in 1..7 : e.ptp_date = {d}
  BY <1>1
<1>3. e.day <= 0
  BY <1>1, DrawnBeforeTheReference
<1>4. e.day \in Int
  BY DEF FailureEvent
<1>5. QED
  BY <1>1, <1>2, <1>3, <1>4 DEF ValidPromise

\* On what the generator draws, labels of up to two retries ask for a contact
\* just when the engine would plan one and no promise stood on the day
LEMMA LabelsFollowTheEngine ==
    ASSUME NEW e \in FailureEvent, NEW kind \in Kinds, MayDraw(kind, e), ~ValidPromise(e)
    PROVE  /\ LabelAction(kind, e) \in RetryActions => Preferred(e) \in RetryActions
           /\ Preferred(e) \in RetryActions /\ e.retry_count \notin 3..9
                => LabelAction(kind, e) \in RetryActions
<1> USE DEF ShapeOf, Shape, RetryActions, RetryBudget, RetryableCodes
<1>1. /\ e.failure_code \in ShapeOf(kind).codes
      /\ e.retry_count \in ShapeOf(kind).counts
      /\ e.amount = 0 <=> kind = "amount_zero"
  BY DEF MayDraw
<1>2. e.retry_count \in Nat /\ e.failure_code \in FailureCodes
  BY DEF FailureEvent
<1>3. CASE kind \in {"amount_zero", "retry_absurd"}
  BY <1>1, <1>2, <1>3 DEF LabelAction, Preferred
<1>4. CASE kind = "ptp_null"
  BY <1>1, <1>2, <1>4 DEF LabelAction, Preferred, FailureCodes
<1>5. CASE kind \in {"normal", "unknown_high_retry", "stale_ptp"}
  <2>1. /\ LabelAction(kind, e) = ExpectedAction(e.failure_code, e.retry_count, FALSE)
        /\ e.amount # 0
    BY <1>1, <1>5 DEF LabelAction
  <2>2. e.retry_count < 10
    BY <1>1, <1>2, <1>5
  <2>3. e.retry_count < 3 =>
          (LabelAction(kind, e) \in RetryActions <=> e.failure_code \in RetryableCodes)
    BY <2>1, <1>2 DEF ExpectedAction, FailureCodes
  <2>4. e.retry_count >= 3 => LabelAction(kind, e) \notin RetryActions
    BY <2>1, <1>2 DEF ExpectedAction
  <2>5. Preferred(e) \in RetryActions <=> e.failure_code \in RetryableCodes
    BY <2>1, <2>2, <1>2 DEF Preferred
  <2>6. QED
    BY <2>2, <2>3, <2>4, <2>5, <1>2
<1>6. kind # "ptp_valid"
  BY DrawnPromiseStands
<1>7. QED
  BY <1>3, <1>4, <1>5, <1>6 DEF Kinds

LEMMA ErrorsOfTheEngine ==
    ASSUME NEW case \in Case, IsDrawn(case)
    PROVE  LET e    == case.event
               did  == ShouldExecute(ResultOf("decision_engine", TRUE, e))
               want == ExpectedExecute(case)
           IN  /\ did /\ ~want => e.retry_count \in 3..9
               /\ ~did /\ want => QuietHour(e.hour) \/ ValidPromise(e)
<1> DEFINE e    == case.event
           did  == ShouldExecute(ResultOf("decision_engine", TRUE, e))
           want == ExpectedExecute(case)
<1>1. e \in FailureEvent
  BY DEF Case
<1>2. did <=> BrokenRule(e, Preferred(e)) = {} /\ Preferred(e) \in RetryActions
  BY <1>1, ResultFields, EngineIsPreferred DEF PolicyNames, EngineNames
<1>3. PICK kind \in Kinds : MayDraw(kind, e) /\ case.label \in Labels(kind, e)
  BY DEF IsDrawn
<1>4. want <=> LabelAction(kind, e) \in RetryActions
  BY <1>3, LabelWants
<1> HIDE DEF e, did, want
<1>5. Preferred(e) \in RetryActions =>
        /\ ~ValidPromise(e)
        /\ BrokenRule(e, Preferred(e)) = {} \/ QuietHour(e.hour)
  BY DEF Preferred, BrokenRule, RetryActions
<1>6. ASSUME did, ~want PROVE e.retry_count \in 3..9
  BY <1>1, <1>2, <1>3, <1>4, <1>5, <1>6, LabelsFollowTheEngine
<1>7. ASSUME ~did, want PROVE QuietHour(e.hour) \/ ValidPromise(e)
  BY <1>1, <1>2, <1>3, <1>4, <1>5, <1>7, LabelsFollowTheEngine
<1>8. QED
  BY <1>6, <1>7 DEF e, did, want

-----------------------------------------------------------------------------
(***************************************************************************)
(* The scan.  At position k of the batch each count of the tally is the    *)
(* cardinality of the set of positions it is named after.                  *)
(***************************************************************************)
Tallies ==
    [ correct_diag : Nat, correct_decision : Nat,
      exceptions : SUBSET (Nat \X {"diagnosis", "decision"}),
      tp : Nat, fp : Nat, fn : Nat, tn : Nat,
      at_risk : Int, attempted : Int, recovered : Int ]

CellUpTo(b, rs, k, did, want) ==
    {i \in 1..k : \A case \in b[i] : /\ ShouldExecute(rs[i]) = did
                                     /\ ExpectedExecute(case) = want}

WellDiagnosed(b, k) ==
    {i \in 1..k : \A case \in b[i] : case.label.root_cause = case.event.failure_code}

Exceptions(k) == (1..k) \X {"diagnosis", "decision"}

CountsOf(t, b, rs, k) ==
    /\ t.tp = Cardinality(CellUpTo(b, rs, k, TRUE, TRUE))
    /\ t.fp = Cardinality(CellUpTo(b, rs, k, TRUE, FALSE))
    /\ t.fn = Cardinality(CellUpTo(b, rs, k, FALSE, TRUE))
    /\ t.tp + t.fp + t.fn + t.tn = k
    /\ t.exceptions \in SUBSET Exceptions(k)
    /\ t.correct_diag + t.correct_decision + Cardinality(t.exceptions) = 2 * k
    /\ t.correct_diag = Cardinality(WellDiagnosed(b, k))

\* A set of positions goes on by a position or not
Continues(k, S, T) ==
    /\ k \in Nat
    /\ S \in SUBSET (1..k) /\ T \in SUBSET (1..(k + 1))
    /\ \A i \in 1..k : i \in T <=> i \in S

LEMMA OneMore ==
    ASSUME NEW k, NEW S, NEW T, Continues(k, S, T)
    PROVE  /\ Cardinality(S) \in Nat
           /\ k + 1 \in T => Cardinality(T) = Cardinality(S) + 1
           /\ k + 1 \notin T => Cardinality(T) = Cardinality(S)
<1> SUFFICES ASSUME k \in Nat, S \in SUBSET (1..k), T \in SUBSET (1..(k + 1)),
                    \A i \in 1..k : i \in T <=> i \in S
             PROVE  /\ Cardinality(S) \in Nat
                    /\ k + 1 \in T => Cardinality(T) = Cardinality(S) + 1
                    /\ k + 1 \notin T => Cardinality(T) = Cardinality(S)
  BY DEF Continues
<1>1. IsFiniteSet(S) /\ Cardinality(S) \in Nat
  <2>1. IsFiniteSet(1..k)
    BY FS_Interval
  <2>2. IsFiniteSet(S)
    BY <2>1, FS_Subset
  <2>3. QED
    BY <2>2, FS_CardinalityType
<1>2. ASSUME k + 1 \in T PROVE Cardinality(T) = Cardinality(S) + 1
  <2>1. T = S \union {k + 1} /\ k + 1 \notin S
    <3>1. \A i \in T : i \in 1..k \/ i = k + 1
      OBVIOUS
    <3>2. \A i \in S : i \in 1..k /\ i # k + 1
      OBVIOUS
    <3>3. QED
      BY <1>2, <3>1, <3>2
  <2>2. QED
    BY <1>1, <2>1, FS_AddElement
<1>3. ASSUME k + 1 \notin T PROVE T = S
  <2>1. \A i \in T : i \in 1..k
    BY <1>3
  <2>2. \A i \in S : i \in 1..k
    OBVIOUS
  <2>3. QED
    BY <2>1, <2>2
<1>4. QED
  BY <1>1, <1>2, <1>3

\* Of two numbers that add up with a third, each mismatch is one of the third
LEMMA AddsUp ==
    /\ \A k, a, b, c \in Nat : \A x, y \in {0, 1} :
          a + b + c = 2 * k => (a + x) + (b + y) + (c + (1 - x) + (1 - y)) = 2 * (k + 1)
    /\ \A n \in Nat : \A x \in {0, 1} : n + x \in Nat
    /\ \A n, m \in Int : n + m \in Int
OBVIOUS

LEMMA OneType == ASSUME NEW p PROVE One(p) \in {0, 1} /\ (One(p) = 1 <=> p)
BY DEF One

\* The two exceptions a position may give rise to
Unless(x, exception) == IF x = 1 THEN {} ELSE {exception}

LEMMA ExceptionsGrow ==
    ASSUME NEW k \in Nat, NEW S \in SUBSET Exceptions(k), NEW x \in 0..1, NEW y \in 0..1
    PROVE  LET T == (S \union Unless(x, <<k + 1, "diagnosis">>))
                       \union Unless(y, <<k + 1, "decision">>)
           IN  /\ T \in SUBSET Exceptions(k + 1)
               /\ Cardinality(S) \in Nat
               /\ Cardinality(T) = Cardinality(S) + (1 - x) + (1 - y)
<1> USE DEF Unless, Exceptions
<1> DEFINE D == Unless(x, <<k + 1, "diagnosis">>)
           E == Unless(y, <<k + 1, "decision">>)
           pairs == {"diagnosis", "decision"}
           S1    == S \union D
           S2    == S1 \union E
<1>1. IsFiniteSet(S)
  <2>1. IsFiniteSet(1..k)
    BY FS_Interval
  <2>2. IsFiniteSet(pairs)
    <3>1. IsFiniteSet({} \union {"diagnosis"})
      BY FS_EmptySet, FS_AddElement
    <3>2. IsFiniteSet(({} \union {"diagnosis"}) \union {"decision"})
      BY <3>1, FS_AddElement
    <3>3. pairs = ({} \union {"diagnosis"}) \union {"decision"}
      OBVIOUS
    <3>4. QED
      BY <3>2, <3>3
  <2>3. IsFiniteSet((1..k) \X pairs)
    BY <2>1, <2>2, FS_Product
  <2>4. QED
    BY <2>3, FS_Subset
<1>2. Cardinality(S) \in Nat
  BY <1>1, FS_CardinalityType
<1>3. <<k + 1, "diagnosis">> \notin S /\ <<k + 1, "decision">> \notin S
  <2>1. k + 1 \notin 1..k
    OBVIOUS
  <2>2. QED
    BY <2>1
<1>4. <<k + 1, "decision">> \notin S1
  BY <1>3
<1>5. S2 \in SUBSET Exceptions(k + 1)
  OBVIOUS
<1>6. IsFiniteSet(S1) /\ Cardinality(S1) = Cardinality(S) + (1 - x)
  <2>1. CASE x = 1
    <3>1. S1 = S
      BY <2>1
    <3>2. QED
      BY <1>1, <1>2, <2>1, <3>1
  <2>2. CASE x = 0
    <3>1. S1 = S \union {<<k + 1, "diagnosis">>}
      BY <2>2
    <3>2. QED
      BY <1>1, <1>2, <1>3, <2>2, <3>1, FS_AddElement
  <2>3. QED
    BY <2>1, <2>2
<1> HIDE DEF S1
<1>7. Cardinality(S2) = Cardinality(S1) + (1 - y)
  <2>1. Cardinality(S1) \in Nat
    BY <1>6, FS_CardinalityType
  <2>2. CASE y = 1
    <3>1. S2 = S1
      BY <2>2
    <3>2. QED
      BY <2>1, <2>2, <3>1
  <2>3. CASE y = 0
    <3>1. S2 = S1 \union {<<k + 1, "decision">>}
      BY <2>3
    <3>2. QED
      BY <1>4, <1>6, <2>1, <2>3, <3>1, FS_AddElement
  <2>4. QED
    BY <2>2, <2>3
<1>8. QED
  BY <1>2, <1>5, <1>6, <1>7 DEF S1

LEMMA TallyStays ==
    ASSUME NEW t \in Tallies, NEW i \in Nat, NEW case \in Case, NEW new
    PROVE  Scored(t, i, case, new) \in Tallies
<1> DEFINE s    == Scored(t, i, case, new)
           did  == ShouldExecute(new)
           want == ExpectedExecute(case)
           ex   == t.exceptions
                     \union (IF DiagnosisMatches(case, new) THEN {} ELSE {<<i, "diagnosis">>})
                     \union (IF DecisionMatches(case, new) THEN {} ELSE {<<i, "decision">>})
<1>1. ex \in SUBSET (Nat \X {"diagnosis", "decision"})
  BY DEF Tallies
<1>2. \A p : One(p) \in {0, 1}
  BY OneType
<1>3. \A p : AmountIf(p, case) \in Int
  BY DEF AmountIf, Case, FailureEvent
<1>4. /\ t.correct_diag \in Nat /\ t.correct_decision \in Nat
      /\ t.tp \in Nat /\ t.fp \in Nat /\ t.fn \in Nat /\ t.tn \in Nat
      /\ t.at_risk \in Int /\ t.attempted \in Int /\ t.recovered \in Int
  BY DEF Tallies
<1>5. s = [ correct_diag     |-> t.correct_diag + One(DiagnosisMatches(case, new)),
            correct_decision |-> t.correct_decision + One(DecisionMatches(case, new)),
            exceptions       |-> ex,
            tp        |-> t.tp + One(did /\ want),
            fp        |-> t.fp + One(did /\ ~want),
            fn        |-> t.fn + One(Missed(did, want)),
            tn        |-> t.tn + One(~did /\ ~Missed(did, want)),
            at_risk   |-> t.at_risk + AmountIf(want, case),
            attempted |-> t.attempted + Attempt(did, want, case),
            recovered |-> t.recovered
                          + AmountIf(did /\ want /\ case.label.outcome = "paid", case) ]
  BY DEF Scored
<1> HIDE DEF ex, s, did, want
<1>6. /\ t.correct_diag + One(DiagnosisMatches(case, new)) \in Nat
      /\ t.correct_decision + One(DecisionMatches(case, new)) \in Nat
      /\ t.tp + One(did /\ want) \in Nat
      /\ t.fp + One(did /\ ~want) \in Nat
      /\ t.fn + One(Missed(did, want)) \in Nat
      /\ t.tn + One(~did /\ ~Missed(did, want)) \in Nat
  BY <1>2, <1>4, AddsUp
<1>7. /\ t.at_risk + AmountIf(want, case) \in Int
      /\ t.attempted + Attempt(did, want, case) \in Int
      /\ t.recovered + AmountIf(did /\ want /\ case.label.outcome = "paid", case) \in Int
  BY <1>3, <1>4, AddsUp DEF Attempt
<1>8. s \in Tallies
  BY <1>1, <1>5, <1>6, <1>7 DEF Tallies
<1>9. QED
  BY <1>8 DEF s

\* What the body of the loop makes of each count, with the terms named
LEMMA ScoredCounts ==
    ASSUME NEW t, NEW i, NEW case, NEW new
    PROVE  LET did  == ShouldExecute(new)
               want == ExpectedExecute(case)
               s    == Scored(t, i, case, new)
               x    == One(DiagnosisMatches(case, new))
               y    == One(DecisionMatches(case, new))
           IN  /\ s.tp = t.tp + One(did /\ want)
               /\ s.fp = t.fp + One(did /\ ~want)
               /\ s.fn = t.fn + One(~did /\ want)
               /\ s.tn = t.tn + One(~did /\ ~want)
               /\ s.correct_diag = t.correct_diag + x
               /\ s.correct_decision = t.correct_decision + y
               /\ s.exceptions = (t.exceptions \union Unless(x, <<i, "diagnosis">>))
                                   \union Unless(y, <<i, "decision">>)
<1> DEFINE x == One(DiagnosisMatches(case, new))
           y == One(DecisionMatches(case, new))
<1>1. (x = 1 <=> DiagnosisMatches(case, new)) /\ (y = 1 <=> DecisionMatches(case, new))
  BY OneType
<1>2. Scored(t, i, case, new).exceptions
        = t.exceptions
          \union (IF DiagnosisMatches(case, new) THEN {} ELSE {<<i, "diagnosis">>})
          \union (IF DecisionMatches(case, new) THEN {} ELSE {<<i, "decision">>})
  BY DEF Scored
<1>3. Scored(t, i, case, new).exceptions
        = (t.exceptions \union Unless(x, <<i, "diagnosis">>))
            \union Unless(y, <<i, "decision">>)
  BY <1>1, <1>2 DEF Unless
<1>4. QED
  BY <1>3 DEF Scored, One, Missed

\* The three cells and the right diagnoses go on by a position if it is in them
LEMMA CellsGrow ==
    ASSUME NEW b, NEW k \in Nat, NEW rs \in Seq(Results), Len(rs) = k, NEW new \in Results,
           NEW case \in Case, b[k + 1] = {case}
    PROVE  LET more == Append(rs, new)
               did  == ShouldExecute(new)
               want == ExpectedExecute(case)
               Size(s, n, d, w) == Cardinality(CellUpTo(b, s, n, d, w))
           IN  /\ Size(more, k + 1, TRUE, TRUE) = Size(rs, k, TRUE, TRUE) + One(did /\ want)
               /\ Size(more, k + 1, TRUE, FALSE) = Size(rs, k, TRUE, FALSE) + One(did /\ ~want)
               /\ Size(more, k + 1, FALSE, TRUE) = Size(rs, k, FALSE, TRUE) + One(~did /\ want)
<1> DEFINE more == Append(rs, new)
<1>1. /\ \A i \in 1..k : more[i] = rs[i]
      /\ more[k + 1] = new
  OBVIOUS
<1> HIDE DEF more
<1>2. Cardinality(CellUpTo(b, more, k + 1, TRUE, TRUE))
        = Cardinality(CellUpTo(b, rs, k, TRUE, TRUE))
          + One(ShouldExecute(new) /\ ExpectedExecute(case))
  <2> DEFINE S == CellUpTo(b, rs, k, TRUE, TRUE)
             T == CellUpTo(b, more, k + 1, TRUE, TRUE)
  <2>a. S \in SUBSET (1..k) /\ T \in SUBSET (1..(k + 1))
    BY DEF CellUpTo
  <2>b. \A i \in 1..k : i \in T <=> i \in S
    BY <1>1 DEF CellUpTo
  <2>c. k + 1 \in T <=> ShouldExecute(new) /\ ExpectedExecute(case)
    BY <1>1 DEF CellUpTo, ShouldExecute, ExpectedExecute
  <2> HIDE DEF S, T
  <2>1. /\ Continues(k, S, T)
        /\ k + 1 \in T <=> ShouldExecute(new) /\ ExpectedExecute(case)
    BY <2>a, <2>b, <2>c DEF Continues
  <2>2. /\ Cardinality(S) \in Nat
        /\ k + 1 \in T => Cardinality(T) = Cardinality(S) + 1
        /\ k + 1 \notin T => Cardinality(T) = Cardinality(S)
    BY <2>1, OneMore
  <2>3. /\ k + 1 \in T => One(ShouldExecute(new) /\ ExpectedExecute(case)) = 1
        /\ k + 1 \notin T => One(ShouldExecute(new) /\ ExpectedExecute(case)) = 0
    BY <2>1 DEF One
  <2>4. Cardinality(T) = Cardinality(S) + One(ShouldExecute(new) /\ ExpectedExecute(case))
    BY <2>2, <2>3
  <2>5. QED
    BY <2>4 DEF S, T
<1>3. Cardinality(CellUpTo(b, more, k + 1, TRUE, FALSE))
        = Cardinality(CellUpTo(b, rs, k, TRUE, FALSE))
          + One(ShouldExecute(new) /\ ~ExpectedExecute(case))
  <2> DEFINE S == CellUpTo(b, rs, k, TRUE, FALSE)
             T == CellUpTo(b, more, k + 1, TRUE, FALSE)
  <2>a. S \in SUBSET (1..k) /\ T \in SUBSET (1..(k + 1))
    BY DEF CellUpTo
  <2>b. \A i \in 1..k : i \in T <=> i \in S
    BY <1>1 DEF CellUpTo
  <2>c. k + 1 \in T <=> ShouldExecute(new) /\ ~ExpectedExecute(case)
    BY <1>1 DEF CellUpTo, ShouldExecute, ExpectedExecute
  <2> HIDE DEF S, T
  <2>1. /\ Continues(k, S, T)
        /\ k + 1 \in T <=> ShouldExecute(new) /\ ~ExpectedExecute(case)
    BY <2>a, <2>b, <2>c DEF Continues
  <2>2. /\ Cardinality(S) \in Nat
        /\ k + 1 \in T => Cardinality(T) = Cardinality(S) + 1
        /\ k + 1 \notin T => Cardinality(T) = Cardinality(S)
    BY <2>1, OneMore
  <2>3. /\ k + 1 \in T => One(ShouldExecute(new) /\ ~ExpectedExecute(case)) = 1
        /\ k + 1 \notin T => One(ShouldExecute(new) /\ ~ExpectedExecute(case)) = 0
    BY <2>1 DEF One
  <2>4. Cardinality(T) = Cardinality(S) + One(ShouldExecute(new) /\ ~ExpectedExecute(case))
    BY <2>2, <2>3
  <2>5. QED
    BY <2>4 DEF S, T
<1>4. Cardinality(CellUpTo(b, more, k + 1, FALSE, TRUE))
        = Cardinality(CellUpTo(b, rs, k, FALSE, TRUE))
          + One(~ShouldExecute(new) /\ ExpectedExecute(case))
  <2> DEFINE S == CellUpTo(b, rs, k, FALSE, TRUE)
             T == CellUpTo(b, more, k + 1, FALSE, TRUE)
  <2>a. S \in SUBSET (1..k) /\ T \in SUBSET (1..(k + 1))
    BY DEF CellUpTo
  <2>b. \A i \in 1..k : i \in T <=> i \in S
    BY <1>1 DEF CellUpTo
  <2>c. k + 1 \in T <=> ~ShouldExecute(new) /\ ExpectedExecute(case)
    BY <1>1 DEF CellUpTo, ShouldExecute, ExpectedExecute
  <2> HIDE DEF S, T
  <2>1. /\ Continues(k, S, T)
        /\ k + 1 \in T <=> ~ShouldExecute(new) /\ ExpectedExecute(case)
    BY <2>a, <2>b, <2>c DEF Continues
  <2>2. /\ Cardinality(S) \in Nat
        /\ k + 1 \in T => Cardinality(T) = Cardinality(S) + 1
        /\ k + 1 \notin T => Cardinality(T) = Cardinality(S)
    BY <2>1, OneMore
  <2>3. /\ k + 1 \in T => One(~ShouldExecute(new) /\ ExpectedExecute(case)) = 1
        /\ k + 1 \notin T => One(~ShouldExecute(new) /\ ExpectedExecute(case)) = 0
    BY <2>1 DEF One
  <2>4. Cardinality(T) = Cardinality(S) + One(~ShouldExecute(new) /\ ExpectedExecute(case))
    BY <2>2, <2>3
  <2>5. QED
    BY <2>4 DEF S, T
<1>5. QED
  BY <1>2, <1>3, <1>4 DEF more

LEMMA DiagnosedGrows ==
    ASSUME NEW b, NEW k \in Nat, NEW new, NEW case \in Case, b[k + 1] = {case},
           new.diagnosis = Diagnose(case.event)
    PROVE  Cardinality(WellDiagnosed(b, k + 1))
             = Cardinality(WellDiagnosed(b, k)) + One(DiagnosisMatches(case, new))
<1> DEFINE S == WellDiagnosed(b, k)
           T == WellDiagnosed(b, k + 1)
<1>1. DiagnosisMatches(case, new) <=> case.label.root_cause = case.event.failure_code
  BY DEF DiagnosisMatches, Diagnose
<1>2. /\ Continues(k, S, T)
      /\ k + 1 \in T <=> DiagnosisMatches(case, new)
  BY <1>1 DEF Continues, WellDiagnosed
<1> HIDE DEF S, T
<1>3. QED
  BY <1>2, OneMore DEF One, S, T

\* The body of the loop keeps the counts in step with the position
LEMMA CountStep ==
    ASSUME NEW b, NEW k \in Nat, NEW rs \in Seq(Results), Len(rs) = k, NEW new \in Results,
           NEW case \in Case, b[k + 1] = {case},
           new.diagnosis = Diagnose(case.event),
           NEW t \in Tallies, CountsOf(t, b, rs, k)
    PROVE  CountsOf(Scored(t, k + 1, case, new), b, Append(rs, new), k + 1)
<1> DEFINE x     == One(DiagnosisMatches(case, new))
           y     == One(DecisionMatches(case, new))
           hit   == One(ShouldExecute(new) /\ ExpectedExecute(case))
           extra == One(ShouldExecute(new) /\ ~ExpectedExecute(case))
           lost  == One(~ShouldExecute(new) /\ ExpectedExecute(case))
           rest  == One(~ShouldExecute(new) /\ ~ExpectedExecute(case))
           more  == Append(rs, new)
           s     == Scored(t, k + 1, case, new)
\* The sums, each by its name
           tp    == t.tp
           fp    == t.fp
           fn    == t.fn
           tn    == t.tn
           right == t.correct_diag
           made  == t.correct_decision
           wrong == t.exceptions
           worse == s.exceptions
           D     == Unless(x, <<k + 1, "diagnosis">>)
           E     == Unless(y, <<k + 1, "decision">>)
<1>1. /\ hit \in {0, 1} /\ extra \in {0, 1} /\ lost \in {0, 1} /\ rest \in {0, 1}
      /\ x \in {0, 1} /\ y \in {0, 1}
  BY OneType
<1>2. hit + extra + lost + rest = 1
  BY DEF One, ShouldExecute, ExpectedExecute
<1>3. /\ Cardinality(CellUpTo(b, more, k + 1, TRUE, TRUE))
           = Cardinality(CellUpTo(b, rs, k, TRUE, TRUE)) + hit
      /\ Cardinality(CellUpTo(b, more, k + 1, TRUE, FALSE))
           = Cardinality(CellUpTo(b, rs, k, TRUE, FALSE)) + extra
      /\ Cardinality(CellUpTo(b, more, k + 1, FALSE, TRUE))
           = Cardinality(CellUpTo(b, rs, k, FALSE, TRUE)) + lost
  BY CellsGrow
<1>4. Cardinality(WellDiagnosed(b, k + 1)) = Cardinality(WellDiagnosed(b, k)) + x
  BY DiagnosedGrows
<1>5. /\ s.tp = tp + hit /\ s.fp = fp + extra /\ s.fn = fn + lost /\ s.tn = tn + rest
      /\ s.correct_diag = right + x
      /\ s.correct_decision = made + y
      /\ worse = (wrong \union D) \union E
  BY ScoredCounts
<1>6. /\ tp \in Nat /\ fp \in Nat /\ fn \in Nat /\ tn \in Nat
      /\ right \in Nat /\ made \in Nat
  BY DEF Tallies
<1>7. /\ tp = Cardinality(CellUpTo(b, rs, k, TRUE, TRUE))
      /\ fp = Cardinality(CellUpTo(b, rs, k, TRUE, FALSE))
      /\ fn = Cardinality(CellUpTo(b, rs, k, FALSE, TRUE))
      /\ tp + fp + fn + tn = k
      /\ wrong \in SUBSET Exceptions(k)
      /\ right + made + Cardinality(wrong) = 2 * k
      /\ right = Cardinality(WellDiagnosed(b, k))
  BY DEF CountsOf
<1> HIDE DEF x, y, hit, extra, lost, rest, more, tp, fp, fn, tn, right, made, wrong, worse
<1>8. (tp + hit) + (fp + extra) + (fn + lost) + (tn + rest) = k + 1
  <2>1. tp + fp + fn + tn = k
    BY <1>7
  <2>2. PICK a, c, d, e \in Nat : a = tp /\ c = fp /\ d = fn /\ e = tn
    BY <1>6
  <2>3. PICK n, m, o, q \in Nat : n = hit /\ m = extra /\ o = lost /\ q = rest
    BY <1>1
  <2>4. a + c + d + e = k /\ n + m + o + q = 1
    BY <1>2, <2>1, <2>2, <2>3
  <2>5. (a + n) + (c + m) + (d + o) + (e + q) = k + 1
    BY <2>4
  <2>6. QED
    BY <2>2, <2>3, <2>5
<1>9. /\ worse \in SUBSET Exceptions(k + 1)
      /\ Cardinality(wrong) \in Nat
      /\ Cardinality(worse) = Cardinality(wrong) + (1 - x) + (1 - y)
  <2>1. x \in 0..1 /\ y \in 0..1
    BY <1>1
  <2>2. wrong \in SUBSET Exceptions(k)
    BY <1>7
  <2>3. worse = (wrong \union D) \union E
    BY <1>5
  <2>4. PICK n \in 0..1, m \in 0..1 : n = x /\ m = y
    BY <2>1
  <2>5. worse = (wrong \union Unless(n, <<k + 1, "diagnosis">>))
                  \union Unless(m, <<k + 1, "decision">>)
    BY <2>3, <2>4
  <2>6. /\ worse \in SUBSET Exceptions(k + 1)
        /\ Cardinality(wrong) \in Nat
        /\ Cardinality(worse) = Cardinality(wrong) + (1 - n) + (1 - m)
    BY <2>2, <2>5, ExceptionsGrow
  <2>7. QED
    BY <2>4, <2>6
<1>10. (right + x) + (made + y) + Cardinality(worse) = 2 * (k + 1)
  <2>1. (right + x) + (made + y) + (Cardinality(wrong) + (1 - x) + (1 - y)) = 2 * (k + 1)
    <3>1. PICK n, m \in {0, 1} : n = x /\ m = y
      BY <1>1
    <3>2. PICK a, c, d \in Nat : a = right /\ c = made /\ d = Cardinality(wrong)
      BY <1>6, <1>9
    <3>3. a + c + d = 2 * k
      BY <1>7, <3>2
    <3>4. (a + n) + (c + m) + (d + (1 - n) + (1 - m)) = 2 * (k + 1)
      BY <3>3
    <3>5. QED
      BY <3>1, <3>2, <3>4
  <2>2. QED
    BY <1>9, <2>1
<1> HIDE DEF s
<1>11. s.exceptions = worse
  BY DEF worse
<1>12. CountsOf(s, b, more, k + 1)
  BY <1>3, <1>4, <1>5, <1>7, <1>8, <1>9, <1>10, <1>11 DEF CountsOf
<1>13. QED
  BY <1>12 DEF s, more

-----------------------------------------------------------------------------
(***************************************************************************)
(* The invariant of the scan.  Each audit result of a row, the one at hand *)
(* and those reported, is that of its case under the row's policy and      *)
(* gate, and the sums are the counts up to the position.                   *)
(***************************************************************************)
IsResult(b, i, r, policy, gated) ==
    \E case \in b[i] : r = ResultOf(policy, gated, case.event)

FromRow(b, rs, n) ==
    \A i \in DOMAIN rs : IsResult(b, i, rs[i], Rows[n].policy, Rows[n].gate)

ReportRecords ==
    [policy : PolicyNames, gate : BOOLEAN, tally : Tallies, results : Seq(Results)]

Reported(b, report, n) ==
    /\ Len(report.results) = Len(b)
    /\ FromRow(b, report.results, n)
    /\ CountsOf(report.tally, b, report.results, Len(b))

Places ==
    /\ phase \in Phases
    /\ phase = "written" => row = 5
    /\ at \in 1..(Len(batch) + 1)
    /\ Len(results) = at - 1
    /\ Len(reports) <= 4
    /\ phase # "abandoned" =>
          Len(reports) = IF phase \in {"returned", "returning"} THEN row ELSE row - 1

Scan ==
    /\ tally \in Tallies
    /\ \E n \in 1..4 : (InRow => n = row) /\ FromRow(batch, results, n)
    /\ InRow => CountsOf(tally, batch, results, at - 1)

Filed ==
    /\ reports \in Seq(ReportRecords)
    /\ \A n \in DOMAIN reports : Reported(batch, reports[n], n)

ScanInv == RowInv /\ Places /\ Scan /\ Filed

LEMMA RowsAreNamed ==
    /\ Rows[1] = Row("decision_engine", TRUE) /\ Rows[2] = Row("always_retry", TRUE)
    /\ Rows[3] = Row("threshold", TRUE) /\ Rows[4] = Row("diagnosis_only", FALSE)
    /\ \A n \in 1..4 : Rows[n].policy \in PolicyNames /\ Rows[n].gate \in BOOLEAN
<1>1. /\ Rows[1] = Row("decision_engine", TRUE) /\ Rows[2] = Row("always_retry", TRUE)
      /\ Rows[3] = Row("threshold", TRUE) /\ Rows[4] = Row("diagnosis_only", FALSE)
  BY DEF Rows
<1>2. ASSUME NEW n \in 1..4 PROVE Rows[n].policy \in PolicyNames /\ Rows[n].gate \in BOOLEAN
  <2>1. n = 1 \/ n = 2 \/ n = 3 \/ n = 4
    OBVIOUS
  <2>2. /\ Row("decision_engine", TRUE).gate \in BOOLEAN /\ Row("always_retry", TRUE).gate \in BOOLEAN
        /\ Row("threshold", TRUE).gate \in BOOLEAN /\ Row("diagnosis_only", FALSE).gate \in BOOLEAN
    BY DEF Row
  <2>3. /\ Row("decision_engine", TRUE).policy \in PolicyNames
        /\ Row("always_retry", TRUE).policy \in PolicyNames
        /\ Row("threshold", TRUE).policy \in PolicyNames
        /\ Row("diagnosis_only", FALSE).policy \in PolicyNames
    BY DEF Row, PolicyNames, EngineNames
  <2>4. QED
    BY <1>1, <2>1, <2>2, <2>3
<1>3. QED
  BY <1>1, <1>2

\* Nothing is counted before the first record
LEMMA CountsStart ==
    ASSUME NEW b
    PROVE  NoTally \in Tallies /\ CountsOf(NoTally, b, <<>>, 0)
<1>1. /\ \A d, w : CellUpTo(b, <<>>, 0, d, w) = {}
      /\ WellDiagnosed(b, 0) = {}
  BY DEF CellUpTo, WellDiagnosed
<1>2. Cardinality({}) = 0
  BY FS_EmptySet
<1>3. NoTally \in Tallies
  BY DEF NoTally, Tallies
<1>4. /\ NoTally.tp = 0 /\ NoTally.fp = 0 /\ NoTally.fn = 0 /\ NoTally.tn = 0
      /\ NoTally.correct_diag = 0 /\ NoTally.correct_decision = 0
      /\ NoTally.exceptions = {}
  BY DEF NoTally
<1>5. {} \in SUBSET Exceptions(0)
  OBVIOUS
<1>6. CountsOf(NoTally, b, <<>>, 0)
  <2>1. /\ Cardinality(CellUpTo(b, <<>>, 0, TRUE, TRUE)) = 0
        /\ Cardinality(CellUpTo(b, <<>>, 0, TRUE, FALSE)) = 0
        /\ Cardinality(CellUpTo(b, <<>>, 0, FALSE, TRUE)) = 0
        /\ Cardinality(WellDiagnosed(b, 0)) = 0
    BY <1>1, <1>2
  <2>2. NoTally.tp + NoTally.fp + NoTally.fn + NoTally.tn = 0
    <3>1. 0 + 0 + 0 + 0 = 0
      OBVIOUS
    <3>2. QED
      BY <1>4, <3>1, Zenon
  <2>3. NoTally.correct_diag + NoTally.correct_decision + Cardinality(NoTally.exceptions) = 2 * 0
    <3>1. 0 + 0 + 0 = 2 * 0
      OBVIOUS
    <3>2. QED
      BY <1>2, <1>4, <3>1, Zenon
  <2>4. QED
    BY <1>4, <1>5, <2>1, <2>2, <2>3, Zenon DEF CountsOf
<1>7. QED
  BY <1>3, <1>6

LEMMA InitScan == Init => ScanInv
<1> SUFFICES ASSUME Init PROVE ScanInv
  OBVIOUS
<1>1. RowInv
  BY InitRow
<1>2. batch \in Batches /\ Len(batch) \in Nat
  BY BatchesAssumption DEF Init
<1>3. Places
  BY <1>2 DEF Init, Places, Phases
<1>4. Scan
  BY CountsStart DEF Init, Scan, InRow, FromRow
<1>5. Filed
  BY DEF Init, Filed
<1>6. QED
  BY <1>1, <1>3, <1>4, <1>5 DEF ScanInv

\* What Score appends is the result of its case in its row
LEMMA ScoreStep ==
    ASSUME ScanInv, Score
    PROVE  \E case \in Case, new \in Results :
              /\ batch[at] = {case}
              /\ new.diagnosis = Diagnose(case.event)
              /\ new = ResultOf(Rows[row].policy, Rows[row].gate, case.event)
              /\ results' = Append(results, new)
              /\ tally' = Scored(tally, at, case, new)
<1>1. /\ phase = "score" /\ at \in 1..Len(batch)
      /\ batch \in Seq(Optional(Case))
  BY BatchesAssumption DEF Score, ScanInv, RowInv
<1>2. PICK case \in batch[at] : /\ results' = Append(results, RunPipeline(case.event))
                                /\ tally' = Scored(tally, at, case, RunPipeline(case.event))
  BY DEF Score
<1>3. case \in Case /\ batch[at] = {case}
  <2>1. batch[at] \in Optional(Case)
    BY <1>1
  <2>2. QED
    BY <2>1 DEF Optional
<1>4. case.event \in FailureEvent
  BY <1>3 DEF Case
<1>5. /\ row \in 1..4
      /\ decide = Rows[row].policy
      /\ authorize = IF Rows[row].gate THEN "authorize" ELSE "always_authorized"
  BY <1>1 DEF ScanInv, RowInv, Bindings, RowIsBound, InRow
<1>6. decide \in PolicyNames
  BY <1>5, RowsAreNamed
<1>7. RunPipeline(case.event) \in Results
  BY <1>4, <1>6, ResultType DEF PolicyNames
<1>8. RunPipeline(case.event) = ResultOf(Rows[row].policy, Rows[row].gate, case.event)
  <2>1. RunPipeline(case.event) = ResultOf(decide, authorize = "authorize", case.event)
    BY ResultIsOfItsRow
  <2>2. Rows[row].gate \in BOOLEAN
    BY <1>5, RowsAreNamed
  <2>3. CASE Rows[row].gate
    <3>1. (authorize = "authorize") = TRUE /\ Rows[row].gate = TRUE
      BY <1>5, <2>3
    <3>2. QED
      BY <1>5, <2>1, <3>1
  <2>4. CASE ~Rows[row].gate
    <3>1. (authorize = "authorize") = FALSE /\ Rows[row].gate = FALSE
      BY <1>5, <2>2, <2>4
    <3>2. QED
      BY <1>5, <2>1, <3>1
  <2>5. QED
    BY <2>3, <2>4
<1>9. RunPipeline(case.event).diagnosis = Diagnose(case.event)
  BY DEF RunPipeline
<1>10. QED
  BY <1>2, <1>3, <1>7, <1>8, <1>9

LEMMA NextPlaces == ASSUME ScanInv, [Next]_vars PROVE Places'
<1> USE DEF Places, Phases
<1>1. /\ Places /\ row \in 1..5
      /\ phase \notin {"bind", "failed", "written"} => row \in 1..4
      /\ Len(batch) \in Nat
      /\ results \in Seq(Results) /\ reports \in Seq(ReportRecords)
  BY BatchesAssumption DEF ScanInv, RowInv, Bindings, RowIsBound, Filed
<1>2. CASE Bind
  BY <1>1, <1>2, RowsAreFour DEF Bind
<1>3. CASE Score
  <2>1. PICK new \in Results : results' = Append(results, new)
    BY <1>3, ScoreStep
  <2>2. Len(results') = Len(results) + 1
    BY <1>1, <2>1
  <2>3. QED
    BY <1>1, <1>3, <2>2 DEF Score
<1>4. CASE Reject \/ EmptyBatch \/ Interrupt
  BY <1>1, <1>4 DEF Reject, EmptyBatch, Interrupt, locals
<1>5. CASE Report
  <2>1. Len(reports') = Len(reports) + 1
    BY <1>1, <1>5 DEF Report
  <2>2. QED
    BY <1>1, <1>5, <2>1 DEF Report, locals
<1>6. CASE RestoreDecide \/ RestoreAuthorize
  BY <1>1, <1>6 DEF RestoreDecide, RestoreAuthorize, locals
<1>7. CASE WriteFile
  BY <1>1, <1>7, RowsAreFour DEF WriteFile, locals
<1>8. CASE UNCHANGED vars
  BY <1>1, <1>8 DEF vars, locals
<1>9. QED
  BY <1>2, <1>3, <1>4, <1>5, <1>6, <1>7, <1>8 DEF Next

LEMMA NextScanned == ASSUME ScanInv, [Next]_vars PROVE Scan'
<1>1. /\ Scan /\ Places /\ results \in Seq(Results) /\ batch \in Batches
      /\ row \in 1..5 /\ (InRow => row \in 1..4)
  BY DEF ScanInv, RowInv, Bindings, RowIsBound, InRow
<1>2. CASE Bind
  <2>1. /\ tally' = NoTally /\ results' = <<>> /\ at' = 1
        /\ row' = row /\ row \in 1..4
    BY <1>1, <1>2, RowsAreFour DEF Bind
  <2>2. FromRow(batch', results', row)
    BY <2>1 DEF FromRow
  <2>3. CountsOf(tally', batch', results', at' - 1) /\ tally' \in Tallies
    BY <2>1, CountsStart
  <2>4. QED
    BY <2>1, <2>2, <2>3 DEF Scan
<1>3. CASE Score
  <2>1. PICK case \in Case, new \in Results :
              /\ batch[at] = {case}
              /\ new.diagnosis = Diagnose(case.event)
              /\ new = ResultOf(Rows[row].policy, Rows[row].gate, case.event)
              /\ results' = Append(results, new)
              /\ tally' = Scored(tally, at, case, new)
    BY <1>3, ScoreStep
  <2>2. /\ InRow /\ row \in 1..4 /\ at \in Nat \ {0} /\ Len(results) = at - 1
        /\ UNCHANGED <<batch, row, phase>> /\ at' = at + 1
    BY <1>1, <1>3, BatchesAssumption DEF Score, InRow, Places
  <2>3. FromRow(batch, results, row) /\ CountsOf(tally, batch, results, at - 1)
        /\ tally \in Tallies
    BY <1>1, <2>2 DEF Scan
  <2>4. FromRow(batch, results', row)
    <3>1. ASSUME NEW i \in DOMAIN results'
          PROVE  IsResult(batch, i, results'[i], Rows[row].policy, Rows[row].gate)
      <4>1. i \in 1..at
        BY <1>1, <2>1, <2>2
      <4>2. CASE i = at
        <5>1. results'[i] = new
          BY <1>1, <2>1, <2>2, <4>2
        <5>2. QED
          BY <2>1, <4>2, <5>1 DEF IsResult
      <4>3. CASE i # at
        <5>1. i \in DOMAIN results /\ results'[i] = results[i]
          BY <1>1, <2>1, <2>2, <4>1, <4>3
        <5>2. QED
          BY <2>3, <5>1 DEF FromRow
      <4>4. QED
        BY <4>2, <4>3
    <3>2. QED
      BY <3>1 DEF FromRow
  <2>5. CountsOf(tally', batch, results', at)
    <3>1. PICK k \in Nat : k = at - 1
      BY <2>2
    <3>2. k + 1 = at /\ Len(results) = k
      BY <2>2, <3>1
    <3>3. CountsOf(Scored(tally, k + 1, case, new), batch, Append(results, new), k + 1)
      BY <1>1, <2>1, <2>3, <3>1, <3>2, CountStep
    <3>4. QED
      BY <2>1, <3>2, <3>3
  <2>6. tally' \in Tallies
    BY <2>1, <2>2, <2>3, TallyStays
  <2>7. at' - 1 = at
    BY <2>2
  <2>8. QED
    BY <2>2, <2>4, <2>5, <2>6, <2>7 DEF Scan
<1>4. CASE Reject \/ EmptyBatch \/ Interrupt \/ Report
  BY <1>1, <1>4 DEF Reject, EmptyBatch, Interrupt, Report, locals, Scan, InRow
<1>5. CASE RestoreDecide \/ RestoreAuthorize \/ WriteFile
  BY <1>1, <1>5 DEF RestoreDecide, RestoreAuthorize, WriteFile, locals, Scan, InRow
<1>6. CASE UNCHANGED vars
  BY <1>1, <1>6 DEF vars, locals, Scan, InRow
<1>7. QED
  BY <1>2, <1>3, <1>4, <1>5, <1>6 DEF Next

LEMMA NextFiled == ASSUME ScanInv, [Next]_vars PROVE Filed'
<1>1. Filed /\ Places /\ Scan /\ RowInv
  BY DEF ScanInv
<1>2. CASE Report
  <2>1. /\ phase = "score" /\ InRow /\ row \in 1..4
        /\ decide = Rows[row].policy
        /\ at = Len(batch) + 1 /\ Len(results) = Len(batch) /\ Len(batch) \in Nat
        /\ Len(reports) = row - 1
    BY <1>1, <1>2, BatchesAssumption
       DEF Report, Places, InRow, RowInv, Bindings, RowIsBound
  <2>2. FromRow(batch, results, row) /\ CountsOf(tally, batch, results, Len(batch))
        /\ tally \in Tallies
    BY <1>1, <2>1 DEF Scan
  <2> DEFINE new == [policy |-> decide, gate |-> Rows[row].gate,
                     tally |-> tally, results |-> results]
  <2>3. /\ new \in ReportRecords /\ new.tally = tally /\ new.results = results
    BY <1>1, <2>1, <2>2, RowsAreNamed DEF ReportRecords, RowInv
  <2>4. reports' = Append(reports, new) /\ batch' = batch
    BY <1>2 DEF Report
  <2> HIDE DEF new
  <2>5. Reported(batch, new, row)
    BY <2>1, <2>2, <2>3 DEF Reported
  <2>6. reports \in Seq(ReportRecords) /\ reports' \in Seq(ReportRecords)
    BY <1>1, <2>3, <2>4 DEF Filed
  <2>7. ASSUME NEW n \in DOMAIN reports' PROVE Reported(batch', reports'[n], n)
    <3>1. n \in 1..row
      BY <2>1, <2>4, <2>6, <2>7
    <3>2. CASE n = row
      BY <2>1, <2>4, <2>5, <2>6, <3>2
    <3>3. CASE n # row
      <4>1. n \in DOMAIN reports /\ reports'[n] = reports[n]
        BY <2>1, <2>4, <2>6, <3>1, <3>3
      <4>2. QED
        BY <1>1, <2>4, <4>1 DEF Filed
    <3>4. QED
      BY <3>2, <3>3
  <2>8. QED
    BY <2>6, <2>7 DEF Filed
<1>3. CASE ~Report
  <2>1. UNCHANGED <<batch, reports>>
    BY <1>3 DEF Next, Bind, Score, Reject, EmptyBatch, Interrupt, RestoreDecide,
                RestoreAuthorize, WriteFile, vars
  <2>2. QED
    BY <1>1, <2>1 DEF Filed
<1>4. QED
  BY <1>2, <1>3

LEMMA NextScan == ScanInv /\ [Next]_vars => ScanInv'
<1> SUFFICES ASSUME ScanInv, [Next]_vars PROVE ScanInv'
  OBVIOUS
<1>1. RowInv'
  BY NextRow DEF ScanInv
<1>2. QED
  BY <1>1, NextPlaces, NextScanned, NextFiled DEF ScanInv

-----------------------------------------------------------------------------
(***************************************************************************)
(* Totals over sets of positions.  MapThenSumSet takes its elements one by *)
(* one in some order; IsSum says so of a function on the subsets of S, and *)
(* Total is what it makes of S itself.                                     *)
(***************************************************************************)
Pick(s) == CHOOSE x \in s : TRUE

IsSum(g, a, S) ==
    g = [s \in SUBSET S |-> IF s = {} THEN 0 ELSE a[Pick(s)] + g[s \ {Pick(s)}]]

\* Of subsets of a finite set that are wrong, one has no smaller wrong one
LEMMA SmallestOffender ==
    ASSUME NEW S, IsFiniteSet(S), NEW B, B \subseteq SUBSET S, B # {}
    PROVE  \E s \in B : \A t \in SUBSET s : t # s => t \notin B
<1>1. IsWellFoundedOn(StrictSubsetOrdering(S), SUBSET S)
  BY FS_StrictSubsetOrderingWellFounded, FS_FiniteSubsetsOfFinite
<1>2. PICK s \in B : \A t \in B : ~ (<<t, s>> \in StrictSubsetOrdering(S))
  BY <1>1, WFMin
<1>3. ASSUME NEW t \in SUBSET s, t # s, t \in B PROVE FALSE
  <2>1. <<t, s>> \in StrictSubsetOrdering(S)
    BY <1>3 DEF StrictSubsetOrdering
  <2>2. QED
    BY <1>2, <1>3, <2>1
<1>4. QED
  BY <1>3

LEMMA PickIsIn ==
    ASSUME NEW s, s # {}
    PROVE  Pick(s) \in s /\ s \ {Pick(s)} \in SUBSET s /\ s \ {Pick(s)} # s
<1>1. Pick(s) \in s
  BY DEF Pick
<1>2. QED
  BY <1>1

LEMMA SumIs ==
    ASSUME NEW g, NEW a, NEW S, IsSum(g, a, S), NEW s \in SUBSET S
    PROVE  /\ s = {} => g[s] = 0
           /\ s # {} => g[s] = a[Pick(s)] + g[s \ {Pick(s)}]
BY DEF IsSum

\* Two sums agree where what they add up does
LEMMA SumsAgree ==
    ASSUME NEW g, NEW a, NEW S, IsSum(g, a, S), NEW h, NEW b, NEW T, IsSum(h, b, T),
           NEW D, IsFiniteSet(D), D \subseteq S, D \subseteq T, \A i \in D : a[i] = b[i]
    PROVE  g[D] = h[D]
<1> DEFINE Bad == {s \in SUBSET D : g[s] # h[s]}
<1>1. ASSUME Bad # {} PROVE FALSE
  <2>1. PICK s \in Bad : \A t \in SUBSET s : t # s => t \notin Bad
    <3>1. Bad \subseteq SUBSET D
      OBVIOUS
    <3> HIDE DEF Bad
    <3>2. QED
      BY <1>1, <3>1, SmallestOffender
  <2>2. s \in SUBSET D /\ s \in SUBSET S /\ s \in SUBSET T /\ g[s] # h[s]
    BY <2>1
  <2>3. CASE s = {}
    BY <2>2, <2>3, SumIs
  <2>4. CASE s # {}
    <3>1. Pick(s) \in s /\ s \ {Pick(s)} \in SUBSET s /\ s \ {Pick(s)} # s
      BY <2>4, PickIsIn
    <3>2. g[s \ {Pick(s)}] = h[s \ {Pick(s)}]
      BY <2>1, <2>2, <3>1
    <3>3. a[Pick(s)] = b[Pick(s)]
      BY <2>2, <3>1
    <3>4. g[s] = a[Pick(s)] + g[s \ {Pick(s)}]
      BY <2>2, <2>4, SumIs
    <3>5. h[s] = b[Pick(s)] + h[s \ {Pick(s)}]
      BY <2>2, <2>4, SumIs
    <3>6. QED
      BY <2>2, <3>2, <3>3, <3>4, <3>5
  <2>5. QED
    BY <2>3, <2>4
<1>2. D \in SUBSET D
  OBVIOUS
<1>3. QED
  BY <1>1, <1>2

\* There is one over every finite set
LEMMA SumExists ==
    ASSUME NEW a, NEW S, IsFiniteSet(S)
    PROVE  \E g : IsSum(g, a, S)
<1> DEFINE Bad == {s \in SUBSET S : ~ \E g : IsSum(g, a, s)}
<1>1. ASSUME Bad # {} PROVE FALSE
  <2>1. PICK s \in Bad : \A t \in SUBSET s : t # s => t \notin Bad
    <3>1. Bad \subseteq SUBSET S
      OBVIOUS
    <3> HIDE DEF Bad
    <3>2. QED
      BY <1>1, <3>1, SmallestOffender
  <2> DEFINE Below(t) == CHOOSE g : IsSum(g, a, t)
             Rest(t)  == t \ {Pick(t)}
             h == [t \in SUBSET s |-> IF t = {} THEN 0
                                      ELSE a[Pick(t)] + Below(Rest(t))[Rest(t)]]
  <2>2. s \in SUBSET S /\ IsFiniteSet(s) /\ ~ \E g : IsSum(g, a, s)
    BY <2>1, FS_Subset
  <2>3. ASSUME NEW t \in SUBSET s, t # s PROVE IsSum(Below(t), a, t)
    <3>1. t \in SUBSET S /\ t \notin Bad
      BY <2>1, <2>2, <2>3
    <3>2. \E g : IsSum(g, a, t)
      BY <3>1
    <3>3. QED
      BY <3>2
  <2>4. ASSUME NEW t \in SUBSET s, t # {}
        PROVE  h[Rest(t)] = Below(Rest(t))[Rest(t)]
    <3>1. Rest(t) \in SUBSET s /\ Rest(t) # s
      BY <2>4, PickIsIn
    <3> DEFINE u == Rest(t)
    <3>2. IsSum(Below(u), a, u) /\ u \in SUBSET s /\ u \in SUBSET u
      BY <2>3, <3>1
    <3>3. h[u] = IF u = {} THEN 0 ELSE a[Pick(u)] + Below(Rest(u))[Rest(u)]
      BY <3>2
    <3> HIDE DEF u, Below, h
    <3>4. /\ u = {} => Below(u)[u] = 0
          /\ u # {} => Below(u)[u] = a[Pick(u)] + Below(u)[Rest(u)]
      BY <3>2, SumIs
    <3>5. ASSUME u # {} PROVE Below(u)[Rest(u)] = Below(Rest(u))[Rest(u)]
      <4>1. Rest(u) \in SUBSET u /\ Rest(u) # u
        BY <3>5, PickIsIn
      <4>2. Rest(u) \in SUBSET s /\ Rest(u) # s /\ IsFiniteSet(Rest(u))
        BY <2>2, <3>2, <4>1, FS_Subset
      <4>3. IsSum(Below(Rest(u)), a, Rest(u))
        BY <2>3, <4>2
      <4>4. QED
        BY <3>2, <4>1, <4>2, <4>3, SumsAgree
    <3>6. h[u] = Below(u)[u]
      BY <3>3, <3>4, <3>5
    <3>7. QED
      BY <3>6 DEF u
  <2>5. h = [t \in SUBSET s |-> IF t = {} THEN 0 ELSE a[Pick(t)] + h[t \ {Pick(t)}]]
    <3>1. \A t \in SUBSET s :
             h[t] = IF t = {} THEN 0 ELSE a[Pick(t)] + Below(Rest(t))[Rest(t)]
      OBVIOUS
    <3>2. \A t \in SUBSET s :
             h[t] = IF t = {} THEN 0 ELSE a[Pick(t)] + h[t \ {Pick(t)}]
      <4> HIDE DEF h, Below
      <4>1. QED
        BY <2>4, <3>1
    <3>3. h = [t \in SUBSET s |-> h[t]]
      OBVIOUS
    <3> HIDE DEF h
    <3>4. QED
      BY <3>2, <3>3
  <2> HIDE DEF h
  <2>6. QED
    BY <2>2, <2>5 DEF IsSum
<1>2. S \in SUBSET S
  OBVIOUS
<1>3. QED
  BY <1>1, <1>2

\* The order does not matter
LEMMA SumTakesAny ==
    ASSUME NEW a, NEW S, IsFiniteSet(S), \A i \in S : a[i] \in Int,
           NEW g, IsSum(g, a, S)
    PROVE  g[S] \in Int /\ \A x \in S : g[S] = a[x] + g[S \ {x}] /\ g[S \ {x}] \in Int
<1> DEFINE Good(s) == g[s] \in Int /\ \A x \in s : g[s] = a[x] + g[s \ {x}]
           Bad == {s \in SUBSET S : ~Good(s)}
<1>1. ASSUME Bad # {} PROVE FALSE
  <2>1. PICK s \in Bad : \A t \in SUBSET s : t # s => t \notin Bad
    <3>1. Bad \subseteq SUBSET S
      OBVIOUS
    <3> HIDE DEF Bad
    <3>2. QED
      BY <1>1, <3>1, SmallestOffender
  <2>2. s \in SUBSET S /\ ~Good(s)
    BY <2>1
  <2>3. ASSUME NEW t \in SUBSET s, t # s PROVE Good(t)
    BY <2>1, <2>2, <2>3
  <2>4. CASE s = {}
    <3>1. g[s] = 0
      BY <2>2, <2>4, SumIs
    <3>2. QED
      BY <2>2, <2>4, <3>1
  <2>5. CASE s # {}
    <3> DEFINE y == Pick(s)
               r == s \ {y}
    <3>1. y \in s /\ r \in SUBSET s /\ r # s
      BY <2>5, PickIsIn
    <3>2. g[s] = a[y] + g[r]
      <4>1. s \in SUBSET S
        BY <2>2
      <4>2. QED
        BY <2>5, <4>1, SumIs
    <3>3. a[y] \in Int /\ g[r] \in Int /\ \A x \in r : g[r] = a[x] + g[r \ {x}]
      BY <2>2, <2>3, <3>1
    <3> HIDE DEF y
    <3>4. ASSUME NEW x \in s PROVE g[s] = a[x] + g[s \ {x}]
      <4>1. CASE x = y
        BY <3>2, <4>1
      <4>2. CASE x # y
        <5>1. x \in r /\ y \in s \ {x} /\ s \ {x} \in SUBSET s /\ s \ {x} # s
          BY <3>1, <4>2
        <5>2. (s \ {x}) \ {y} = r \ {x}
          OBVIOUS
        <5>3. r \ {x} \in SUBSET s /\ r \ {x} # s
          BY <3>1
        <5>4. g[s \ {x}] = a[y] + g[r \ {x}]
          <6>1. Good(s \ {x})
            BY <2>3, <5>1
          <6>2. g[s \ {x}] = a[y] + g[(s \ {x}) \ {y}]
            BY <5>1, <6>1
          <6>3. QED
            BY <5>2, <6>2
        <5>5. g[r] = a[x] + g[r \ {x}]
          BY <3>3, <5>1
        <5>6. a[x] \in Int /\ g[r \ {x}] \in Int
          <6>1. Good(r \ {x})
            BY <2>3, <5>3
          <6>2. QED
            BY <2>2, <6>1
        <5> HIDE DEF r
        <5>7. QED
          BY <3>2, <3>3, <5>4, <5>5, <5>6
      <4>3. QED
        BY <4>1, <4>2
    <3>5. g[s] \in Int
      BY <3>2, <3>3
    <3>6. QED
      BY <2>2, <3>4, <3>5
  <2>6. QED
    BY <2>4, <2>5
<1>2. \A s \in SUBSET S : Good(s)
  BY <1>1
<1>3. S \in SUBSET S /\ \A x \in S : S \ {x} \in SUBSET S
  OBVIOUS
<1>4. QED
  BY <1>2, <1>3

Total(a, S) == (CHOOSE g : IsSum(g, a, S))[S]

LEMMA TotalIsSum ==
    ASSUME NEW a, NEW S, IsFiniteSet(S), NEW g, IsSum(g, a, S)
    PROVE  Total(a, S) = g[S]
<1> DEFINE h == CHOOSE x : IsSum(x, a, S)
<1>1. IsSum(h, a, S)
  OBVIOUS
<1> HIDE DEF h
<1>2. h[S] = g[S]
  BY <1>1, SumsAgree
<1>3. QED
  BY <1>2 DEF h, Total

LEMMA TotalOfNone == ASSUME NEW a PROVE Total(a, {}) = 0
<1>1. IsFiniteSet({})
  BY FS_EmptySet
<1>2. PICK g : IsSum(g, a, {})
  BY <1>1, SumExists
<1>3. g[{}] = 0
  BY <1>2, SumIs
<1>4. QED
  BY <1>1, <1>2, <1>3, TotalIsSum

\* A total depends on what it adds up, and one more element adds its own
GoesOn(a, b, S, x) ==
    /\ IsFiniteSet(S) /\ x \notin S
    /\ \A i \in S : a[i] = b[i]
    /\ \A i \in S \union {x} : b[i] \in Int

LEMMA TotalGrows ==
    ASSUME NEW a, NEW b, NEW S, NEW x, GoesOn(a, b, S, x)
    PROVE  /\ Total(a, S) \in Int
           /\ Total(b, S) = Total(a, S)
           /\ Total(b, S \union {x}) = Total(a, S) + b[x]
<1> USE DEF GoesOn
<1> DEFINE T == S \union {x}
<1>1. IsFiniteSet(T) /\ x \in T /\ T \ {x} = S /\ S \in SUBSET T
  BY FS_AddElement
<1>2. PICK g : IsSum(g, a, S)
  BY SumExists
<1>3. PICK h : IsSum(h, b, S)
  BY SumExists
<1>4. PICK f : IsSum(f, b, T)
  BY <1>1, SumExists
<1>5. g[S] = h[S]
  BY <1>2, <1>3, SumsAgree
<1>6. f[S] = h[S]
  BY <1>1, <1>3, <1>4, SumsAgree
<1>7. f[T] = b[x] + f[S] /\ f[S] \in Int /\ b[x] \in Int
  BY <1>1, <1>4, SumTakesAny
<1>8. Total(a, S) = g[S] /\ Total(b, S) = h[S] /\ Total(b, T) = f[T]
  BY <1>1, <1>2, <1>3, <1>4, TotalIsSum
<1> HIDE DEF T
<1>9. Total(b, T) = Total(a, S) + b[x]
  BY <1>5, <1>6, <1>7, <1>8
<1>10. QED
  BY <1>5, <1>6, <1>7, <1>8, <1>9 DEF T

\* What each audit result would bring, and the sum of some of them
Amounts(rs) == [i \in DOMAIN rs |-> rs[i].event.amount]

LEMMA AmountsAreTotals ==
    ASSUME NEW report, NEW S, IsFiniteSet(S), S \subseteq DOMAIN report.results
    PROVE  TotalAmount(report, S) = Total(Amounts(report.results), S)
<1> DEFINE rs == report.results
           a == Amounts(rs)
           Iter(g) == g = [s \in SUBSET S |->
                             IF s = {} THEN 0
                             ELSE rs[Pick(s)].event.amount + g[s \ {Pick(s)}]]
           f == CHOOSE g : Iter(g)
<1>1. TotalAmount(report, S) = f[S]
  BY DEF TotalAmount, MapThenSumSet, MapThenFoldSet, Pick
<1>2. ASSUME NEW g PROVE Iter(g) <=> IsSum(g, a, S)
  <2>1. \A s \in SUBSET S : s # {} => a[Pick(s)] = rs[Pick(s)].event.amount
    BY PickIsIn DEF Amounts
  <2> HIDE DEF a
  <2>2. [s \in SUBSET S |-> IF s = {} THEN 0 ELSE a[Pick(s)] + g[s \ {Pick(s)}]]
          = [s \in SUBSET S |-> IF s = {} THEN 0
                                ELSE rs[Pick(s)].event.amount + g[s \ {Pick(s)}]]
    BY <2>1
  <2>3. QED
    BY <2>2 DEF IsSum
<1>3. PICK g : IsSum(g, a, S)
  BY SumExists
<1>4. Iter(f)
  <2>1. Iter(g)
    BY <1>2, <1>3
  <2> HIDE DEF Iter
  <2>2. QED
    BY <2>1
<1>5. IsSum(f, a, S)
  BY <1>2, <1>4
<1> HIDE DEF f
<1>6. QED
  BY <1>1, <1>5, TotalIsSum

-----------------------------------------------------------------------------
(***************************************************************************)
(* The sums of the scan.  As the counts, they keep in step with the        *)
(* position: each is the total over the cells it is named after.           *)
(***************************************************************************)
PaidIn(b) == {i \in DOMAIN b : \A case \in b[i] : case.label.outcome = "paid"}

Hits(b, rs, k) == CellUpTo(b, rs, k, TRUE, TRUE)
Due(b, rs, k)  == Hits(b, rs, k) \union CellUpTo(b, rs, k, FALSE, TRUE)

SumsOf(t, b, rs, k) ==
    /\ t.at_risk = Total(Amounts(rs), Due(b, rs, k))
    /\ t.attempted = Total(Amounts(rs), Hits(b, rs, k))
    /\ t.recovered = Total(Amounts(rs), Hits(b, rs, k) \intersect PaidIn(b))

Sums ==
    /\ InRow => SumsOf(tally, batch, results, at - 1)
    /\ \A n \in DOMAIN reports :
          SumsOf(reports[n].tally, batch, reports[n].results, Len(batch))

\* The total over the positions so far goes on by what the next one brings
LEMMA OneMoreAmount ==
    ASSUME NEW rs \in Seq(Results), NEW new \in Results,
           NEW k, Len(rs) = k, NEW S, NEW T, Continues(k, S, T)
    PROVE  /\ Total(Amounts(rs), S) \in Int
           /\ k + 1 \in T => Total(Amounts(Append(rs, new)), T)
                                = Total(Amounts(rs), S) + new.event.amount
           /\ k + 1 \notin T => Total(Amounts(Append(rs, new)), T) = Total(Amounts(rs), S)
<1>0. /\ k \in Nat /\ S \in SUBSET (1..k) /\ T \in SUBSET (1..(k + 1))
      /\ \A i \in 1..k : i \in T <=> i \in S
  BY DEF Continues
<1> DEFINE a == Amounts(rs)
           b == Amounts(Append(rs, new))
<1>1. IsFiniteSet(S) /\ k + 1 \notin S
  <2>1. IsFiniteSet(1..k)
    BY <1>0, FS_Interval
  <2>2. IsFiniteSet(S)
    BY <1>0, <2>1, FS_Subset
  <2>3. QED
    BY <1>0, <2>2
<1>2. /\ \A i \in S : a[i] = b[i]
      /\ b[k + 1] = new.event.amount
  BY <1>0 DEF Amounts
<1>3. \A i \in S \union {k + 1} : b[i] \in Int
  <2>1. ASSUME NEW r \in Results PROVE r.event.amount \in Int
    BY <2>1 DEF Results, FailureEvent
  <2>2. \A i \in 1..(k + 1) : Append(rs, new)[i] \in Results /\ i \in DOMAIN Append(rs, new)
    BY <1>0
  <2>3. QED
    BY <1>0, <2>1, <2>2 DEF Amounts
<1> HIDE DEF a, b
<1>4. /\ Total(a, S) \in Int
      /\ Total(b, S) = Total(a, S)
      /\ Total(b, S \union {k + 1}) = Total(a, S) + b[k + 1]
  <2>1. GoesOn(a, b, S, k + 1)
    BY <1>1, <1>2, <1>3 DEF GoesOn
  <2>2. QED
    BY <2>1, TotalGrows
<1>5. /\ k + 1 \in T => T = S \union {k + 1}
      /\ k + 1 \notin T => T = S
  <2>1. \A i \in T : i \in 1..k \/ i = k + 1
    BY <1>0
  <2>2. \A i \in S : i \in 1..k
    BY <1>0
  <2>3. QED
    BY <1>0, <2>1, <2>2
<1>6. QED
  BY <1>2, <1>4, <1>5 DEF a, b

LEMMA SumStep ==
    ASSUME NEW b, NEW k \in Nat, k + 1 \in DOMAIN b,
           NEW rs \in Seq(Results), Len(rs) = k, NEW new \in Results,
           NEW case \in Case, b[k + 1] = {case}, new.event = case.event,
           NEW t, SumsOf(t, b, rs, k)
    PROVE  SumsOf(Scored(t, k + 1, case, new), b, Append(rs, new), k + 1)
<1> DEFINE more   == Append(rs, new)
           s      == Scored(t, k + 1, case, new)
           did    == ShouldExecute(new)
           want   == ExpectedExecute(case)
           paid   == case.label.outcome = "paid"
           Old(w) == Total(Amounts(rs), w)
           New(w) == Total(Amounts(more), w)
<1>1. /\ \A i \in 1..k : more[i] = rs[i]
      /\ more[k + 1] = new
  OBVIOUS
<1>2. /\ s.at_risk = t.at_risk + AmountIf(want, case)
      /\ s.attempted = t.attempted + AmountIf(did /\ want, case)
      /\ s.recovered = t.recovered + AmountIf(did /\ want /\ paid, case)
  BY DEF Scored, Attempt
<1>3. case.event.amount \in Int
  BY DEF Case, FailureEvent
<1> HIDE DEF more, s, did, want, paid
<1>4. New(Due(b, more, k + 1)) = Old(Due(b, rs, k)) + AmountIf(want, case)
  <2> DEFINE S == Due(b, rs, k)
             T == Due(b, more, k + 1)
  <2>1. Continues(k, S, T)
    BY <1>1 DEF Continues, Due, Hits, CellUpTo
  <2>2. k + 1 \in T <=> want
    BY <1>1 DEF Due, Hits, CellUpTo, ShouldExecute, ExpectedExecute, want
  <2> HIDE DEF S, T
  <2>3. /\ Old(S) \in Int
        /\ k + 1 \in T => New(T) = Old(S) + new.event.amount
        /\ k + 1 \notin T => New(T) = Old(S)
    BY <2>1, OneMoreAmount DEF more
  <2>4. New(T) = Old(S) + AmountIf(want, case)
    BY <2>2, <2>3 DEF AmountIf
  <2>5. QED
    BY <2>4 DEF S, T
<1>5. New(Hits(b, more, k + 1)) = Old(Hits(b, rs, k)) + AmountIf(did /\ want, case)
  <2> DEFINE S == Hits(b, rs, k)
             T == Hits(b, more, k + 1)
  <2>1. /\ Continues(k, S, T)
        /\ k + 1 \in T <=> did /\ want
    BY <1>1 DEF Continues, Hits, CellUpTo, ShouldExecute, ExpectedExecute, did, want
  <2> HIDE DEF S, T
  <2>2. /\ Old(S) \in Int
        /\ k + 1 \in T => New(T) = Old(S) + new.event.amount
        /\ k + 1 \notin T => New(T) = Old(S)
    BY <2>1, OneMoreAmount DEF more
  <2>3. New(T) = Old(S) + AmountIf(did /\ want, case)
    BY <2>1, <2>2 DEF AmountIf
  <2>4. QED
    BY <2>3 DEF S, T
<1>6. New(Hits(b, more, k + 1) \intersect PaidIn(b))
        = Old(Hits(b, rs, k) \intersect PaidIn(b)) + AmountIf(did /\ want /\ paid, case)
  <2> DEFINE S == Hits(b, rs, k) \intersect PaidIn(b)
             T == Hits(b, more, k + 1) \intersect PaidIn(b)
  <2>1. /\ Continues(k, S, T)
        /\ k + 1 \in T <=> did /\ want /\ paid
    BY <1>1 DEF Continues, Hits, CellUpTo, PaidIn, ShouldExecute, ExpectedExecute, did, want, paid
  <2> HIDE DEF S, T
  <2>2. /\ Old(S) \in Int
        /\ k + 1 \in T => New(T) = Old(S) + new.event.amount
        /\ k + 1 \notin T => New(T) = Old(S)
    BY <2>1, OneMoreAmount DEF more
  <2>3. New(T) = Old(S) + AmountIf(did /\ want /\ paid, case)
    BY <2>1, <2>2 DEF AmountIf
  <2>4. QED
    BY <2>3 DEF S, T
<1>7. SumsOf(s, b, more, k + 1)
  BY <1>2, <1>4, <1>5, <1>6 DEF SumsOf
<1>8. QED
  BY <1>7 DEF s, more

LEMMA SumsStart ==
    ASSUME NEW b
    PROVE  SumsOf(NoTally, b, <<>>, 0)
<1>1. Due(b, <<>>, 0) = {} /\ Hits(b, <<>>, 0) = {} /\ Hits(b, <<>>, 0) \intersect PaidIn(b) = {}
  BY DEF Due, Hits, CellUpTo
<1>2. Total(Amounts(<<>>), {}) = 0
  BY TotalOfNone
<1>3. NoTally.at_risk = 0 /\ NoTally.attempted = 0 /\ NoTally.recovered = 0
  BY DEF NoTally
<1>4. QED
  BY <1>1, <1>2, <1>3, Zenon DEF SumsOf

LEMMA InitSums == Init => Sums
BY DEF Init, Sums, InRow

LEMMA NextSums == ASSUME ScanInv, Sums, [Next]_vars PROVE Sums'
<1>1. /\ Places /\ results \in Seq(Results) /\ batch \in Seq(Optional(Case))
      /\ reports \in Seq(ReportRecords)
  BY BatchesAssumption DEF ScanInv, RowInv, Filed
<1>2. CASE Bind
  <2>1. /\ tally' = NoTally /\ results' = <<>> /\ at' = 1 /\ UNCHANGED <<batch, reports>>
    BY <1>2 DEF Bind
  <2>2. SumsOf(tally', batch', results', at' - 1)
    BY <2>1, SumsStart
  <2>3. QED
    BY <2>1, <2>2 DEF Sums
<1>3. CASE Score
  <2>1. PICK case \in Case, new \in Results :
              /\ batch[at] = {case}
              /\ new = ResultOf(Rows[row].policy, Rows[row].gate, case.event)
              /\ results' = Append(results, new)
              /\ tally' = Scored(tally, at, case, new)
    BY <1>3, ScoreStep
  <2>2. new.event = case.event
    BY <2>1 DEF ResultOf
  <2>3. /\ InRow /\ at \in Nat \ {0} /\ at \in DOMAIN batch /\ Len(results) = at - 1
        /\ UNCHANGED <<batch, reports>> /\ at' = at + 1
    BY <1>1, <1>3 DEF Score, InRow, Places
  <2>4. PICK k \in Nat : k = at - 1
    BY <2>3
  <2>5. k + 1 = at /\ Len(results) = k /\ SumsOf(tally, batch, results, k)
    BY <2>3, <2>4 DEF Sums
  <2>6. SumsOf(Scored(tally, k + 1, case, new), batch, Append(results, new), k + 1)
    BY <1>1, <2>1, <2>2, <2>3, <2>5, SumStep
  <2>7. SumsOf(tally', batch', results', at' - 1)
    BY <2>1, <2>3, <2>5, <2>6
  <2>8. QED
    BY <2>3, <2>7 DEF Sums
<1>4. CASE Reject \/ EmptyBatch \/ Interrupt
  BY <1>4 DEF Reject, EmptyBatch, Interrupt, locals, Sums, InRow
<1>5. CASE Report
  <2> DEFINE new == [policy |-> decide, gate |-> Rows[row].gate,
                     tally |-> tally, results |-> results]
  <2>1. /\ InRow /\ at - 1 = Len(batch)
        /\ reports' = Append(reports, new)
        /\ UNCHANGED <<batch, tally, results, at>>
    BY <1>1, <1>5 DEF Report, Places, InRow, locals
  <2>2. new.tally = tally /\ new.results = results
    OBVIOUS
  <2> HIDE DEF new
  <2>3. SumsOf(tally, batch, results, Len(batch))
    BY <2>1 DEF Sums
  <2>4. ASSUME NEW n \in DOMAIN reports'
        PROVE  SumsOf(reports'[n].tally, batch', reports'[n].results, Len(batch'))
    <3>1. \/ reports'[n] = new
          \/ n \in DOMAIN reports /\ reports'[n] = reports[n]
      BY <1>1, <2>1, <2>4
    <3>2. QED
      BY <2>1, <2>2, <2>3, <3>1 DEF Sums
  <2>5. QED
    BY <2>1, <2>3, <2>4 DEF Sums
<1>6. CASE RestoreDecide \/ RestoreAuthorize \/ WriteFile
  BY <1>6 DEF RestoreDecide, RestoreAuthorize, WriteFile, locals, Sums, InRow
<1>7. CASE UNCHANGED vars
  BY <1>7 DEF vars, locals, Sums, InRow
<1>8. QED
  BY <1>2, <1>3, <1>4, <1>5, <1>6, <1>7 DEF Next

-----------------------------------------------------------------------------
(***************************************************************************)
(* The theorems.  Each follows from the invariant and what was shown of    *)
(* one event.                                                              *)
(***************************************************************************)
LEMMA ScanAlways == Spec => []ScanInv
BY InitScan, NextScan, PTL DEF Spec

\* An audit result belongs to the record at its position
LEMMA ResultsHaveCases ==
    ASSUME batch \in Batches, NEW rs, NEW n \in 1..4, FromRow(batch, rs, n),
           NEW i \in DOMAIN rs, i \in DOMAIN batch
    PROVE  /\ \A case \in batch[i] :
                 /\ case \in Case
                 /\ rs[i] = ResultOf(Rows[n].policy, Rows[n].gate, case.event)
           /\ \E e \in FailureEvent : rs[i] = ResultOf(Rows[n].policy, Rows[n].gate, e)
<1>1. batch[i] \in Optional(Case)
  BY BatchesAssumption
<1>2. PICK c \in batch[i] : rs[i] = ResultOf(Rows[n].policy, Rows[n].gate, c.event)
  BY DEF FromRow, IsResult
<1>3. \A case \in batch[i] : case = c /\ case \in Case
  BY <1>1 DEF Optional
<1>4. c.event \in FailureEvent
  BY <1>3 DEF Case
<1>5. QED
  BY <1>2, <1>3, <1>4

\* The results at hand, in the row they are from
LEMMA ResultsAtHand ==
    ASSUME ScanInv
    PROVE  \E n \in 1..4 :
              /\ InRow => n = row
              /\ FromRow(batch, results, n)
              /\ DOMAIN results \subseteq DOMAIN batch
<1>1. DOMAIN results \subseteq DOMAIN batch
  BY BatchesAssumption DEF ScanInv, RowInv, Places
<1>2. QED
  BY <1>1 DEF ScanInv, Scan

\* The engine's own row is the first, behind the gate
LEMMA EngineRow ==
    ASSUME ScanInv, InRow, decide = "decision_engine", NEW i \in DOMAIN results
    PROVE  /\ \A case \in batch[i] :
                 /\ case \in Case
                 /\ results[i] = ResultOf("decision_engine", TRUE, case.event)
           /\ \E e \in FailureEvent : results[i] = ResultOf("decision_engine", TRUE, e)
<1>1. FromRow(batch, results, row) /\ DOMAIN results \subseteq DOMAIN batch
      /\ row \in 1..4 /\ batch \in Batches
  BY ResultsAtHand DEF ScanInv, RowInv
<1>2. Rows[row].policy = "decision_engine"
  BY DEF ScanInv, RowInv, Bindings, RowIsBound
<1>3. row = 1
  <2>1. row = 1 \/ row = 2 \/ row = 3 \/ row = 4
    BY <1>1
  <2>2. QED
    BY <1>2, <2>1, RowsAreNamed DEF Row
<1>4. Rows[1].policy = "decision_engine" /\ Rows[1].gate = TRUE
  BY RowsAreNamed DEF Row
<1>5. FromRow(batch, results, 1) /\ i \in DOMAIN batch
  BY <1>1, <1>3
<1>6. /\ \A case \in batch[i] :
            /\ case \in Case
            /\ results[i] = ResultOf(Rows[1].policy, Rows[1].gate, case.event)
      /\ \E e \in FailureEvent : results[i] = ResultOf(Rows[1].policy, Rows[1].gate, e)
  <2>1. 1 \in 1..4
    OBVIOUS
  <2>2. QED
    BY <1>1, <1>5, <2>1, ResultsHaveCases
<1>7. QED
  BY <1>4, <1>6

\* The reports of all four rows, each as long as the batch
LEMMA ReportsAtHand ==
    ASSUME ScanInv, NEW n \in DOMAIN reports
    PROVE  /\ n \in 1..4
           /\ reports[n] \in ReportRecords
           /\ DOMAIN reports[n].results = DOMAIN batch
           /\ FromRow(batch, reports[n].results, n)
           /\ CountsOf(reports[n].tally, batch, reports[n].results, Len(batch))
<1>1. reports \in Seq(ReportRecords) /\ batch \in Seq(Optional(Case))
  BY BatchesAssumption DEF ScanInv, RowInv, Filed
<1>2. reports[n] \in ReportRecords
  BY <1>1
<1>3. reports[n].results \in Seq(Results)
  BY <1>2 DEF ReportRecords
<1>4. Reported(batch, reports[n], n)
  BY DEF ScanInv, Filed
<1>5. n \in 1..4
  BY <1>1 DEF ScanInv, Places, RowInv, Bindings, RowIsBound, InRow
<1>6. QED
  BY <1>1, <1>2, <1>3, <1>4, <1>5 DEF Reported

(***************************************************************************)
(* The runner, run_eval and the pipeline hold what the model declares, a   *)
(* row's results grow with its position, and main has a report per row.    *)
(***************************************************************************)
THEOREM TypeCorrect == Spec => []TypeOK
<1>1. ScanInv => TypeOK
  <2> SUFFICES ASSUME ScanInv PROVE TypeOK
    OBVIOUS
  <2>1. /\ Places /\ row \in 1..5 /\ batch \in Seq(Optional(Case))
        /\ results \in Seq(Results)
    BY BatchesAssumption DEF ScanInv, RowInv, Bindings, RowIsBound
  <2>2. \A i \in DOMAIN batch : batch[i] \in Optional(Case)
    BY <2>1
  <2>3. ASSUME NEW i \in DOMAIN results
        PROVE  results[i].gate_decision \in GateDecision
    <3> DEFINE result == results[i]
    <3>1. result \in Results
      BY <2>1
    <3> HIDE DEF result
    <3>2. result.gate_decision \in GateDecision
      BY <3>1 DEF Results
    <3>3. QED
      BY <3>2 DEF result
  <2>4. decide \in {Rows[r].policy : r \in DOMAIN Rows}
    <3>1. DOMAIN Rows = 1..4 /\ Rows[1].policy = "decision_engine"
      BY RowsAreNamed DEF Rows, Row
    <3>2. /\ Rows[2].policy = "always_retry" /\ Rows[3].policy = "threshold"
          /\ Rows[4].policy = "diagnosis_only"
      BY RowsAreNamed DEF Row
    <3>3. decide \in {"decision_engine", "always_retry", "threshold", "diagnosis_only"}
      BY DEF ScanInv, RowInv, Bindings, RowIsBound, EngineNames
    <3>4. QED
      BY <3>1, <3>2, <3>3
  <2>5. authorize \in {"authorize", "always_authorized"}
    BY DEF ScanInv, RowInv, Bindings, RowIsBound, BindingsComeBack
  <2>6. QED
    BY <2>1, <2>2, <2>3, <2>4, <2>5, RowsAreFour DEF TypeOK, Places
<1>2. QED
  BY ScanAlways, <1>1, PTL

(***************************************************************************)
(* Of any batch, the counts of every report are the cardinalities of the   *)
(* cells they are named after, and right answers and exceptions are two    *)
(* per case.                                                               *)
(***************************************************************************)
THEOREM CountsAlwaysAddUp == Spec => []CountsAddUp
<1>1. ScanInv => CountsAddUp
  <2> SUFFICES ASSUME ScanInv, NEW n \in DOMAIN reports
               PROVE  LET report == reports[n]
                          t      == report.tally
                      IN  /\ t.tp = Cardinality(Cell(report, TRUE, TRUE))
                          /\ t.fp = Cardinality(Cell(report, TRUE, FALSE))
                          /\ t.fn = Cardinality(Cell(report, FALSE, TRUE))
                          /\ t.tp + t.fp + t.fn + t.tn = Len(batch)
                          /\ t.correct_diag + t.correct_decision + Cardinality(t.exceptions)
                               = 2 * Len(batch)
    BY DEF CountsAddUp, Range
  <2>1. CountsOf(reports[n].tally, batch, reports[n].results, Len(batch))
    BY ReportsAtHand
  <2>2. DOMAIN batch = 1..Len(batch)
    BY BatchesAssumption DEF ScanInv, RowInv
  <2>3. /\ Cell(reports[n], TRUE, TRUE)
             = CellUpTo(batch, reports[n].results, Len(batch), TRUE, TRUE)
        /\ Cell(reports[n], TRUE, FALSE)
             = CellUpTo(batch, reports[n].results, Len(batch), TRUE, FALSE)
        /\ Cell(reports[n], FALSE, TRUE)
             = CellUpTo(batch, reports[n].results, Len(batch), FALSE, TRUE)
    BY <2>2 DEF Cell, CellUpTo
  <2>4. QED
    BY <2>1, <2>3 DEF CountsOf
<1>2. QED
  BY ScanAlways, <1>1, PTL

(***************************************************************************)
(* And its amounts are the sums over those cells of what the cases are     *)
(* worth.                                                                  *)
(***************************************************************************)
THEOREM AmountsAlwaysAddUp == Spec => []AmountsAddUp
<1>1. ScanInv /\ Sums => AmountsAddUp
  <2> SUFFICES ASSUME ScanInv, Sums, NEW n \in DOMAIN reports
               PROVE  LET report == reports[n]
                          t      == report.tally
                          hits   == Cell(report, TRUE, TRUE)
                          lost   == Cell(report, FALSE, TRUE)
                      IN  /\ t.at_risk = TotalAmount(report, hits \union lost)
                          /\ t.attempted = TotalAmount(report, hits)
                          /\ t.recovered = TotalAmount(report, hits \intersect Paid)
    BY DEF AmountsAddUp, Range
  <2> DEFINE report == reports[n]
             hits   == Cell(report, TRUE, TRUE)
             lost   == Cell(report, FALSE, TRUE)
  <2>1. SumsOf(report.tally, batch, report.results, Len(batch))
    BY DEF Sums
  <2>2. /\ DOMAIN batch = 1..Len(batch) /\ Len(batch) \in Nat
        /\ DOMAIN report.results = DOMAIN batch
    BY BatchesAssumption, ReportsAtHand DEF ScanInv, RowInv
  <2>3. /\ hits = Hits(batch, report.results, Len(batch))
        /\ hits \union lost = Due(batch, report.results, Len(batch))
        /\ Paid = PaidIn(batch)
    BY <2>2 DEF Cell, CellUpTo, Hits, Due, Paid, PaidIn
  <2>4. hits \in SUBSET DOMAIN batch /\ lost \in SUBSET DOMAIN batch
    BY DEF Cell
  <2> HIDE DEF report, hits, lost
  <2>5. ASSUME NEW S \in SUBSET DOMAIN batch
        PROVE  TotalAmount(report, S) = Total(Amounts(report.results), S)
    <3>1. IsFiniteSet(DOMAIN batch)
      BY <2>2, FS_Interval
    <3>2. IsFiniteSet(S)
      BY <3>1, FS_Subset
    <3>3. QED
      BY <2>2, <3>2, AmountsAreTotals
  <2>6. /\ TotalAmount(report, hits) = Total(Amounts(report.results), hits)
        /\ TotalAmount(report, hits \union lost)
             = Total(Amounts(report.results), hits \union lost)
        /\ TotalAmount(report, hits \intersect Paid)
             = Total(Amounts(report.results), hits \intersect Paid)
    BY <2>4, <2>5
  <2>7. QED
    BY <2>1, <2>3, <2>6 DEF SumsOf, report, hits, lost
<1>2. Spec => []Sums
  BY ScanAlways, InitSums, NextSums, PTL DEF Spec
<1>3. QED
  BY ScanAlways, <1>1, <1>2, PTL

(***************************************************************************)
(* On any batch, always_retry and diagnosis_only decide alike, differ in   *)
(* the contacts policy forbids and in no other, and every row finds the    *)
(* same number of diagnoses right.                                         *)
(***************************************************************************)
THEOREM OnlyTheGateDiffers == Spec => []GateIsTheDifference
<1>1. ScanInv => GateIsTheDifference
  <2> SUFFICES ASSUME ScanInv, Len(reports) = Len(Rows) PROVE GateIsTheDifference
    BY DEF GateIsTheDifference
  <2>1. DOMAIN reports = 1..4 /\ batch \in Batches
    BY RowsAreFour DEF ScanInv, Filed, RowInv
  <2>2. ASSUME NEW i \in DOMAIN batch
        PROVE  LET gated == reports[2].results[i]
                   free  == reports[4].results[i]
               IN  /\ Action(gated) = Action(free)
                   /\ gated.executed <=> /\ free.executed
                                         /\ Governed!Permitted(gated.event, Action(gated))
    <3>1. /\ i \in DOMAIN reports[2].results /\ FromRow(batch, reports[2].results, 2)
          /\ i \in DOMAIN reports[4].results /\ FromRow(batch, reports[4].results, 4)
      BY <2>1, ReportsAtHand
    <3>2. PICK case \in batch[i] :
             reports[2].results[i] = ResultOf(Rows[2].policy, Rows[2].gate, case.event)
      BY <3>1 DEF FromRow, IsResult
    <3>3. /\ case \in Case
          /\ reports[4].results[i] = ResultOf(Rows[4].policy, Rows[4].gate, case.event)
      BY <2>1, <3>1, <3>2, ResultsHaveCases
    <3>4. /\ reports[2].results[i] = ResultOf("always_retry", TRUE, case.event)
          /\ reports[4].results[i] = ResultOf("diagnosis_only", FALSE, case.event)
      BY <3>2, <3>3, RowsAreNamed DEF Row
    <3>5. case.event \in FailureEvent
      BY <3>3 DEF Case
    <3>6. QED
      BY <3>4, <3>5, GateDecidesTheDifference
  <2>3. ASSUME NEW r \in DOMAIN reports
        PROVE  reports[r].tally.correct_diag = reports[1].tally.correct_diag
    BY <2>1, <2>3, ReportsAtHand DEF CountsOf
  <2>4. QED
    BY <2>2, <2>3 DEF GateIsTheDifference
<1>2. QED
  BY ScanAlways, <1>1, PTL

(***************************************************************************)
(* In the engine's own row, on any batch, the gate refuses the engine's    *)
(* preference in quiet hours, or for a promise on an exhausted budget.     *)
(***************************************************************************)
THEOREM EngineAndGateAlwaysAgree == Spec => []EngineAndGateAgree
<1>1. ScanInv => EngineAndGateAgree
  <2> SUFFICES ASSUME ScanInv, InRow, decide = "decision_engine",
                      NEW i \in DOMAIN results, ~results[i].gate_decision.authorized
               PROVE  LET r    == results[i]
                          rule == r.gate_decision.policy_rule_triggered
                      IN  \/ rule = {"quiet_hours"} /\ r.event.retry_count = 0
                          \/ /\ rule = {"active_valid_ptp_blocks_contact"}
                             /\ r.event.retry_count >= RetryBudget
    BY DEF EngineAndGateAgree, Range
  <2>1. PICK e \in FailureEvent : results[i] = ResultOf("decision_engine", TRUE, e)
    BY EngineRow
  <2>2. QED
    BY <2>1, DenialsOfTheEngine
<1>2. QED
  BY ScanAlways, <1>1, PTL

(***************************************************************************)
(* In the engine's own row, an execution against the label is of a case    *)
(* that failed three to nine times, and one left out is so at night or for *)
(* a promise, whatever the generator draws.                                *)
(***************************************************************************)
THEOREM EngineErrorsStayExplained == Spec => []EngineErrorsAreExplained
<1>1. ScanInv => EngineErrorsAreExplained
  <2> SUFFICES ASSUME ScanInv, InRow, decide = "decision_engine",
                      NEW i \in DOMAIN results, NEW case \in batch[i], IsDrawn(case)
               PROVE  LET event == case.event
                          did   == ShouldExecute(results[i])
                          want  == ExpectedExecute(case)
                      IN  /\ did /\ ~want => event.retry_count \in 3..9
                          /\ ~did /\ want => QuietHour(event.hour) \/ ValidPromise(event)
    BY DEF EngineErrorsAreExplained
  <2>1. case \in Case /\ results[i] = ResultOf("decision_engine", TRUE, case.event)
    BY EngineRow
  <2>2. QED
    BY <2>1, ErrorsOfTheEngine
<1>2. QED
  BY ScanAlways, <1>1, PTL

(***************************************************************************)
(* In no row, gated or not, is a customer contacted for an expired card or *)
(* for a failure of unknown cause.                                         *)
(***************************************************************************)
THEOREM DeadCausesStayAlone == Spec => []DeadCausesAreLeftAlone
<1>1. ScanInv => DeadCausesAreLeftAlone
  <2> SUFFICES ASSUME ScanInv, NEW i \in DOMAIN results, results[i].executed
               PROVE  results[i].event.failure_code \notin {"expired_card", "unknown"}
    BY DEF DeadCausesAreLeftAlone, Range
  <2>1. PICK n \in 1..4 : FromRow(batch, results, n) /\ DOMAIN results \subseteq DOMAIN batch
    BY ResultsAtHand
  <2>2. PICK e \in FailureEvent : results[i] = ResultOf(Rows[n].policy, Rows[n].gate, e)
    BY <2>1, ResultsHaveCases DEF ScanInv, RowInv
  <2>3. results[i].event = e
    BY <2>2 DEF ResultOf
  <2>4. QED
    BY <2>2, <2>3, RowsAreNamed, ContactsHeedTheCode
<1>2. QED
  BY ScanAlways, <1>1, PTL

(***************************************************************************)
(* Of every case of every batch, the engine asks for no more as its        *)
(* retries add up.                                                         *)
(***************************************************************************)
THEOREM BackoffIsKept == Spec => []BackoffNeverReverses
<1>1. ScanInv => BackoffNeverReverses
  <2> SUFFICES ASSUME ScanInv, phase = "written", NEW i \in DOMAIN reports[1].results
               PROVE  LET event == reports[1].results[i].event
                      IN  \A n \in event.retry_count..(RetryBudget + 1) :
                             Insistence(Favourite([event EXCEPT !.retry_count = n]))
                               <= Insistence(Favourite(event))
    BY DEF BackoffNeverReverses, Range
  <2>1. 1 \in DOMAIN reports
    BY DEF ScanInv, Places, Filed
  <2>2. reports[1].results \in Seq(Results)
    BY <2>1, ReportsAtHand DEF ReportRecords
  <2> DEFINE result == reports[1].results[i]
  <2>3. result.event \in FailureEvent
    <3>1. result \in Results
      BY <2>2
    <3> HIDE DEF result
    <3>2. QED
      BY <3>1 DEF Results
  <2>4. reports[1].results[i].event.retry_count \in Nat
    BY <2>3 DEF FailureEvent
  <2>5. QED
    BY <2>3, <2>4, RetriesOnlyAddUp DEF RetryBudget
<1>2. QED
  BY ScanAlways, <1>1, PTL
=============================================================================
