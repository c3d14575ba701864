------------------------ MODULE RecoveryPolicyProofs ------------------------
(***************************************************************************)
(* Lemmas about the pure stages, for every failure event and planner.      *)
(***************************************************************************)
EXTENDS RecoveryPolicy, TLAPS

-----------------------------------------------------------------------------
(***************************************************************************)
(* The pure stages.  Whatever planner is plugged in, its first candidate   *)
(* is a candidate, and the gate's verdict on it is a verdict.              *)
(***************************************************************************)
LEMMA PlanType ==
    ASSUME NEW e \in FailureEvent, NEW d \in Diagnosis, NEW g \in EngineNames \union {"diagnosis_only"}
    PROVE  Plan(g, e, d)[1] \in CandidateAction
<1> USE DEF CandidateAction, Candidate, ActionTypes, RetryActions
<1>1. CASE g = "decision_engine"
  <2>1. /\ UnblockedCandidates(e, d)[1] \in CandidateAction
        /\ UnblockedCandidates(e, d)[2] \in CandidateAction
    BY DEF UnblockedCandidates, Diagnosis, FailureEvent
  <2>2. /\ RuleCandidates(e, d)[1] \in CandidateAction
        /\ RuleCandidates(e, d)[2] \in CandidateAction
    BY <2>1 DEF RuleCandidates, FailureEvent
  <2>3. QED
    BY <1>1, <2>2 DEF Plan, Decide, SortedByScore
<1>2. CASE g \in {"always_retry", "threshold", "diagnosis_only"}
  BY <1>2 DEF Plan, AlwaysRetryPolicy, ThresholdPolicy, DiagnosisOnlyPolicy, RetryOrNothing
<1>3. QED
  BY <1>1, <1>2 DEF EngineNames

\* The diagnoser returns a diagnosis
LEMMA DiagnoseType ==
    ASSUME NEW e \in FailureEvent
    PROVE  Diagnose(e) \in Diagnosis
BY DEF Diagnose, Diagnosis, FailureEvent

\* The gate returns a decision
LEMMA AuthorizeType ==
    ASSUME NEW e \in FailureEvent, NEW c \in CandidateAction
    PROVE  Authorize(e, c) \in GateDecision
<1>1. BrokenRule(e, c.action_type) \in Optional(Rules)
  BY DEF BrokenRule, Optional, Rules
<1>2. QED
  BY <1>1 DEF Authorize, GateDecision

(***************************************************************************)
(* A planner proposes a contact only within the budget and for an amount.  *)
(***************************************************************************)
LEMMA PlannersHeedTheDiagnosis ==
    ASSUME NEW e \in FailureEvent, NEW g \in EngineNames,
           Plan(g, e, Diagnose(e))[1].action_type \in RetryActions
    PROVE  e.retry_count < RetryBudget /\ e.amount # 0
<1> USE DEF FailureEvent, RetryBudget
<1> DEFINE d == Diagnose(e)
<1>1. d.is_retryable => e.retry_count < RetryBudget /\ e.amount # 0
  BY DEF Diagnose
<1> HIDE DEF d
<1>2. CASE g = "decision_engine"
  <2>1. Decide(e, d)[1].action_type \in RetryActions
    BY <1>2 DEF Plan, d
  <2>2. SUFFICES ASSUME ~d.is_retryable PROVE FALSE
    BY <1>1
  <2> USE DEF Candidate, RetryActions
  <2>3. UnblockedCandidates(e, d) = <<Candidate("escalate", 70), Candidate("no_action", 20)>>
    BY <2>2 DEF UnblockedCandidates
  <2>4. CASE e.retry_count >= RetryBudget
    BY <2>1, <2>4 DEF Decide, SortedByScore, RuleCandidates
  <2>5. CASE e.retry_count < RetryBudget /\ e.amount = 0
    BY <2>1, <2>5 DEF Decide, SortedByScore, RuleCandidates
  <2>6. CASE e.retry_count < RetryBudget /\ e.amount # 0 /\ ValidPromise(e)
    BY <2>1, <2>6 DEF Decide, SortedByScore, RuleCandidates
  <2>7. CASE e.retry_count < RetryBudget /\ e.amount # 0 /\ ~ValidPromise(e)
    BY <2>1, <2>3, <2>7 DEF Decide, SortedByScore, RuleCandidates
  <2>8. QED
    BY <2>4, <2>5, <2>6, <2>7
<1>3. CASE g = "always_retry"
  BY <1>1, <1>3 DEF Plan, AlwaysRetryPolicy, RetryOrNothing, Candidate, RetryActions, d
<1>4. CASE g = "threshold"
  BY <1>1, <1>4 DEF Plan, ThresholdPolicy, RetryOrNothing, Candidate, RetryActions, d
<1>5. QED
  BY <1>2, <1>3, <1>4 DEF EngineNames
(***************************************************************************)
(* The gate lets a retry through only where policy permits a contact.      *)
(***************************************************************************)
LEMMA GateRefuses ==
    ASSUME NEW e \in FailureEvent, NEW c \in CandidateAction,
           Authorize(e, c).authorized, c.action_type \in RetryActions
    PROVE  /\ e.retry_count \in 0..9
           /\ e.has_active_ptp => \A d \in e.ptp_date : d < e.day
           /\ e.amount # 0
           /\ c.action_type = "retry_now" => e.hour \in 7..21
<1>1. BrokenRule(e, c.action_type) = {}
  BY DEF Authorize
<1>2. /\ ~(e.retry_count >= RetryBudget)
      /\ ~ValidPromise(e)
      /\ ~(c.action_type = "retry_now" /\ QuietHour(e.hour))
      /\ e.amount # 0
  BY <1>1 DEF BrokenRule, RetryActions
<1>3. e.retry_count \in 0..9
  BY <1>2 DEF RetryBudget, FailureEvent
<1>4. e.has_active_ptp => \A d \in e.ptp_date : d < e.day
  <2> SUFFICES ASSUME e.has_active_ptp, NEW d \in e.ptp_date PROVE d < e.day
    OBVIOUS
  <2>1. ~(d >= e.day)
    BY <1>2 DEF ValidPromise
  <2>2. e.ptp_date \in Optional(Int) /\ e.day \in Int
    BY DEF FailureEvent
  <2>3. d \in Int
    BY <2>2 DEF Optional
  <2>4. QED
    BY <2>1, <2>2, <2>3
<1>5. c.action_type = "retry_now" => e.hour \in 7..21
  <2>1. e.hour \in 0..23
    BY DEF FailureEvent
  <2>2. c.action_type = "retry_now" => ~(e.hour >= 22 \/ e.hour < 7)
    BY <1>2 DEF QuietHour
  <2>3. QED
    BY <2>1, <2>2
<1>6. QED
  BY <1>2, <1>3, <1>4, <1>5

-----------------------------------------------------------------------------
(***************************************************************************)
(* What the planners prefer, said in one place: the first rule of the      *)
(* engine that applies, and the baselines' two actions.                    *)
(***************************************************************************)
Preferred(e) ==
    IF e.retry_count >= RetryBudget             THEN "escalate"
    ELSE IF e.amount = 0 \/ ValidPromise(e)     THEN "no_action"
    ELSE IF e.failure_code \notin RetryableCodes THEN "escalate"
    ELSE IF e.retry_count = 0                   THEN "retry_now"
    ELSE "retry_later"

LEMMA EngineChoice ==
    ASSUME NEW e \in FailureEvent
    PROVE  Decide(e, Diagnose(e))[1].action_type = Preferred(e)
<1> DEFINE d == Diagnose(e)
<1> USE DEF FailureEvent, RetryBudget, Candidate, Preferred
<1>1. d.is_retryable <=> /\ e.failure_code \in RetryableCodes
                         /\ e.amount # 0
                         /\ e.retry_count < RetryBudget
  BY DEF Diagnose
<1> HIDE DEF d
<1>2. CASE e.retry_count >= RetryBudget
  BY <1>2 DEF Decide, SortedByScore, RuleCandidates, d
<1>3. CASE e.retry_count < RetryBudget /\ e.amount = 0
  BY <1>3 DEF Decide, SortedByScore, RuleCandidates, d
<1>4. CASE e.retry_count < RetryBudget /\ e.amount # 0 /\ ValidPromise(e)
  BY <1>4 DEF Decide, SortedByScore, RuleCandidates, d
<1>5. CASE e.retry_count < RetryBudget /\ e.amount # 0 /\ ~ValidPromise(e)
  <2>1. RuleCandidates(e, d) = UnblockedCandidates(e, d)
    BY <1>5 DEF RuleCandidates
  <2>2. CASE e.failure_code \notin RetryableCodes
    <3>1. ~d.is_retryable
      BY <1>1, <2>2
    <3>2. UnblockedCandidates(e, d)
            = <<Candidate("escalate", 70), Candidate("no_action", 20)>>
      BY <3>1 DEF UnblockedCandidates
    <3>3. QED
      BY <1>5, <2>1, <2>2, <3>2 DEF Decide, SortedByScore, d
  <2>3. CASE e.failure_code \in RetryableCodes /\ e.retry_count = 0
    <3>1. UnblockedCandidates(e, d)
            = <<Candidate("retry_now", 90), Candidate("retry_later", 50)>>
      BY <1>1, <1>5, <2>3 DEF UnblockedCandidates
    <3>2. QED
      BY <1>5, <2>1, <2>3, <3>1 DEF Decide, SortedByScore, d
  <2>4. CASE e.failure_code \in RetryableCodes /\ e.retry_count \in 1..2
    <3>1. UnblockedCandidates(e, d)
            = <<Candidate("retry_later", 70), Candidate("retry_now", 50)>>
      BY <1>1, <1>5, <2>4 DEF UnblockedCandidates
    <3>2. QED
      BY <1>5, <2>1, <2>4, <3>1 DEF Decide, SortedByScore, d
  <2>5. CASE e.failure_code \in RetryableCodes /\ e.retry_count >= 3
    <3>1. UnblockedCandidates(e, d)
            = <<Candidate("retry_later", 65), Candidate("escalate", 35)>>
      BY <1>1, <1>5, <2>5 DEF UnblockedCandidates
    <3>2. QED
      BY <1>5, <2>1, <2>5, <3>1 DEF Decide, SortedByScore, d
  <2>6. QED
    BY <2>2, <2>3, <2>4, <2>5
<1>6. QED
  BY <1>2, <1>3, <1>4, <1>5

\* The two baselines of the ablation that ignore the amount are one planner
LEMMA BaselineChoice ==
    ASSUME NEW e, NEW g \in {"always_retry", "diagnosis_only"}
    PROVE  Plan(g, e, Diagnose(e)) = RetryOrNothing(Diagnose(e).is_retryable)
BY DEF Plan, AlwaysRetryPolicy, DiagnosisOnlyPolicy

\* A planner that asks for a retry has heeded the diagnoser's table
LEMMA PlannersHeedTheCode ==
    ASSUME NEW e \in FailureEvent, NEW g \in EngineNames \union {"diagnosis_only"},
           Plan(g, e, Diagnose(e))[1].action_type \in RetryActions
    PROVE  e.failure_code \in RetryableCodes
<1>1. CASE g = "decision_engine"
  <2>1. Preferred(e) \in RetryActions
    BY <1>1, EngineChoice DEF Plan
  <2>2. QED
    BY <2>1 DEF Preferred, RetryActions
<1>2. CASE g \in {"always_retry", "threshold", "diagnosis_only"}
  <2>1. Diagnose(e).is_retryable => e.failure_code \in RetryableCodes
    BY DEF Diagnose
  <2>2. Diagnose(e).is_retryable
    BY <1>2 DEF Plan, AlwaysRetryPolicy, ThresholdPolicy, DiagnosisOnlyPolicy,
                RetryOrNothing, Candidate, RetryActions
  <2>3. QED
    BY <2>1, <2>2
<1>3. QED
  BY <1>1, <1>2 DEF EngineNames

(***************************************************************************)
(* The converse of GateRefuses: what policy permits, the gate lets through.*)
(***************************************************************************)
LEMMA GateLetsThrough ==
    ASSUME NEW e \in FailureEvent, NEW c \in CandidateAction,
           c.action_type \in RetryActions,
           e.retry_count \in 0..9,
           e.has_active_ptp => \A d \in e.ptp_date : d < e.day,
           e.amount # 0,
           c.action_type = "retry_now" => e.hour \in 7..21
    PROVE  Authorize(e, c).authorized
<1>1. ~(e.retry_count >= RetryBudget)
  BY DEF RetryBudget
<1>2. ~ValidPromise(e)
  <2> SUFFICES ASSUME e.has_active_ptp, NEW d \in e.ptp_date, d >= e.day PROVE FALSE
    BY DEF ValidPromise
  <2>1. d \in Int /\ e.day \in Int
    BY DEF FailureEvent, Optional
  <2>2. QED
    BY <2>1
<1>3. ~(c.action_type = "retry_now" /\ QuietHour(e.hour))
  BY DEF QuietHour
<1>4. BrokenRule(e, c.action_type) = {}
  BY <1>1, <1>2, <1>3 DEF BrokenRule, RetryActions
<1>5. QED
  BY <1>4 DEF Authorize

(***************************************************************************)
(* Where the engine and the gate part: the rule that stands against the    *)
(* engine's own preference is that of quiet hours, on a first attempt, or  *)
(* that of a promise to pay, on an exhausted budget.                       *)
(***************************************************************************)
LEMMA EngineAgainstGate ==
    ASSUME NEW e \in FailureEvent, BrokenRule(e, Preferred(e)) # {}
    PROVE  \/ /\ BrokenRule(e, Preferred(e)) = {"quiet_hours"}
              /\ e.retry_count = 0
           \/ /\ BrokenRule(e, Preferred(e)) = {"active_valid_ptp_blocks_contact"}
              /\ e.retry_count >= RetryBudget
BY DEF BrokenRule, Preferred, RetryActions
=============================================================================
