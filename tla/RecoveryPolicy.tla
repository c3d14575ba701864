--------------------------- MODULE RecoveryPolicy ---------------------------
(***************************************************************************)
(* The three pure stages of the pipeline, diagnose -> decide -> authorize, *)
(* and the baseline policies that may stand in for decide.                 *)
(***************************************************************************)
EXTENDS RecoverySchema

\* Mutant of RetryBudget: one more
BudgetOfEleven == 11

RetryBudget == 10                \* retry_count >= 10 in all three stages
Threshold   == 25000 * 100 * 10  \* Rs. 25,000.00 of the threshold baseline

(***************************************************************************)
(* Diagnoser                                                               *)
(***************************************************************************)
\* Mutant of RetryableCodes: an unrecognized code is worth a retry
RetryableIfUnknown == FailureCodes \ {"expired_card"}

RetryableCodes == FailureCodes \ {"expired_card", "unknown"}

Diagnose(event) ==
    LET zero      == event.amount = 0
        exhausted == event.retry_count >= RetryBudget
    IN  [ root_cause   |-> [cause     |-> event.failure_code,
                            zero      |-> zero,
                            exhausted |-> exhausted],
          is_retryable |-> /\ event.failure_code \in RetryableCodes
                           /\ ~zero
                           /\ ~exhausted ]

(***************************************************************************)
(* DecisionEngine                                                          *)
(***************************************************************************)
\* Mutant of ValidPromise: a promise lapses on its day
ValidBeforeItsDay(event) ==
    event.has_active_ptp /\ \E d \in event.ptp_date : d > event.day

\* Mutant of ValidPromise: a promise without a date stands
ValidIfUndated(event) ==
    event.has_active_ptp /\ \A d \in event.ptp_date : d >= event.day

\* "Valid" means active, dated, and dated today or later, where today is the
\* calendar date of the event's own timestamp
ValidPromise(event) ==
    event.has_active_ptp /\ \E d \in event.ptp_date : d >= event.day

Candidate(action, score) == [action_type |-> action, score |-> score]

\* Rules 5 and 6: no promise stands in the way
UnblockedCandidates(event, diagnosis) ==
    LET n == event.retry_count
    IN  CASE ~diagnosis.is_retryable ->
               <<Candidate("escalate", 70), Candidate("no_action", 20)>>
          [] diagnosis.is_retryable /\ n = 0 ->
               <<Candidate("retry_now", 90), Candidate("retry_later", 50)>>
          [] diagnosis.is_retryable /\ n \in 1..2 ->
               <<Candidate("retry_later", 70), Candidate("retry_now", 50)>>
          [] OTHER ->
               <<Candidate("retry_later", 65), Candidate("escalate", 35)>>

\* Mutant of RuleCandidates: the engine leaves promises to the gate
RuleCandidatesNoPromise(event, diagnosis) ==
    CASE event.retry_count >= RetryBudget ->
           <<Candidate("escalate", 80), Candidate("no_action", 30)>>
      [] event.retry_count < RetryBudget /\ event.amount = 0 ->
           <<Candidate("no_action", 95), Candidate("escalate", 5)>>
      [] OTHER -> UnblockedCandidates(event, diagnosis)

\* Rules 1 to 4, in order; a stale promise only changes the wording
RuleCandidates(event, diagnosis) ==
    CASE event.retry_count >= RetryBudget ->
           <<Candidate("escalate", 80), Candidate("no_action", 30)>>
      [] event.retry_count < RetryBudget /\ event.amount = 0 ->
           <<Candidate("no_action", 95), Candidate("escalate", 5)>>
      [] event.retry_count < RetryBudget /\ event.amount # 0 /\ ValidPromise(event) ->
           <<Candidate("no_action", 85), Candidate("retry_later", 40)>>
      [] OTHER -> UnblockedCandidates(event, diagnosis)

\* Mutant of SortedByScore: reverse=True is forgotten
SortedAscending(pair) ==
    IF pair[2].score < pair[1].score THEN <<pair[2], pair[1]>> ELSE pair

\* sorted(..., key=score, reverse=True) on the two candidates a rule returns
SortedByScore(pair) ==
    IF pair[2].score > pair[1].score THEN <<pair[2], pair[1]>> ELSE pair

Decide(event, diagnosis) == SortedByScore(RuleCandidates(event, diagnosis))

(***************************************************************************)
(* The baselines: drop-in replacements of decide in the ablation runs.     *)
(***************************************************************************)
RetryOrNothing(retry) ==
    <<Candidate(IF retry THEN "retry_now" ELSE "no_action", 100)>>

AlwaysRetryPolicy(event, diagnosis) == RetryOrNothing(diagnosis.is_retryable)

ThresholdPolicy(event, diagnosis) ==
    RetryOrNothing(diagnosis.is_retryable /\ event.amount <= Threshold)

\* Mutant of DiagnosisOnlyPolicy: it follows the failure code, not the diagnosis
CodeOnlyPolicy(event, diagnosis) ==
    RetryOrNothing(event.failure_code \in RetryableCodes)

DiagnosisOnlyPolicy(event, diagnosis) == RetryOrNothing(diagnosis.is_retryable)

\* Those that work behind the gate
EngineNames == {"decision_engine", "always_retry", "threshold"}

\* The candidates of the function pipeline.decide is bound to
Plan(engine, event, diagnosis) ==
    CASE engine = "decision_engine" -> Decide(event, diagnosis)
      [] engine = "always_retry"    -> AlwaysRetryPolicy(event, diagnosis)
      [] engine = "threshold"       -> ThresholdPolicy(event, diagnosis)
      [] engine = "diagnosis_only"  -> DiagnosisOnlyPolicy(event, diagnosis)

(***************************************************************************)
(* CapabilityGate                                                          *)
(***************************************************************************)
\* Mutant of QuietHour: the first hour is let through
QuietHourFromEleven(hour) == hour > 22 \/ hour < 7

QuietHour(hour) == hour >= 22 \/ hour < 7

\* The first rule that stands against an action, if any
BrokenRule(event, action) ==
    IF action \in RetryActions /\ event.retry_count >= RetryBudget
      THEN {"retry_budget_exceeded"}
    ELSE IF action # "no_action" /\ ValidPromise(event)
      THEN {"active_valid_ptp_blocks_contact"}
    ELSE IF action = "retry_now" /\ QuietHour(event.hour)
      THEN {"quiet_hours"}
    ELSE IF action \in RetryActions /\ event.amount = 0
      THEN {"zero_amount_no_recovery_action"}
    ELSE {}

\* Mutant of Authorize: the gate takes the engine's word for a sure thing
AuthorizeIfSure(event, candidate) ==
    LET rule == BrokenRule(event, candidate.action_type)
    IN  [ chosen_action         |-> candidate,
          authorized            |-> rule = {} \/ candidate.score >= 80,
          policy_rule_triggered |-> rule ]

\* The diagnosis is a parameter of the code and is not consulted
Authorize(event, candidate) ==
    LET rule == BrokenRule(event, candidate.action_type)
    IN  [ chosen_action         |-> candidate,
          authorized            |-> rule = {},
          policy_rule_triggered |-> rule ]

(***************************************************************************)
(* Executor                                                                *)
(***************************************************************************)
\* Mutant of Dispatch: an escalation mails the customer too
DispatchEscalations(gate) ==
    CASE ~gate.authorized -> "refused"
      [] gate.authorized /\ gate.chosen_action.action_type # "no_action" -> "link"
      [] gate.authorized /\ gate.chosen_action.action_type = "no_action" -> "nothing"

\* Mutant of Dispatch: escalation is an unhandled action type
DispatchUnhandled(gate) ==
    CASE ~gate.authorized \/ gate.chosen_action.action_type = "escalate" -> "refused"
      [] gate.authorized /\ gate.chosen_action.action_type \in RetryActions -> "link"
      [] gate.authorized /\ gate.chosen_action.action_type = "no_action" -> "nothing"

\* Executor.execute up to the first transport call; it raises on a denied
\* verdict, which run_pipeline turns into a record
Dispatch(gate) ==
    CASE ~gate.authorized -> "refused"
      [] gate.authorized /\ gate.chosen_action.action_type \in RetryActions -> "link"
      [] gate.authorized /\ gate.chosen_action.action_type = "escalate" -> "escalated"
      [] gate.authorized /\ gate.chosen_action.action_type = "no_action" -> "nothing"
=============================================================================
