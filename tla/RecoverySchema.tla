--------------------------- MODULE RecoverySchema ---------------------------
(***************************************************************************)
(* The enumerations and models of src/recoveryloop/schema: what a failure  *)
(* event, a candidate action, a gate decision and an audit record are.     *)
(*                                                                         *)
(* Data is kept to what the policy looks at.  An amount is an integer      *)
(* number of tenths of a paisa, so that a sub-paisa Decimal is a value of  *)
(* its own.  A timestamp is a calendar day, an hour of the day and the UTC *)
(* offset (in hours) it is written in: day and hour are what .date() and   *)
(* .hour return.  An Optional field is a set of at most one element.       *)
(***************************************************************************)
EXTENDS Integers, Sequences

CONSTANT Cases                \* the case_id values

FailureCodes == {"insufficient_funds", "expired_card", "bank_timeout",
                 "limit_drop", "gateway_error", "unknown"}

RetryActions == {"retry_now", "retry_later"}
ActionTypes  == RetryActions \union {"escalate", "no_action"}

Optional(S) == {s \in SUBSET S : \A x, y \in s : x = y}

FailureEvent ==
    [ case_id        : Cases,
      amount         : Int,
      failure_code   : FailureCodes,
      day            : Int,
      hour           : 0..23,
      offset         : -12..14,
      retry_count    : Nat,
      has_active_ptp : BOOLEAN,
      ptp_date       : Optional(Int) ]

\* root_cause is the table's sentence plus the suffixes that were appended
Diagnosis ==
    [ root_cause   : [cause : FailureCodes, zero : BOOLEAN, exhausted : BOOLEAN],
      is_retryable : BOOLEAN ]

\* score is in percent
CandidateAction == [action_type : ActionTypes, score : 0..100]

Rules == {"retry_budget_exceeded", "active_valid_ptp_blocks_contact",
          "quiet_hours", "zero_amount_no_recovery_action"}

GateDecision ==
    [ chosen_action         : CandidateAction,
      authorized            : BOOLEAN,
      policy_rule_triggered : Optional(Rules) ]

\* The hour of an event on the UTC clock; the code never computes it
UtcHour(event) == (event.hour - event.offset) % 24
=============================================================================
