---------------------------- MODULE GroundTruth ----------------------------
(***************************************************************************)
(* scripts/generate_dataset.py: which failure events the synthetic batch   *)
(* is drawn from and how each is labelled.  The labels were written apart  *)
(* from the engine, and evaluation compares the two.                       *)
(*                                                                         *)
(* Days are counted from REFERENCE_DATE.  The shuffles and draws of the    *)
(* seeded generator are choices: an event is drawable if some seed yields  *)
(* it.  Merchant, currency and the reasons given are left out.             *)
(***************************************************************************)
EXTENDS RecoveryPolicy

\* What sets an index of SPECIALS or PTP_VALID, or neither, apart
Kinds == {"normal", "amount_zero", "retry_absurd", "unknown_high_retry",
          "ptp_null", "stale_ptp", "ptp_valid"}

Shape(codes, counts, active, dates) ==
    [codes |-> codes, counts |-> counts, active |-> active, dates |-> dates]

\* Codes and retry counts are shuffled apart, so that any two may meet
ShapeOf(kind) ==
    CASE kind = "normal" -> Shape(FailureCodes, 0..5, FALSE, {{}})
      [] kind = "amount_zero" -> Shape({"insufficient_funds"}, {0}, FALSE, {{}})
      [] kind = "retry_absurd" -> Shape({"bank_timeout"}, {55}, FALSE, {{}})
      [] kind = "unknown_high_retry" -> Shape({"unknown"}, {6}, FALSE, {{}})
      [] kind = "ptp_null" -> Shape({"insufficient_funds"}, {0}, TRUE, {{}})
      [] kind = "stale_ptp" ->
           Shape({"insufficient_funds", "bank_timeout", "limit_drop"}, {0}, TRUE,
                 {{d} : d \in -10..-1})
      [] kind = "ptp_valid" ->
           Shape(FailureCodes \ {"unknown"}, 0..5, TRUE, {{d} : d \in 1..7})

\* REFERENCE_TIME is 21:00; a recent event is less than three hours old, any
\* other from two days to almost thirty-one
Moments ==
    {<<0, hour>> : hour \in 18..21}
    \union {<<h \div 24, h % 24>> : h \in (21 - 31 * 24)..(21 - 2 * 24)}

\* Some seed yields the event, given that its amount is one of those listed
MayDraw(kind, event) ==
    /\ event.failure_code \in ShapeOf(kind).codes
    /\ event.retry_count \in ShapeOf(kind).counts
    /\ event.has_active_ptp = ShapeOf(kind).active
    /\ event.ptp_date \in ShapeOf(kind).dates
    /\ <<event.day, event.hour>> \in Moments
    /\ event.offset = 0
    /\ event.amount = 0 <=> kind = "amount_zero"

ExpectedAction(code, retry_count, valid_ptp) ==
    IF valid_ptp THEN "no_action"
    ELSE IF retry_count >= 3
      THEN IF code \in {"gateway_error", "unknown"} THEN "no_action" ELSE "escalate"
    ELSE CASE code = "unknown"            -> "no_action"
           [] code = "expired_card"       -> "escalate"
           [] code = "insufficient_funds" -> "retry_now"
           [] OTHER                       -> "retry_later"

\* action_override, or the rule
LabelAction(kind, event) ==
    CASE kind \in {"amount_zero", "retry_absurd"} -> "no_action"
      [] kind = "ptp_null" -> "retry_later"
      [] OTHER -> ExpectedAction(event.failure_code, event.retry_count, kind = "ptp_valid")

Outcomes == {"paid", "not_paid"}

\* A zero amount has a sentence of its own, which is not the diagnoser's
GroundTruthLabel ==
    [ root_cause : FailureCodes \union {"zero_amount"},
      action     : ActionTypes,
      authorized : BOOLEAN,
      outcome    : Outcomes ]

\* Whether a retried customer pays is drawn at random
Labels(kind, event) ==
    LET action == LabelAction(kind, event)
    IN  { [ root_cause |-> IF kind = "amount_zero" THEN "zero_amount"
                                                   ELSE event.failure_code,
            action     |-> action,
            authorized |-> action # "no_action",
            outcome    |-> outcome ] :
              outcome \in IF action \in RetryActions THEN Outcomes ELSE {"not_paid"} }
=============================================================================
