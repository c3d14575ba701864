----------------------------- MODULE MCCaseLoop -----------------------------
(***************************************************************************)
(* A bounded instance of CaseLoop.                                         *)
(***************************************************************************)
EXTENDS CaseLoop

MCCases == {"c1"}

\* With no promise, one without a date, and one for the next day
MCPayments ==
    { [ case_id        |-> "c1",
        amount         |-> 5000,
        failure_code   |-> code,
        day            |-> 0,
        hour           |-> hour,
        offset         |-> 0,
        retry_count    |-> 0,
        has_active_ptp |-> promise[1],
        ptp_date       |-> promise[2] ] :
          code    \in {"bank_timeout", "expired_card"},
          hour    \in {12, 23},
          promise \in {<<FALSE, {}>>, <<TRUE, {}>>, <<TRUE, {1}>>} }
=============================================================================
