------------------------- MODULE MCRecoveryPipeline -------------------------
(***************************************************************************)
(* Bounded instances of RecoveryPipeline.                                  *)
(***************************************************************************)
EXTENDS RecoveryPipeline

Event(amount, code, hour, offset, n, promise) ==
    [ case_id        |-> "c1",
      amount         |-> amount,
      failure_code   |-> code,
      day            |-> 0,
      hour           |-> hour,
      offset         |-> offset,
      retry_count    |-> n,
      has_active_ptp |-> promise # {},
      ptp_date       |-> promise ]

MCCases == {"c1"}

\* One event for each fate: retried now, denied for quiet hours, retried
\* later, left alone for a promise, escalated
MCFates == { Event(5000, "bank_timeout", 12, 0, 0, {}),
             Event(5000, "bank_timeout", 23, 0, 0, {}),
             Event(5000, "bank_timeout", 23, 0, 2, {-1}),
             Event(5000, "bank_timeout", 12, 0, 1, {0}),
             Event(5000, "expired_card", 12, 0, 0, {}) }

\* Just after midday ten hours east of Greenwich: two in the morning, UTC
MCEastern == { Event(5000, "bank_timeout", 12, 10, 0, {}) }

\* A second attempt, planned for later, of a case that failed late at night
MCNight == { Event(5000, "bank_timeout", 23, 0, 1, {}) }

MCNoon == { Event(5000, "bank_timeout", 12, 0, 0, {}) }
=============================================================================
