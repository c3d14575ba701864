----------------------------- MODULE MCAblation -----------------------------
(***************************************************************************)
(* Bounded instances of Ablation: which batches the runner is given.       *)
(***************************************************************************)
EXTENDS Ablation

MCCases == {"c1", "c2"}

\* Every side of every threshold the pure stages compare with: amounts around
\* zero, below a paisa and around the baseline's Rs. 25,000; hours around 7 and
\* 22; retries around 0, 3 and 10; promises not made, undated, lapsed, due
\* today and due tomorrow
MCBoundaries ==
    { [ case_id        |-> "c1",
        amount         |-> amount,
        failure_code   |-> code,
        day            |-> 0,
        hour           |-> hour,
        offset         |-> 0,
        retry_count    |-> n,
        has_active_ptp |-> active,
        ptp_date       |-> promise ] :
          amount  \in {-10, 0, 5, Threshold, Threshold + 1},
          code    \in {"bank_timeout", "expired_card", "unknown"},
          hour    \in {6, 7, 21, 22},
          n       \in {0, 1, 2, 3, 9, 10, 11},
          active  \in BOOLEAN,
          promise \in {{}, {-1}, {0}, {1}} }

Labelled(kind, events) ==
    UNION {{[event |-> event, label |-> label] : label \in Labels(kind, event)} :
             event \in events}

\* What the generator may draw, with an amount below and one above Rs. 25,000,
\* by day and by night, on the reference date and before it
MCEvents(id, kind, amounts) ==
    { [ case_id        |-> id,
        amount         |-> amount,
        failure_code   |-> code,
        day            |-> moment[1],
        hour           |-> moment[2],
        offset         |-> 0,
        retry_count    |-> n,
        has_active_ptp |-> ShapeOf(kind).active,
        ptp_date       |-> date ] :
          amount \in IF kind = "amount_zero" THEN {0} ELSE amounts,
          code   \in ShapeOf(kind).codes,
          n      \in ShapeOf(kind).counts,
          date   \in ShapeOf(kind).dates,
          moment \in {<<0, 20>>, <<-5, 23>>} }

MCDrawn(id, kinds, amounts) ==
    UNION {Labelled(kind, MCEvents(id, kind, amounts)) : kind \in kinds}

Small == 499 * 1000
Large == 84500 * 1000

\* A few cases that are scored into different cells
MCMixed(id) ==
    {c \in MCDrawn(id, {"normal", "amount_zero", "stale_ptp"}, {Small, Large}) :
        /\ c.event.failure_code \in {"insufficient_funds", "unknown"}
        /\ c.event.retry_count \in {0, 4}
        /\ c.event.ptp_date \in {{}, {-1}}
        /\ c.event.day = 0}

\* No record, one of any sort, two, or one and a rejected one
MCBatches ==
    {<<>>}
    \union {<<{c}>> : c \in Labelled("normal", MCBoundaries)}
    \union {<<{c}>> : c \in MCDrawn("c1", Kinds, {Small})}
    \union {<<{c}, {d}>> : c \in MCMixed("c1"), d \in MCMixed("c2")}
    \union {<<{c}, {}>> : c \in MCMixed("c1")}

\* The generator's ordinary cases, one at a time
MCNormal == {<<{c}>> : c \in MCDrawn("c1", {"normal"}, {Small})}
=============================================================================
