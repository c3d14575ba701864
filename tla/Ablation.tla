------------------------------ MODULE Ablation ------------------------------
(***************************************************************************)
(* baselines/harness_runner.py over eval/harness.py: the batch is scored   *)
(* four times, once per policy.  For each row _run_policy rebinds          *)
(* pipeline.decide, and for the last one pipeline.authorize as well, calls *)
(* run_eval on the fake transport, and restores both in a finally.         *)
(*                                                                         *)
(* A record of the batch is a set: empty if FailureEvent or                *)
(* GroundTruthLabel rejects it.  Rates are kept as the counts they are     *)
(* quotients of; printing is left out.                                     *)
(***************************************************************************)
EXTENDS GroundTruth, FiniteSets, FiniteSetsExt, Functions

CONSTANT Batches              \* the data sets the runner may be pointed at

Case == [event : FailureEvent, label : GroundTruthLabel]

ASSUME BatchesAssumption == Batches \subseteq Seq(Optional(Case)) /\ Batches # {}

VARIABLES
    batch,                    \* the records of the JSON file
    row,                      \* which of runs main is at
    phase,                    \* where it is
    decide, authorize,        \* what the pipeline's globals are bound to
    at, results, tally,       \* locals of run_eval: position, audit results, sums
    reports                   \* results of main

locals == <<at, results, tally>>
vars   == <<batch, row, phase, decide, authorize, locals, reports>>

Row(policy, gate) == [policy |-> policy, gate |-> gate]

Rows == << Row("decision_engine", TRUE), Row("always_retry", TRUE),
           Row("threshold", TRUE), Row("diagnosis_only", FALSE) >>

Phases == { "bind", "score", "returned", "raised", "returning", "raising",
            "failed", "abandoned", "written" }

(***************************************************************************)
(* One case through the pipeline, on FakeRazorpayClient and FakeNotifier   *)
(***************************************************************************)
AlwaysAuthorized(candidate) ==
    [chosen_action |-> candidate, authorized |-> TRUE, policy_rule_triggered |-> {}]

\* The fake client answers at once; run_eval leaves its fail flag at False
CreatePaymentLink(fail) == IF fail THEN "failed" ELSE "created"

RunPipeline(event) ==
    LET diagnosis == Diagnose(event)
        top       == Plan(decide, event, diagnosis)[1]
        gate      == IF authorize = "authorize" THEN Authorize(event, top)
                                                ELSE AlwaysAuthorized(top)
    IN  [ event         |-> event,
          diagnosis     |-> diagnosis,
          gate_decision |-> gate,
          executed      |-> /\ Dispatch(gate) = "link"
                            /\ CreatePaymentLink(FALSE) = "created" ]

Action(result) == result.gate_decision.chosen_action.action_type

(***************************************************************************)
(* Scoring                                                                 *)
(***************************************************************************)
\* The expected sentence is part of the diagnosed one
DiagnosisMatches(case, result) ==
    case.label.root_cause = result.diagnosis.root_cause.cause

DecisionMatches(case, result) == case.label.action = Action(result)

ShouldExecute(result) ==
    /\ result.gate_decision.authorized
    /\ Action(result) \in RetryActions
    /\ result.executed

ExpectedExecute(case) == case.label.action \in RetryActions /\ case.label.authorized

NoTally == [ correct_diag |-> 0, correct_decision |-> 0, exceptions |-> {},
             tp |-> 0, fp |-> 0, fn |-> 0, tn |-> 0,
             at_risk |-> 0, attempted |-> 0, recovered |-> 0 ]

One(p)         == IF p THEN 1 ELSE 0
AmountIf(p, c) == IF p THEN c.event.amount ELSE 0

\* Mutant of Missed: what was not executed is missed, expected or not
NotDone(did, want) == ~did

\* The third branch of the scan; true negatives are what it leaves
Missed(did, want) == ~did /\ want

\* Mutant of Attempt: what is executed is an attempt, expected or not
AnyAttempt(did, want, case) == AmountIf(did, case)

\* What a case adds to the attempted amount
Attempt(did, want, case) == AmountIf(did /\ want, case)

\* The body of run_eval's loop once the pipeline has returned
Scored(t, i, case, result) ==
    LET did      == ShouldExecute(result)
        want     == ExpectedExecute(case)
        diag     == DiagnosisMatches(case, result)
        decision == DecisionMatches(case, result)
    IN  [ correct_diag     |-> t.correct_diag + One(diag),
          correct_decision |-> t.correct_decision + One(decision),
          exceptions       |-> t.exceptions
                               \union (IF diag THEN {} ELSE {<<i, "diagnosis">>})
                               \union (IF decision THEN {} ELSE {<<i, "decision">>}),
          tp        |-> t.tp + One(did /\ want),
          fp        |-> t.fp + One(did /\ ~want),
          fn        |-> t.fn + One(Missed(did, want)),
          tn        |-> t.tn + One(~did /\ ~Missed(did, want)),
          at_risk   |-> t.at_risk + AmountIf(want, case),
          attempted |-> t.attempted + Attempt(did, want, case),
          recovered |-> t.recovered
                        + AmountIf(did /\ want /\ case.label.outcome = "paid", case) ]

(***************************************************************************)
(* The runner                                                              *)
(***************************************************************************)
Init ==
    /\ batch \in Batches
    /\ row = 1
    /\ phase = "bind"
    /\ decide = "decision_engine"
    /\ authorize = "authorize"
    /\ at = 1
    /\ results = <<>>
    /\ tally = NoTally
    /\ reports = <<>>

\* _run_policy rebinds the globals and enters run_eval
Bind ==
    /\ phase = "bind" /\ row <= Len(Rows)
    /\ decide' = Rows[row].policy
    /\ authorize' = IF Rows[row].gate THEN authorize ELSE "always_authorized"
    /\ phase' = "score"
    /\ at' = 1 /\ results' = <<>> /\ tally' = NoTally
    /\ UNCHANGED <<batch, row, reports>>

Score ==
    /\ phase = "score" /\ at <= Len(batch)
    /\ \E case \in batch[at] :
          LET result == RunPipeline(case.event)
          IN  /\ results' = Append(results, result)
              /\ tally' = Scored(tally, at, case, result)
    /\ at' = at + 1
    /\ UNCHANGED <<batch, row, phase, decide, authorize, reports>>

\* FailureEvent or GroundTruthLabel rejects the record
Reject ==
    /\ phase = "score" /\ at <= Len(batch) /\ batch[at] = {}
    /\ phase' = "raised"
    /\ UNCHANGED <<batch, row, decide, authorize, locals, reports>>

\* The rates of an empty batch are divisions by zero
EmptyBatch ==
    /\ phase = "score" /\ batch = <<>>
    /\ phase' = "raised"
    /\ UNCHANGED <<batch, row, decide, authorize, locals, reports>>

(***************************************************************************)
(* Control-C.  A record that is rejected ends the first row already, so    *)
(* this is how a row with another engine, or without the gate, is left     *)
(* early.  Within the try, between the two bindings too, the finally       *)
(* follows; within the finally itself what it has not restored stays.      *)
(***************************************************************************)
Interrupt ==
    /\ \/ phase = "bind" /\ phase' = "failed"
       \/ phase = "score" /\ phase' = "raised"
       \/ /\ phase \in {"returned", "raised", "returning", "raising"}
          /\ phase' = "abandoned"
    /\ UNCHANGED <<batch, row, decide, authorize, locals, reports>>

Report ==
    /\ phase = "score" /\ at > Len(batch) /\ batch # <<>>
    /\ reports' = Append(reports, [policy |-> decide, gate |-> Rows[row].gate,
                                   tally |-> tally, results |-> results])
    /\ phase' = "returned"
    /\ UNCHANGED <<batch, row, decide, authorize, locals>>

\* The finally, whether the row returned or raised: its first assignment
RestoreDecide ==
    /\ \/ phase = "returned" /\ phase' = "returning"
       \/ phase = "raised" /\ phase' = "raising"
    /\ decide' = "decision_engine"
    /\ UNCHANGED <<batch, row, authorize, locals, reports>>

\* Mutant of RestoreAuthorize: it stands after the call and not in the finally
RestoreOnSuccess ==
    /\ \/ /\ phase = "returning" /\ phase' = "bind" /\ row' = row + 1
          /\ authorize' = "authorize"
       \/ phase = "raising" /\ phase' = "failed" /\ UNCHANGED <<row, authorize>>
    /\ UNCHANGED <<batch, decide, locals, reports>>

\* Mutant of RestoreAuthorize: a row that raised is tried again
RestoreAndRetry ==
    /\ \/ phase = "returning" /\ phase' = "bind" /\ row' = row + 1
       \/ phase = "raising" /\ phase' = "bind" /\ UNCHANGED row
    /\ authorize' = "authorize"
    /\ UNCHANGED <<batch, decide, locals, reports>>

\* Mutant of RestoreAuthorize: a row that raised is passed over
RestoreAndGoOn ==
    /\ phase \in {"returning", "raising"}
    /\ phase' = "bind" /\ row' = row + 1
    /\ authorize' = "authorize"
    /\ UNCHANGED <<batch, decide, locals, reports>>

\* Its second; main goes on to the next row, and an exception ends it
RestoreAuthorize ==
    /\ \/ phase = "returning" /\ phase' = "bind" /\ row' = row + 1
       \/ phase = "raising" /\ phase' = "failed" /\ UNCHANGED row
    /\ authorize' = "authorize"
    /\ UNCHANGED <<batch, decide, locals, reports>>

\* baseline_comparison.json is written once all rows are there
WriteFile ==
    /\ phase = "bind" /\ row > Len(Rows)
    /\ phase' = "written"
    /\ UNCHANGED <<batch, row, decide, authorize, locals, reports>>

Next ==
    \/ Bind \/ Score \/ Reject \/ EmptyBatch \/ Interrupt \/ Report
    \/ RestoreDecide \/ RestoreAuthorize \/ WriteFile

Spec == Init /\ [][Next]_vars

\* A single-threaded script
FairSpec == Spec /\ WF_vars(Next)

\* What the runner, run_eval and the pipeline can hold; a row's audit results
\* grow with its position in the batch, and main has a report per row behind it
TypeOK ==
    /\ \A i \in DOMAIN batch : batch[i] \in Optional(Case)
    /\ row \in 1..(Len(Rows) + 1)
    /\ phase \in Phases
    /\ decide \in {Rows[r].policy : r \in DOMAIN Rows}
    /\ authorize \in {"authorize", "always_authorized"}
    /\ at \in 1..(Len(batch) + 1)
    /\ Len(results) = at - 1
    /\ \A i \in DOMAIN results : results[i].gate_decision \in GateDecision
    /\ phase # "abandoned" =>
          Len(reports) = IF phase \in {"returned", "returning"} THEN row ELSE row - 1

(***************************************************************************)
(* Properties                                                              *)
(***************************************************************************)
Governed == INSTANCE GovernedRecovery
                WITH Runs <- {}, Events <- {}, contacts <- {}, trail <- {}

\* The bindings are those of the results
InRow == phase \in {"score", "raised", "returned"}

(***************************************************************************)
(* Between the rows, and when main is over, the pipeline is the one the    *)
(* rest of the process knows, with the engine and the gate in place, also  *)
(* after an exception or a control-C at any point of a row.  Only one that *)
(* falls into the two assignments of the finally leaves a binding behind.  *)
(***************************************************************************)
BindingsComeBack ==
    phase \in {"bind", "failed", "written"} =>
        decide = "decision_engine" /\ authorize = "authorize"

(***************************************************************************)
(* The one-pass scan computes, for each row, what the names of its counts  *)
(* say: the four counts are the cells of executed against expected, and    *)
(* the exceptions are the mismatches.                                      *)
(***************************************************************************)
Cell(report, did, want) ==
    {i \in DOMAIN batch : \A case \in batch[i] : /\ ShouldExecute(report.results[i]) = did
                                                 /\ ExpectedExecute(case) = want}

CountsAddUp ==
    \A report \in Range(reports) :
        LET t == report.tally
        IN  /\ t.tp = Cardinality(Cell(report, TRUE, TRUE))
            /\ t.fp = Cardinality(Cell(report, TRUE, FALSE))
            /\ t.fn = Cardinality(Cell(report, FALSE, TRUE))
            /\ t.tp + t.fp + t.fn + t.tn = Len(batch)
            /\ t.correct_diag + t.correct_decision + Cardinality(t.exceptions)
                 = 2 * Len(batch)

(***************************************************************************)
(* And so do its amounts: what is at risk, attempted of that, and paid of  *)
(* that, are the sums over the cases of those cells.                       *)
(***************************************************************************)
Paid == {i \in DOMAIN batch : \A case \in batch[i] : case.label.outcome = "paid"}

TotalAmount(report, S) ==
    MapThenSumSet(LAMBDA i : report.results[i].event.amount, S)

AmountsAddUp ==
    \A report \in Range(reports) :
        LET t    == report.tally
            hits == Cell(report, TRUE, TRUE)
            lost == Cell(report, FALSE, TRUE)
        IN  /\ t.at_risk = TotalAmount(report, hits \union lost)
            /\ t.attempted = TotalAmount(report, hits)
            /\ t.recovered = TotalAmount(report, hits \intersect Paid)

(***************************************************************************)
(* A row that is announced as gated contacts nobody policy forbids to      *)
(* contact, whichever policy proposes the actions.                         *)
(***************************************************************************)
GatedRowsAreGoverned ==
    InRow /\ Rows[row].gate =>
        \A r \in Range(results) :
            r.executed => Governed!Permitted(r.event, Action(r))

(***************************************************************************)
(* docs/BASELINES.md: always_retry is diagnosis_only plus the gate, so the *)
(* two rows decide alike and differ in the cases the gate refuses and in   *)
(* no other; and diagnosis, which comes first, scores the same in each row.*)
(***************************************************************************)
GateIsTheDifference ==
    Len(reports) = Len(Rows) =>
        /\ \A i \in DOMAIN batch :
              LET gated == reports[2].results[i]
                  free  == reports[4].results[i]
              IN  /\ Action(gated) = Action(free)
                  /\ gated.executed <=> /\ free.executed
                                        /\ Governed!Permitted(gated.event, Action(gated))
        /\ \A r \in DOMAIN reports :
              reports[r].tally.correct_diag = reports[1].tally.correct_diag

(***************************************************************************)
(* What costs the engine precision and recall on the synthetic batch: it   *)
(* executes against the label only a case that has failed three to nine    *)
(* times, and leaves a case that should be retried only at night or under  *)
(* a promise that stood when the payment failed.                           *)
(***************************************************************************)
IsDrawn(case) ==
    \E kind \in Kinds :
        /\ MayDraw(kind, case.event)
        /\ case.label \in Labels(kind, case.event)

EngineErrorsAreExplained ==
    InRow /\ decide = "decision_engine" =>
        \A i \in DOMAIN results : \A case \in {c \in batch[i] : IsDrawn(c)} :
            LET event == case.event
                did   == ShouldExecute(results[i])
                want  == ExpectedExecute(case)
            IN  /\ did /\ ~want => event.retry_count \in 3..9
                /\ ~did /\ want => QuietHour(event.hour) \/ ValidPromise(event)

(***************************************************************************)
(* The engine and the gate were written apart, each with its own copy of   *)
(* the rules.  They differ in two cases only: the engine wants to retry    *)
(* now in quiet hours, or to escalate an exhausted budget (its first rule) *)
(* while a promise to pay stands, which the gate puts first.               *)
(***************************************************************************)
EngineAndGateAgree ==
    InRow /\ decide = "decision_engine" =>
        \A r \in {s \in Range(results) : ~s.gate_decision.authorized} :
            LET rule == r.gate_decision.policy_rule_triggered
            IN  \/ rule = {"quiet_hours"} /\ r.event.retry_count = 0
                \/ /\ rule = {"active_valid_ptp_blocks_contact"}
                   /\ r.event.retry_count >= RetryBudget

(***************************************************************************)
(* No policy, gated or not, brings a customer a link for a cause that      *)
(* retrying cannot fix.  The gate does not look at the diagnosis, so this  *)
(* rests on each policy heeding the diagnoser.                             *)
(***************************************************************************)
DeadCausesAreLeftAlone ==
    \A r \in Range(results) :
        r.executed => r.event.failure_code \notin {"expired_card", "unknown"}

(***************************************************************************)
(* As the retries of a case add up, the engine backs off: from an          *)
(* immediate retry to a later one to none, never the other way.            *)
(***************************************************************************)
Insistence(action) ==
    CASE action = "retry_now"   -> 2
      [] action = "retry_later" -> 1
      [] OTHER                  -> 0

Favourite(event) == Decide(event, Diagnose(event))[1].action_type

BackoffNeverReverses ==
    phase = "written" =>
        \A r \in Range(reports[1].results) :
            LET event == r.event
            IN  \A n \in event.retry_count..(RetryBudget + 1) :
                   Insistence(Favourite([event EXCEPT !.retry_count = n]))
                     <= Insistence(Favourite(event))

(***************************************************************************)
(* The script comes to an end, with the file written or after an           *)
(* exception; an empty batch is such an exception.                         *)
(***************************************************************************)
AblationEnds == <>(phase \in {"written", "failed", "abandoned"})

(***************************************************************************)
(* README.md: of the engine's divergences from the labels "every one is    *)
(* documented with full reasoning in docs/DECISIONS.md".  Its entries 1 to *)
(* 5 are the disjuncts.                                                    *)
(***************************************************************************)
Documented(event, chosen, expected) ==
    \/ event.failure_code = "unknown" /\ <<chosen, expected>> = <<"escalate", "no_action">>
    \/ event.retry_count \in 3..9 /\ <<chosen, expected>> = <<"retry_later", "escalate">>
    \/ event.retry_count >= 10 /\ <<chosen, expected>> = <<"escalate", "no_action">>
    \/ event.retry_count \in 1..2 /\ <<chosen, expected>> = <<"retry_later", "retry_now">>
    \/ chosen = "no_action" /\ ValidPromise(event)

DivergencesAreDocumented ==
    InRow /\ decide = "decision_engine" =>
        \A i \in DOMAIN results : \A case \in {c \in batch[i] : IsDrawn(c)} :
            \/ DecisionMatches(case, results[i])
            \/ Documented(case.event, Action(results[i]), case.label.action)
=============================================================================
