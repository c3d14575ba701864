# RecoveryLoop in TLA+

RecoveryLoop takes failed payments and decides, event by event, whether a
customer may be contacted with a new payment link: Diagnoser, DecisionEngine,
CapabilityGate, Executor, Notifier and AuditLog, chained by `run_pipeline` and
served by a small HTTP API. This directory holds a TLA+ model of it, the TLC
configurations that check the model on small instances, and proofs of the
properties that matter most for every instance.

Paths are from the root of the repository; `pkg` stands for
`src/recoveryloop`.

## 1. Inventory

| Component | Code | State it keeps | Operations |
|---|---|---|---|
| Schema | `pkg/schema/__init__.py` | none | enumerations, pydantic models |
| Diagnoser | `pkg/diagnosis/diagnoser.py` | none (pure) | `diagnose` |
| DecisionEngine | `pkg/decision/decision_engine.py` | none (pure) | `decide` |
| CapabilityGate | `pkg/gate/capability_gate.py` | none (pure) | `authorize` |
| Executor | `pkg/executor/executor.py`, `protocols.py` | none | `execute` |
| Razorpay client | `pkg/executor/razorpay_client.py` | an HTTP client; the links live at Razorpay | `create_payment_link` |
| Notifier | `pkg/notifier/__init__.py` | an HTTP client | `record` |
| AuditLog | `pkg/audit/audit_log.py` | one sqlite3 connection and the table behind it | `write`, `get_by_id`, `get_by_date_range`, `get_all` |
| Pipeline | `pkg/pipeline.py` | locals of one call | `run_pipeline` |
| HTTP API | `pkg/api.py` | one client, notifier and AuditLog per process; nothing of a case | `POST /events`, `GET /audit/{id}`, `GET /metrics` |
| Baselines | `src/baselines/policies.py` | none (pure) | three drop-in planners |
| Ablation runner | `src/baselines/harness_runner.py` | rebinds `pipeline.decide`, `pipeline.authorize` | `_run_policy`, `main` |
| Evaluation | `pkg/eval/harness.py`, `pkg/executor/fake_razorpay.py` | counters and sums of one run | `run_eval` |
| Live demo | `scripts/live_demo_run.py` | environment; rebinds `pipeline.execute`; a file of its own | `main` |
| Dataset generator | `scripts/generate_dataset.py` | a seeded generator | `build_dataset`, `expected_action` |
| Dashboard | `dashboard/app.py` | none | presentation |

How they interact. `POST /events` is a synchronous handler, so the server runs
it in a thread of its pool: several calls of `run_pipeline` are under way at
once, and they share the client, the notifier and, what matters most, the one
sqlite3 connection of the AuditLog (`check_same_thread=False`, no lock). Inside
a call the first three stages are pure. The Executor then makes one POST to
Razorpay, and if that is answered with a link, the Notifier makes one GET for
the link's status. Last, the audit record is written and returned. Nothing is
written before the POST. Between two runs of one case the service remembers
nothing: the caller sends the `retry_count` that the limits apply to.

Offline, the ablation runner scores one batch of labelled cases four times, each
time with another function in `pipeline.decide`, and the last time with the gate
replaced; `run_eval` runs the real pipeline on a fake transport and an
in-memory AuditLog. The labels come from the dataset generator. The live demo
sends one event of its own through the real pipeline, with a customer contact.

What is hard, and therefore what the properties are about:

- *interleaving*: two `write` calls inside one connection;
- *crashes*: between the POST and the audit write, and inside the write;
- *late and lost messages*: the client's 30 s timeout says nothing of what
  becomes of the request at Razorpay;
- *partial failure*: `resp.json()` raising, a response without an id, a `write`
  that raises and never rolls back;
- *agreement of copies*: budget, promise and amount rules are written twice, in
  the engine and in the gate, with boundaries of their own, and a third time in
  the labels;
- *time*: hours and dates are those of the event's timestamp in its own zone,
  and timestamps are stored and compared as text;
- *repetition*: lost responses and false failures make a caller post again;
- *rebound globals*: an exception or a control-C in the middle of a row, a
  wrapper that must be in place for the one call it is meant for.

What makes each component correct. Policy: the gate lets no contact through that
policy forbids, whichever planner runs before it; engine and gate do not drift
apart; the engine backs off; nobody is turned away for ever. Pipeline: one link
per run at most; a record never contradicts what exists at Razorpay; a bounded
number of links per payment. AuditLog: a returned id is a stored and findable
record; stored ids stay; no transaction is left open; a range has the events
that lie in it. Evaluation: the sums are what their names say, and the process
is as before when a row is over. Live demo: test keys only, a customer who is
really notified, and it shows its own run. `PROJECT.json` lists the hazards at
their lines with the properties that watch them.

## 2. The modules

```
RecoverySchema <- RecoveryPolicy <- GovernedRecovery  (abstract: what is promised)
                                 <- RecoveryPipeline  (threads, provider, process) <- LiveDemo
                                 <- CaseLoop          (one payment, post after post)
                                 <- GroundTruth       (labels) <- Ablation (run_eval, four rows)
AuditStore (abstract write)      <- RecoveryPipeline  (Store == INSTANCE)
                                 <- AuditLog          (Store == INSTANCE, refinement) <- AuditQueries
MCAuditLog, MCRecoveryPipeline, MCLiveDemo, MCCaseLoop, MCAblation      bounded instances
RecoveryPolicyProofs <- RecoveryPipelineProofs <- RecoveryRecordProofs <- LiveDemoProofs
                     <- CaseLoopProofs, AblationProofs;   AuditLogProofs <- AuditQueriesProofs
```

**RecoverySchema** gives the data. An amount is a number of tenths of a paisa
(so that amounts below a paisa exist), a timestamp is a day, an hour and the
UTC offset it is written in, a score is in percent, an `Optional` is a set with
at most one element. Merchant, currency, wording and names are left out.

**RecoveryPolicy** translates the pure stages: `Diagnose`, `Decide` (with
`RuleCandidates`, `UnblockedCandidates` and the final sort), `Authorize` (with
the five rules in order as `BrokenRule`), the three baselines, and the
Executor's `Dispatch`. `Plan(engine, ...)` is whatever function
`pipeline.decide` is bound to.

**AuditLog** is `write` on the shared connection. One thread's `write` is

| Action | Code |
|---|---|
| `Start` | the call, `rid`, `now` (lines 38-46) |
| `Execute` | `execute` looks at autocommit (47) |
| `Begin`, `Bind`, `Step`, `Misuse` | inside the library: BEGIN, parameter binding, the INSERT, and the errors two threads cause each other |
| `Commit`, `End`, `Done` | `commit` looks at autocommit, COMMIT, `return rid` (52-53) |

The library's steps are marked external in the map. They are CPython's
`_sqlite` module in its default transaction mode, seen from how `write` uses it:
the interpreter lock is given up around each call into SQLite; both calls of a
thread test autocommit before they act; all threads share one cached prepared
statement because they pass the same text. `table` is what the connection sees,
`disk` what is committed; `Crash` rolls the difference back. `submitted`,
`acked` and `contended` are history variables; they do not influence any guard
except that a record is written once.

**AuditQueries** adds the queries. They run on the same connection, so they look
at `table`, uncommitted rows included, and not at `disk`. A timestamp as text is
a short sequence of numbers in the order of the characters they stand for: the
part up to the seconds, the fraction if there is one, the zone.
`StoredText` is how pydantic writes it into the record (`Z` for UTC), `IsoText`
how `isoformat` writes the bounds (`+00:00`).

**AuditStore** is the promise `write` keeps to a caller in spite of all that: a
call that overlaps no other either dies with the process or returns with its
record stored; an overlapped call may return without its record. It is an
abstract specification implemented by `AuditLog` and used, as the audit store,
by `RecoveryPipeline`.

**RecoveryPipeline** is `run_pipeline` in several threads:

| Action | Code |
|---|---|
| `Receive` | `post_event` (api.py 30-33) |
| `Judge` | `diagnose`, `decide`, `authorize`, and `execute` up to its first transport call (pipeline.py 35-52, executor.py 23-61) |
| `SendRequest` | the POST (razorpay_client.py 40-76) |
| `AnswerCreated`, `AnswerWithoutId`, `AnswerFailed`, `BodyUnreadable` | how it can end (77-90) |
| `ReceiptConfirms`, `ReceiptDenies` | the notifier's GET (notifier 59-104) |
| `StartWrite`, `EndWrite` | `audit_log.write` and the return (pipeline.py 54-67) |
| `ProviderCreates`, `ProviderRefuses`, `LinkMoves` | Razorpay and the network (external) |
| `Persist`, `Crash` | the store's commits; the process dies and starts again |

A request under way is an element of `requests`. It stays there when its caller
times out and when the process dies, so a link may appear after the record that
calls the attempt failed. `BodyUnreadable` is `resp.json()` raising on a body
that is not JSON: neither client nor notifier nor pipeline catches it, and the
call ends without a record; like `AnswerWithoutId`, a 2xx whose JSON has no id,
it may come with a link or without. `engine` is fixed at start; `Customers` says
whether `execute` may be called with a `CustomerContact` ({FALSE} for the API,
which keeps the default `None`; both values for the live demo, where it depends
on what `execute` is bound to).

**GovernedRecovery** is the system without threads, provider or database:
contacts and trail. A contact needs policy's permission, which `Permitted`
states on its own and not by the gate's operators; there is one per run; and
contact and trail entry of a run never contradict one another, whichever comes
first.

**LiveDemo** extends RecoveryPipeline with one thread:

| Action | Code (live_demo_run.py) |
|---|---|
| `ValidateEnv` | the shell and the `.env` file, the two exits (70-106) |
| `BindExecute` | `pipeline.execute = _execute_with_customer` (166) |
| `EnterPipeline` | the event, the call of `run_pipeline` (137-167) |
| `RunPipeline` | a step of `run_pipeline`, which calls what `execute` is bound to: a request says notify if and only if that is the script's function, which passes the contact on (158-163) |
| `Finally` | `pipeline.execute` is put back, whether the call returned or raised (168-169) |
| `ReadBack` | the file is opened a second time (219-225) |
| `Kill`, `StartAgain` | the process ends anywhere; the script is run once more on the same file (external) |

Two demos within a second have the same case id.

**CaseLoop** is the life of one payment at `POST /events`. A run is one step
(`Post`) with the ends that matter to its caller, among them a failure that made
a link after all and a creation that made none; RecoveryPipeline shows that
these are the ends and that a run makes one link at most. The caller is external
and honest: it raises `retry_count` by one when the payment of a link has failed
again, and repeats the post when the response was lost. `links` counts what the
customer got, `blind` what the caller does not know of.

**GroundTruth** is the generator: `MayDraw` says which events some seed yields,
`Labels` how each may be labelled. **Ablation** is `main` of the runner over
`run_eval`:

| Action | Code |
|---|---|
| `Bind` | `_run_policy` up to `run_eval` (harness_runner.py 66-70) |
| `Score` | one turn of `run_eval`'s loop, the pipeline on the fake transport included (harness.py 88-151) |
| `Reject` | a record that its model rejects (88-90) |
| `EmptyBatch` | the division by the size of an empty batch (160) |
| `Interrupt` | control-C at any point, the `finally` included (external) |
| `Report` | the rates and the return (153-169) |
| `RestoreDecide`, `RestoreAuthorize` | the two assignments of `finally` (harness_runner.py 72, 73), then the next row or the end |
| `WriteFile` | the JSON file, once all four rows are there (117-126) |

Rates are kept as the counts they are quotients of.

Operators whose comment begins with "Mutant of" are deliberate faults of the
definition they name. They are used by no specification; each property has one
that it must notice, and `PROJECT.json` pairs them.

## 3. The runs

Sizes are TLC's distinct states.

| Run | Instance | Question | Result |
|---|---|---|---|
| `audit_log` | 3 threads, 3 records of which 2 share an id, clock 0..1 (117,650) | what holds of the shared connection and the queries, and is it an AuditStore | holds |
| `pipeline` | 2 threads, 2 runs, an event of each fate, 2 planners (661,248) | gate, links, records, and is it a GovernedRecovery | holds |
| `ablation` | 4,727 batches: none, one boundary or generated case, two, one malformed (332,081) | do the reports add up, the bindings come back, and the pure stages and labels fit together | holds |
| `live_demo` | 2 demos in one second, every environment, kills (30,086) | keys, receipts, what is shown, and that it ends | holds |
| `case_loop` | 12 payments, 3 planners, 3 days, 2 answers the caller misses (763,700) | how many links a payment brings, and is a denial for ever | holds |
| `audit_log_shared` | 2 threads | has a returned write stored its record | **no** |
| `audit_log_order` | 2 threads, clock 0..1 | does `get_all` list in insertion order | **no** |
| `date_range` | 1 thread | is an event stamped at the end of a range in it | **no** |
| `quiet_hours_utc` | an event at 12:00+10:00 | are quiet hours UTC hours | **no** |
| `quiet_hours_later` | second attempt at 23:00 | no contact at night | **no** |
| `notify_default` | no contact passed | instruction behind a receipt | **no** |
| `divergences` | the generator's ordinary cases | are the engine's divergences documented | **no** |

The properties of the passing runs:

- `NoStrandedTransaction`: the connection is in a transaction only while a
  write is open, though `write` never rolls back and a thread's COMMIT may fail.
- `LoneWriteIsKept`, `LoneRowsKeepOrder`: a write that returned and overlapped
  no other is on disk for ever, and such rows are listed in insertion order
  provided the clock does not go back.
- `GetIsUpToDate`: as the answer to such a write goes out, its id finds one row,
  and that row is the very record of the call; later a look-up that finds
  another finds one that was not answered before, so no restart and no
  parameters left bound bring an older record of the same id back.
- `RangesHoldTheirEvents`: between bounds that are whole seconds of UTC, a range
  has each event from its start to before its end, fractions of a second
  included, and none before its start or after its end. Of an event exactly at
  the end it says nothing: `get_by_date_range` promises it and leaves it out
  (`date_range`), since `Z` sorts after `+`.
- `StoredIdsStay`: no step, a crash included, takes an id off the disk.
- `RowsSettle`: again and again, everything inserted is committed or rolled
  back.
- `ImplementsStore`: `AuditLog` implements `AuditStore`.
- `ContactIsPermitted`: no link exists or is on its way where policy forbids it.
- `OneLinkPerRun`: the client never sends a run's POST twice.
- `RecordsTellTruth`: a run recorded as left alone has no link and gets none; a
  delivery receipt has a link behind it; only authorized retries are executed.
- `AnsweredRunIsOnRecord`: a caller that got its record and overlapped no other
  finds it in the trail after any restart.
- `ImplementsGoverned`: `RecoveryPipeline` implements `GovernedRecovery`.
- `BindingsComeBack`: between the rows and when `main` is over, engine and gate
  are the original ones, also after an exception or a control-C at any point of
  a row but one: a control-C that falls into the two assignments of the
  `finally` leaves behind what they have not put back (phase `abandoned`).
  `GatedRowsAreGoverned`: a row announced as gated executes only what policy
  permits, at every boundary of the gate's rules; the ungated row is the last of
  the four, so no gated one follows it.
- `CountsAddUp`, `AmountsAddUp`: the one-pass counters of each report equal
  their definitions as sets of cases, and its sums are sums over those sets.
- `GateIsTheDifference`: `always_retry` and `diagnosis_only` decide alike and
  differ in execution by what the gate refuses and by nothing else.
- `EngineErrorsAreExplained`: on generated cases the engine executes against the
  label only after three to nine failures, and leaves a case that should be
  retried only at night or under a promise that stood when the payment failed.
- `EngineAndGateAgree`: the engine proposes what the gate denies in two known
  cases only: an immediate retry at night, and the escalation of an exhausted
  case under a promise.
- `DeadCausesAreLeftAlone`: expired cards and unknown causes get no link under
  any planner, which the gate itself does not see to.
- `BackoffNeverReverses`: with more retries behind it, a case's favoured action
  never becomes more insistent.
- `AblationEnds`: the runner ends, with the file, an exception or a control-C.
- `DeliveredWasInstructed`, `OnlyTestKeysReachRazorpay`, `ShowsItsOwnRun`,
  `DemoEnds`: where a receipt says delivered, the request told Razorpay to
  notify, because the script's `execute` is bound while the request goes out
  (`DemoTypeOK` says when it is bound, and that it is put back); whatever
  shell and `.env` say together, no other than a test key is used; a demo that
  gets to its end shows its own record; it does get to an end.
- `ContactsAreLimited`: a payment brings ten links at most, and one more for
  each the caller was not told of. `DenialsAreTemporary`: a denied case is let
  through at noon of the day after its promise is due.

The violated ones are findings; each quotes the sentence the code departs from.
In short: two overlapping writes can lose one record while both callers get an
id (parameters are bound to a statement both share); the listings sort by a
time that was read before the insert; a range leaves out what happened at its
end; quiet hours are those of the event's own zone; `retry_later` is carried out
at once and passes at night; the API path reports `delivered` though no
notification was asked for; and the engine's immediate first retry of a bank
timeout, against the label, is in no entry of `docs/DECISIONS.md`.

Two more sentences of the repository do not hold in general, and the model shows
why without a run of their own. `docs/INTERFACES.md` says that a written record
is never altered: REPLACE lets the second of two records with one id take the
first one's place (`Upsert`). And the live demo tells its user "no payment link
was created" where the request may have been carried out after a timeout
(`AnswerFailed` followed by `ProviderCreates`).

**Bounds and why they are enough.** Three threads on the connection are one that
fails, one that began the transaction it depends on and one that ends it; two
records with one id and one of another case cover ids that meet and ids that
share a part. One clock tick separates two writes. `MCTimeOf` and `MCBounds`
hold times of UTC at a bound and within a second of it, with and without a
fraction. In `pipeline`, two runs suffice for every property that relates two
runs' requests, links or records, and `MCFates` holds an event for each path
through `Judge`; a thread may serve both runs in turn, or two threads one each.
In `ablation` the events of `MCBoundaries` are all combinations of the values
next to each constant the code compares with: amounts 0, below a paisa, negative
and around Rs. 25,000; hours around 7 and 22; retry counts around 0, 2 and 10;
promises absent, lapsed, due today, due tomorrow, with and without the flag;
`MCDrawn` adds generated cases of every kind. Cases of a batch only meet in the
sums, so two in a batch are enough, and `MCMixed` puts them into different
cells. In `live_demo` two runs are one demo and one after it. In `case_loop` the
counts run up to the budget of ten and beyond by the two answers of `MaxBlind`,
and the three days are before, at and after the promise. The bounds in guards
are `MaxClock` and `MaxBlind`. Deadlock is checked in the audit and pipeline
runs, where `Crash` is always enabled; the scripts and the settled payment of
the other runs do stop, and they say `CHECK_DEADLOCK FALSE`.

**Fairness.** `AuditLog!FairSpec` lets each thread that is inside `write` go on;
the code's calls do not wait for one another except on SQLite's own mutex, held
for one step. Starting a write, the clock and crashes are not fair.
`LiveDemo!FairDemoSpec` lets the script go on by the steps that need no answer
of Razorpay's (`Unanswered`), which is justified by the HTTP clients' timeouts
(`AnswerFailed` and `ReceiptDenies` are always possible while waiting), and lets
a write that is open reach the disk, which `RowsSettle` and the refinement show
of the real one. The provider is not fair: it may stay silent for ever.
`Ablation!FairSpec` is a single-threaded script that calls nothing that waits.
CaseLoop has no fairness: nothing makes a caller come again.

## 4. What is proved

With TLAPS, for every value of the constants, from the assumptions
`EventsAssumption`, `EnginesAssumption`, `RunsAssumption` and
`CustomersAssumption` of RecoveryPipeline, `DemoAssumption` of LiveDemo,
`PaymentsAssumption`, `EnginesAssumption` and `BoundsAssumption` of CaseLoop,
`TimesAssumption` of AuditQueries (that times and bounds are times) and
`BatchesAssumption` of Ablation. AuditLog needs none. Every invariant, every
action property and both refinements of the passing runs are among the
theorems:

| Module | Theorem | States |
|---|---|---|
| `AuditLogProofs` | `TypeCorrect` | `Spec => []TypeOK` |
|  | `TransactionsEnd` | `Spec => []NoStrandedTransaction` |
|  | `TrailGrows` | `Spec => StoredIdsStay` |
|  | `LoneWritesAreKept` | `Spec => []LoneWriteIsKept` |
|  | `WritesAsPromised` | `Spec => ImplementsStore` |
| `AuditQueriesProofs` | `LookupsStayUpToDate` | `Spec => GetIsUpToDate` |
|  | `LoneRowsStayInOrder` | `Spec => []LoneRowsKeepOrder` |
|  | `RangesAreRight` | `Spec => []RangesHoldTheirEvents` |
| `RecoveryPipelineProofs` | `TypeCorrect` | `Spec => []TypeOK` |
|  | `GateIsNeverBypassed` | `Spec => []ContactIsPermitted` |
|  | `RunsSendOnce` | `Spec => []OneLinkPerRun` |
| `RecoveryRecordProofs` | `AnsweredRunsStayOnRecord` | `Spec => []AnsweredRunIsOnRecord` |
|  | `RecordsStayTrue` | `Spec => []RecordsTellTruth` |
|  | `PipelineIsGoverned` | `Spec => ImplementsGoverned` |
| `LiveDemoProofs` | `DemoRunsThePipeline` | `DemoSpec => Spec` |
|  | `DemoTypeCorrect` | `DemoSpec => []DemoTypeOK` |
|  | `LiveKeysAreTurnedAway` | `DemoSpec => []OnlyTestKeysReachRazorpay` |
|  | `DemoShowsItsRun` | `DemoSpec => []ShowsItsOwnRun` |
|  | `DeliveriesWereInstructed` | `DemoSpec => []DeliveredWasInstructed` |
| `CaseLoopProofs` | `CallerTypeCorrect` | `Spec => []TypeOK` |
|  | `ContactsOfACaseAreLimited` | `Spec => []ContactsAreLimited` |
|  | `NoCaseIsTurnedAwayForEver` | `Spec => []DenialsAreTemporary` |
| `AblationProofs` | `TypeCorrect` | `Spec => []TypeOK` |
|  | `BindingsAlwaysComeBack` | `Spec => []BindingsComeBack` |
|  | `GatedRowsStayGoverned` | `Spec => []GatedRowsAreGoverned` |
|  | `CountsAlwaysAddUp` | `Spec => []CountsAddUp` |
|  | `AmountsAlwaysAddUp` | `Spec => []AmountsAddUp` |
|  | `OnlyTheGateDiffers` | `Spec => []GateIsTheDifference` |
|  | `EngineAndGateAlwaysAgree` | `Spec => []EngineAndGateAgree` |
|  | `EngineErrorsStayExplained` | `Spec => []EngineErrorsAreExplained` |
|  | `DeadCausesStayAlone` | `Spec => []DeadCausesAreLeftAlone` |
|  | `BackoffIsKept` | `Spec => []BackoffNeverReverses` |

*The audit log.* `NoStrandedTransaction` is not inductive: that a transaction
is open says nothing of who will close it. `TxnIsHeld` does: while it is open,
some thread is between BEGIN and COMMIT, at a stage from which it will run
COMMIT or fail because another did. The delicate case is a thread that fails
in `Misuse`; it fails only because another is at the INSERT, and that one still
has its COMMIT ahead. `DiskIsBehind` (every committed id is in the table, since
REPLACE adds an id and removes none) makes COMMIT and rollback keep ids.
`LoneCall` then follows a call that has met no other through its stages: it
finds no transaction open, its own parameters are bound when the statement
runs, its id is in the table when COMMIT runs and on disk when it returns.

*The store's promise.* `ImplementsStore` relates the library's small steps to
the three steps of AuditStore. Most of them are unseen by it; `Commit`, `Close`
and the failures are not, and what they may do to the trail depends on whose
rows they carry. `StoreInv` says so: rows on the connection, bound or stored
are of records that were handed in (`HandedIn`), an id has one row in the table
and on disk (`OneRowPerId`), and the record of an open call that met no other is
where its stage says (`LoneRecordIsThere`).

*The queries.* For `LoneRowsKeepOrder`, what is inductive is that a lone call is
the last one by its time as by its place (`LoneCallIsLast`), and that no
statement about to run inserts a lone row for a second time
(`NoLoneRowIsBound`): it has been bound to the row of a call that was not over.
`GetIsUpToDate` needs to know what a restart and a statement that is still bound
may put in an answered record's place: outside of a transaction the table is the
disk (`Settled`), answered lone rows are on disk (`LoneRowsAreOnDisk`), and the
one record that is bound, if its INSERT has run already, is in the table, so
that inserting it again changes nothing (`BoundIsThere`).
`RangesHoldTheirEvents` is about two texts: `FirstDifference` shows that
comparing texts is comparing at their first difference, `BoundText` and
`PaymentText` where that is (within the seconds, or at the mark behind them),
and `TextIsInRange` that both comparisons of a bound go the same way.

*The gate.* `ContactIsPermitted` speaks of links and requests; what a step
needs to know is `PostIsGated`, that a thread about to send has an authorized
retry. `GatePermits` shows that the gate's five rules imply `Permitted`, for
every event and every candidate; `PlanType` and `DiagnoseType` that whatever
planner is plugged in hands the gate a candidate. Requests become links
(`ProviderCreates`) and links move (`LinkMoves`) without touching event or
action, and the planner does not change under a running process.

*One link per run.* `RunInv` adds what a thread before its POST relies on: its
run has sent nothing (`NothingSentYet`), and no other thread serves it
(`RunsAreApart`). Steps fall into four kinds (`StepKinds`): an event is
received, a request is sent, something at the provider changes its shape while
keeping its run (`ProviderStep`), or nothing that was sent is touched.

*Records.* `AnsweredRunIsOnRecord` is lost if a stored record can be replaced
by another one, so `RecordInv` adds to `RunInv` that a run submits one record
(`SubmittedOnce`), that a thread which has yet to record its run finds none
submitted (`Unrecorded`), and that nothing is stored or returned that was not
submitted (`StoredWasSubmitted`). `TruthInv` then carries the verdict
(`ThreadsAreGated`) from `Judge`, and the result (`ResultsTellTruth`) from the
answer, to the write that records them. What keeps a record true once it is
there: only a run's own POST adds to what it has sent (`SentSteps`), and a link
never vanishes (`LinksStay`).

*The pipeline's promise.* Two steps of the pipeline are seen by
GovernedRecovery: a link comes into being (`ProviderCreates`) and a record
reaches the disk (`Persist`); all others leave contacts and trail alone
(`OthersUnseen`). A contact may find the run's record in the trail already, for
the request of an attempt that was recorded as failed may still be carried out.
`GovernedInv` adds to `TruthInv` what both steps need: whatever a run has sent
is for the event and the action of its job (`JobsAgree`) and of its record
(`RecordsAgree`).

*The live demo.* `DemoSteps` shows that each step of the script is one of the
pipeline's or none, so that all theorems of the pipeline hold of it. `Binding`
says at which steps `execute` is the script's function; the pipeline runs at one
of them, so every request says notify (`NextNotified`), and
`DeliveredWasInstructed` follows with `RecordsTellTruth`. `ShownInv` follows the
run's record from `EndWrite` to the second opening of the file: the only thread
writes alone (`contended = {}`), so the store keeps what it was handed.

*A payment.* `Counted` balances what the customer got against what the caller
knows: `links <= retry_count + blind + Pending`, where `Pending` is the link
that is not followed up yet, and `retry_count + Pending` stays within the budget
because a run makes a link only below it (`LinksAreWithinBudget`). For
`DenialsAreTemporary`, `NothingStandsAtNoon` shows that every rule but the
promise and those no time can change is silent at noon, for each planner.

*The ablation.* `RowIsBound` says which engine and gate are bound in the row at
hand, by its number, and that the engine is back at the second assignment of the
`finally`; outside a row both are the originals. `RowInv` needs it to say of
each result of a gated row that it was passed by the original `authorize`, and
`GateRefuses` does the rest. `ScanInv` says what the one-pass scan has done so
far: each result, at hand or reported, is what the row's policy and gate make of
its own case (`FromRow`), and the counts are the cardinalities of the sets of
positions they are named after, up to where the scan is (`CountsOf`, kept by
`CountStep`). So the properties of reports come down to lemmas about one event.
For these, `EngineIsPreferred` says which action `decide` puts first, without
the list and its sort; the rest are case distinctions over codes, retries, hours
and promises (`DenialsOfTheEngine`, `ContactsHeedTheCode`,
`GateDecidesTheDifference`, `RetriesOnlyAddUp`, `ErrorsOfTheEngine`).

*The amounts.* `MapThenSumSet` is defined by recursion on the set, so that its
properties take an induction. The library's induction theorems have an operator
as a parameter, but `WFMin` does not: applied to the proper-subset order, which
`FS_StrictSubsetOrderingWellFounded` provides for finite sets, it yields that of
subsets which violate a statement one has no smaller violator
(`SmallestOffender`). With it `SumExists` shows that the recursion has a
solution, `SumsAgree` that there is one only, and `SumTakesAny` that the order
in which elements are taken does not matter. `TotalGrows` is the step from one
position to the next that `Sums`, the invariant of the amounts, needs.

Only model-checked are the liveness properties `RowsSettle`, `DemoEnds` and
`AblationEnds`: fairness is stated with ENABLED, which the prover cannot
reason about. That the violated properties are violated is shown by TLC's
counterexamples. The proofs take CPython's sqlite3 and the provider to be as the
external actions have them.

## 5. What is not modelled

- Disk-full and I/O errors of SQLite; one database file opened by two processes
  (two servers, or two live demos at the same moment); a clock that goes back.
- A torn row: `Bind` sets all four parameters of the INSERT at once. The library
  binds them one by one, and another thread could run the shared statement in
  between, with the id of one call and the record of another.
- `BodyUnreadable` covers every exception that escapes the two HTTP calls; what
  the server answers to its caller then is not modelled.
- Range bounds in other zones than UTC or with fractions of a second: bounds are
  whole seconds of UTC, which is what `RangesHoldTheirEvents` is about, and a
  stamp in another zone is compared as the code does it but has no property.
- Currency: `run_eval` adds amounts of different currencies, and the model has
  no currency. Amounts below a paisa and negative ones are in the instances, but
  no property is about what Razorpay makes of them.
- The fake transport's call lists and generated ids, the generator's names, its
  seed and the distribution it draws from: `MayDraw` says which events are
  possible, not how often.
- Liveness of `run_pipeline` with several threads; `DemoEnds` has one, and the
  step at which threads meet is the write, of which `RowsSettle` speaks.
- The dashboard, printing, and request validation by FastAPI and pydantic:
  presentation, or done by libraries before the code runs.

## 6. What is left

1. The two steps the model takes at once and another module takes apart: that a
   `Post` of CaseLoop ends as some run of RecoveryPipeline may end, and that the
   store of LiveDemo is one AuditLog implements, as theorems and not as prose.
2. That every run ends, with two threads, on an instance of fewer events.
3. Two connections on one database file: SQLite's own lock, and a `write` that
   fails because it is held.
