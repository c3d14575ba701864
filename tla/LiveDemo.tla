------------------------------ MODULE LiveDemo ------------------------------
(***************************************************************************)
(* scripts/live_demo_run.py: a single-threaded script that checks its      *)
(* environment, sends one event of its own making through run_pipeline     *)
(* with a customer contact, and shows the record from the file, which it   *)
(* opens a second time.  It may be killed and started again; the file and  *)
(* what Razorpay has remain.                                               *)
(***************************************************************************)
EXTENDS RecoveryPipeline

VARIABLES
    step,                 \* where the script is
    environ,              \* its environment variables, .env loaded
    execute,              \* what pipeline.execute is bound to
    shown                 \* the records it printed

demoVars == <<step, environ, execute, shown>>

Main == CHOOSE w \in Workers : TRUE

\* One retryable payment of Rs. 3,499.00, stamped with noon of the day; its
\* case id is the second it was built in
BuildDemoEvent(case) ==
    [ case_id        |-> case,
      amount         |-> 3499 * 1000,
      failure_code   |-> "insufficient_funds",
      day            |-> 0,
      hour           |-> 12,
      offset         |-> 0,
      retry_count    |-> 0,
      has_active_ptp |-> FALSE,
      ptp_date       |-> {} ]

ASSUME DemoAssumption == /\ Workers = {Main}
                         /\ Events = {BuildDemoEvent(c) : c \in Cases}
                         /\ Customers = BOOLEAN

Names == {"RAZORPAY_KEY_ID", "RAZORPAY_KEY_SECRET", "LIVE_DEMO_EMAIL"}

\* A variable is unset, or it is empty, or what it stands for
Values(name) ==
    {{}, {""}} \union IF name = "RAZORPAY_KEY_ID" THEN {{"rzp_test_"}, {"rzp_live_"}}
                                                  ELSE {{"given"}}

Environ == {e \in [Names -> UNION {Values(n) : n \in Names}] :
              \A n \in Names : e[n] \in Values(n)}

NoEnviron == [n \in Names |-> {}]

\* setdefault: the shell has precedence over .env, also with an empty value
LoadDotenv(shell, file) ==
    [n \in Names |-> IF shell[n] # {} THEN shell[n] ELSE file[n]]

Over == {"exit 2", "exit 3", "raised", "killed", "shown"}

\* Between binding and finally, and only there, pipeline.execute is the script's
DemoTypeOK ==
    /\ TypeOK
    /\ step \in {"start", "ready", "bound", "run", "returned", "failed", "read back"}
                 \union Over
    /\ environ \in Environ
    /\ execute = IF step \in {"bound", "run", "returned", "failed"}
                   THEN "with_customer" ELSE "execute"
    /\ shown \subseteq AuditRecord

DemoInit ==
    /\ Init
    /\ step = "start"
    /\ environ = NoEnviron
    /\ execute = "execute"
    /\ shown = {}

\* Mutant of ExitCode: the prefix is looked for in the file, not in what holds
ExitCodeOfFile(env, file) ==
    IF \E n \in Names : env[n] \in {{}, {""}} THEN 2
    ELSE IF file["RAZORPAY_KEY_ID"] = {"rzp_live_"} THEN 3
    ELSE 0

ExitCode(env, file) ==
    IF \E n \in Names : env[n] \in {{}, {""}} THEN 2
    ELSE IF env["RAZORPAY_KEY_ID"] # {"rzp_test_"} THEN 3
    ELSE 0

\* An exit leaves nothing of the process
ValidateEnv ==
    /\ step = "start"
    /\ \E shell, file \in Environ :
          LET env  == LoadDotenv(shell, file)
              code == ExitCode(env, file)
          IN  \/ code = 0 /\ step' = "ready" /\ environ' = env
              \/ code = 2 /\ step' = "exit 2" /\ UNCHANGED environ
              \/ code = 3 /\ step' = "exit 3" /\ UNCHANGED environ
    /\ UNCHANGED <<vars, execute, shown>>

\* Mutant of BindExecute: it rebinds the executor's own name, which pipeline
\* has imported long before
BindElsewhere ==
    /\ step = "ready"
    /\ step' = "bound"
    /\ UNCHANGED <<vars, environ, execute, shown>>

\* The clients take the key from the environment; pipeline.execute is rebound
BindExecute ==
    /\ step = "ready"
    /\ step' = "bound"
    /\ execute' = "with_customer"
    /\ UNCHANGED <<vars, environ, shown>>

EnterPipeline ==
    /\ step = "bound"
    /\ step' = "run"
    /\ Receive(Main)
    /\ UNCHANGED <<environ, execute, shown>>

\* A step of run_pipeline, until it returns or raises.  It calls what execute
\* is bound to, and only _execute_with_customer passes the contact on
RunPipeline ==
    /\ step = "run"
    /\ Work(Main)
    /\ \A q \in requests' \ requests : q.notify <=> execute = "with_customer"
    /\ step' = IF pc'[Main] # "idle" THEN "run"
               ELSE IF acked' # acked THEN "returned" ELSE "failed"
    /\ UNCHANGED <<environ, execute, shown>>

\* Mutant of Finally: what the pipeline was given is not taken back
FinallyNothing ==
    /\ \/ step = "returned" /\ step' = "read back"
       \/ step = "failed"   /\ step' = "raised"
    /\ UNCHANGED <<vars, environ, execute, shown>>

Finally ==
    /\ \/ step = "returned" /\ step' = "read back"
       \/ step = "failed"   /\ step' = "raised"
    /\ execute' = "execute"
    /\ UNCHANGED <<vars, environ, shown>>

ReadBack ==
    /\ step = "read back"
    /\ shown' = {t \in trail : t.event.case_id = job[Main].event.case_id}
    /\ step' = "shown"
    /\ UNCHANGED <<vars, environ, execute>>

Commit == step = "run" /\ Persist /\ UNCHANGED demoVars

Provider == (ProviderCreates \/ ProviderRefuses \/ LinkMoves) /\ UNCHANGED demoVars

Kill ==
    /\ step \notin Over
    /\ Crash
    /\ step' = "killed"
    /\ environ' = NoEnviron
    /\ execute' = "execute"
    /\ UNCHANGED shown

StartAgain ==
    /\ step \in Over /\ used # Runs
    /\ step' = "start"
    /\ environ' = NoEnviron
    /\ execute' = "execute"
    /\ shown' = {}
    /\ UNCHANGED vars

DemoNext == \/ ValidateEnv \/ BindExecute \/ EnterPipeline \/ RunPipeline
            \/ Finally \/ ReadBack
            \/ Commit \/ Provider \/ Kill \/ StartAgain

allVars == <<vars, demoVars>>

DemoSpec == DemoInit /\ [][DemoNext]_allVars

\* The steps of run_pipeline that need no answer of Razorpay's: both requests
\* may also end in a timeout
Unanswered == \/ Judge(Main) \/ SendRequest(Main) \/ AnswerFailed(Main)
              \/ ReceiptDenies(Main) \/ StartWrite(Main) \/ EndWrite(Main)

\* The script goes on by itself: its requests time out and its write commits
FairDemoSpec ==
    /\ DemoSpec
    /\ WF_allVars(\/ ValidateEnv \/ BindExecute \/ EnterPipeline
                  \/ RunPipeline /\ Unanswered
                  \/ Finally \/ ReadBack)
    /\ WF_allVars(Commit /\ writing[Main] # {} /\ writing[Main] \subseteq trail')

(***************************************************************************)
(* Properties                                                              *)
(***************************************************************************)

(***************************************************************************)
(* "This script must never run against live/production keys": whatever     *)
(* shell and .env say together, Razorpay is asked with a test key only.    *)
(***************************************************************************)
OnlyTestKeysReachRazorpay ==
    pc[Main] \in {"post", "await", "receipt"} =>
        environ["RAZORPAY_KEY_ID"] = {"rzp_test_"}

(***************************************************************************)
(* A demo that gets to its end shows the record of its own run, with what  *)
(* became of the link, and not only those of demos before it.              *)
(***************************************************************************)
ShowsItsOwnRun ==
    step = "shown" =>
        \E t \in shown : t.run = job[Main].run /\ t.executed = result[Main].executed

(***************************************************************************)
(* The demo comes to an end, its call of run_pipeline with it, whatever    *)
(* Razorpay answers or does not answer and while its audit write waits.    *)
(***************************************************************************)
DemoEnds == step \notin Over ~> step \in Over
=============================================================================
