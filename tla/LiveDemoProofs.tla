--------------------------- MODULE LiveDemoProofs ---------------------------
(***************************************************************************)
(* Proofs about LiveDemo, for any number of demos and of cases.            *)
(***************************************************************************)
EXTENDS LiveDemo, RecoveryRecordProofs

-----------------------------------------------------------------------------
LEMMA MainIsTheWorker == Main \in Workers /\ \A w \in Workers : w = Main
BY DemoAssumption

\* A step of the script is one of the pipeline, or none
LEMMA DemoSteps == [DemoNext]_allVars => [Next]_vars
<1> SUFFICES ASSUME DemoNext \/ UNCHANGED allVars PROVE Next \/ UNCHANGED vars
  OBVIOUS
<1>1. CASE EnterPipeline \/ RunPipeline
  BY <1>1, MainIsTheWorker DEF EnterPipeline, RunPipeline, Next
<1>2. CASE Commit \/ Provider \/ Kill
  BY <1>2 DEF Commit, Provider, Kill, Next
<1>3. CASE ValidateEnv \/ BindExecute \/ Finally \/ ReadBack \/ StartAgain \/ UNCHANGED allVars
  BY <1>3 DEF ValidateEnv, BindExecute, Finally, ReadBack, StartAgain, allVars
<1>4. QED
  BY <1>1, <1>2, <1>3 DEF DemoNext

(***************************************************************************)
(* The demo is a run of the pipeline, so that what is proved of the        *)
(* pipeline, its promise of GovernedRecovery included, holds of the demo.  *)
(***************************************************************************)
THEOREM DemoRunsThePipeline == DemoSpec => Spec
<1>1. DemoInit => Init
  BY DEF DemoInit
<1>2. QED
  BY <1>1, DemoSteps, PTL DEF DemoSpec, Spec

-----------------------------------------------------------------------------
(***************************************************************************)
(* Type correctness.  What the script loads is an environment.             *)
(***************************************************************************)
LEMMA DotenvType ==
    ASSUME NEW shell \in Environ, NEW file \in Environ
    PROVE  LoadDotenv(shell, file) \in Environ
<1> DEFINE all == UNION {Values(n) : n \in Names}
<1>1. shell \in [Names -> all] /\ file \in [Names -> all]
  BY DEF Environ
<1> HIDE DEF all
<1>2. LoadDotenv(shell, file) \in [Names -> all]
  BY <1>1 DEF LoadDotenv
<1>3. \A n \in Names : LoadDotenv(shell, file)[n] \in Values(n)
  BY DEF LoadDotenv, Environ
<1>4. QED
  BY <1>2, <1>3 DEF Environ, all

LEMMA NoEnvironType == NoEnviron \in Environ
<1>1. \A n \in Names : {} \in Values(n)
  BY DEF Values
<1>2. QED
  BY <1>1 DEF NoEnviron, Environ

\* Whoever is in the pipeline finds the script's execute there, and nobody after
Binding ==
    /\ step \in {"start", "ready", "bound", "run", "returned", "failed", "read back"}
                 \union Over
    /\ execute = IF step \in {"bound", "run", "returned", "failed"}
                   THEN "with_customer" ELSE "execute"

LEMMA NextBinding == Binding /\ [DemoNext]_allVars => Binding'
<1> SUFFICES ASSUME Binding, [DemoNext]_allVars PROVE Binding'
  OBVIOUS
<1> USE DEF Binding, Over
<1>1. CASE ValidateEnv \/ BindExecute \/ EnterPipeline
  BY <1>1 DEF ValidateEnv, BindExecute, EnterPipeline
<1>2. CASE RunPipeline
  BY <1>2 DEF RunPipeline
<1>3. CASE Finally \/ ReadBack \/ Kill \/ StartAgain
  BY <1>3 DEF Finally, ReadBack, Kill, StartAgain
<1>4. CASE Commit \/ Provider \/ UNCHANGED allVars
  BY <1>4 DEF Commit, Provider, allVars, demoVars
<1>5. QED
  BY <1>1, <1>2, <1>3, <1>4 DEF DemoNext

LEMMA NextDemoType == DemoTypeOK /\ [DemoNext]_allVars => DemoTypeOK'
<1> SUFFICES ASSUME DemoTypeOK, [DemoNext]_allVars PROVE DemoTypeOK'
  OBVIOUS
<1>1. TypeOK'
  BY NextTypeOK, DemoSteps DEF DemoTypeOK
<1>2. environ' \in Environ
  BY DotenvType, NoEnvironType
     DEF DemoTypeOK, DemoNext, ValidateEnv, BindExecute, EnterPipeline, RunPipeline,
         Finally, ReadBack, Commit, Provider, Kill, StartAgain, demoVars, allVars
<1>3. shown' \subseteq AuditRecord
  BY DEF DemoTypeOK, TypeOK, DemoNext, ValidateEnv, BindExecute, EnterPipeline,
         RunPipeline, Finally, ReadBack, Commit, Provider, Kill, StartAgain, demoVars, allVars
<1>4. Binding'
  BY NextBinding DEF DemoTypeOK, Binding
<1>5. QED
  BY <1>1, <1>2, <1>3, <1>4 DEF DemoTypeOK, Binding

(***************************************************************************)
(* LiveDemo is type correct.                                               *)
(***************************************************************************)
THEOREM DemoTypeCorrect == DemoSpec => []DemoTypeOK
<1>1. DemoInit => DemoTypeOK
  BY InitTypeOK, NoEnvironType DEF DemoInit, DemoTypeOK
<1>2. QED
  BY <1>1, NextDemoType, PTL DEF DemoSpec

-----------------------------------------------------------------------------
(***************************************************************************)
(* Live keys are turned away.  From the check of the environment to the    *)
(* requests nothing changes it, and no request is sent but by a script     *)
(* that has passed the check since it was started.                         *)
(***************************************************************************)
KeyInv ==
    /\ pc[Main] # "idle" => step = "run"
    /\ step \in {"ready", "bound", "run"} => environ["RAZORPAY_KEY_ID"] = {"rzp_test_"}

\* The environment that passes has a test key
LEMMA CheckedKey ==
    ASSUME NEW env, NEW file, ExitCode(env, file) = 0
    PROVE  env["RAZORPAY_KEY_ID"] = {"rzp_test_"}
<1> DEFINE missing == \E n \in Names : env[n] \in {{}, {""}}
<1>1. ExitCode(env, file) = IF missing THEN 2
                            ELSE IF env["RAZORPAY_KEY_ID"] # {"rzp_test_"} THEN 3
                            ELSE 0
  BY DEF ExitCode
<1> HIDE DEF missing
<1>2. QED
  BY <1>1

LEMMA NextKey == TypeOK /\ KeyInv /\ [DemoNext]_allVars => KeyInv'
<1> SUFFICES ASSUME TypeOK, KeyInv, [DemoNext]_allVars PROVE KeyInv'
  OBVIOUS
<1> USE DEF KeyInv
<1>1. CASE ValidateEnv
  BY <1>1, CheckedKey DEF ValidateEnv, vars
<1>2. CASE EnterPipeline
  BY <1>2 DEF EnterPipeline
<1>3. CASE RunPipeline
  BY <1>3 DEF RunPipeline
<1>4. CASE Commit \/ Provider
  BY <1>4 DEF Commit, Provider, Persist, ProviderCreates, ProviderRefuses, LinkMoves, demoVars
<1>5. CASE Kill
  BY <1>5, MainIsTheWorker DEF Kill, Crash
<1>6. CASE BindExecute \/ Finally
  BY <1>6 DEF BindExecute, Finally, vars
<1>7. CASE ReadBack \/ StartAgain \/ UNCHANGED allVars
  BY <1>7 DEF ReadBack, StartAgain, allVars, demoVars, vars, Over
<1>8. QED
  BY <1>1, <1>2, <1>3, <1>4, <1>5, <1>6, <1>7 DEF DemoNext

(***************************************************************************)
(* Whatever shell and .env say together, and however often the script is   *)
(* killed and started with other ones, only a test key reaches Razorpay.   *)
(***************************************************************************)
THEOREM LiveKeysAreTurnedAway == DemoSpec => []OnlyTestKeysReachRazorpay
<1>1. DemoInit => TypeOK /\ KeyInv
  BY InitTypeOK, MainIsTheWorker DEF DemoInit, Init, KeyInv
<1>2. TypeOK /\ [DemoNext]_allVars => TypeOK'
  BY NextTypeOK, DemoSteps
<1>3. KeyInv => OnlyTestKeysReachRazorpay
  BY DEF KeyInv, OnlyTestKeysReachRazorpay
<1>4. QED
  BY <1>1, <1>2, <1>3, NextKey, PTL DEF DemoSpec

-----------------------------------------------------------------------------
(***************************************************************************)
(* The demo shows its own run.  There is one thread, so that its audit     *)
(* write meets no other and returns with the record stored; the record is  *)
(* made of the job and the result that the thread still has when it reads  *)
(* the file back.                                                          *)
(***************************************************************************)
OwnRecord(t) == /\ t.run = job[Main].run
                /\ t.event = job[Main].event
                /\ t.executed = result[Main].executed

ShownInv ==
    /\ contended = {}
    /\ writing[Main] # {} => pc[Main] = "write"
    /\ \A t \in writing[Main] : OwnRecord(t)
    /\ step \in {"returned", "read back"} => \E t \in trail : OwnRecord(t)
    /\ ShowsItsOwnRun

DemoInv == /\ DemoTypeOK
           /\ KeyInv
           /\ ShownInv

LEMMA InitDemo == DemoInit => DemoInv
BY InitTypeOK, NoEnvironType, MainIsTheWorker
   DEF DemoInit, DemoInv, DemoTypeOK, Init, KeyInv, ShownInv, ShowsItsOwnRun, Store!Init

\* A step of run_pipeline other than those of its audit write
LEMMA EarlyWork ==
    ASSUME TypeOK, ShownInv, Work(Main), ~StartWrite(Main), ~EndWrite(Main)
    PROVE  UNCHANGED <<job, store>> /\ writing[Main] = {}
<1>1. UNCHANGED <<job, store>> /\ pc[Main] # "write"
  BY DEF Work, Judge, SendRequest, AnswerCreated, AnswerWithoutId, AnswerFailed,
         ReceiptConfirms, ReceiptDenies, BodyUnreadable, Move
<1>2. QED
  BY <1>1 DEF ShownInv

LEMMA NextShown == DemoInv /\ [DemoNext]_allVars => ShownInv'
<1> SUFFICES ASSUME DemoInv, [DemoNext]_allVars PROVE ShownInv'
  OBVIOUS
<1>t. TypeOK /\ ShownInv /\ KeyInv /\ Main \in Workers
  BY MainIsTheWorker DEF DemoInv, DemoTypeOK
<1> USE DEF ShownInv, OwnRecord, ShowsItsOwnRun
<1>1. CASE EnterPipeline
  <2>1. /\ pc[Main] = "idle" /\ step' = "run" /\ UNCHANGED <<contended, writing>>
    BY <1>1 DEF EnterPipeline, Receive, Move, store
  <2>2. writing'[Main] = {}
    BY <1>t, <2>1
  <2>3. QED
    BY <1>t, <2>1, <2>2
<1>2. CASE RunPipeline
  <2>r. step = "run" /\ Work(Main)
    BY <1>2 DEF RunPipeline
  <2>1. CASE ~StartWrite(Main) /\ ~EndWrite(Main)
    <3>1. UNCHANGED <<job, store>> /\ writing[Main] = {}
      BY <1>t, <2>r, <2>1, EarlyWork
    <3>2. step' \notin {"returned", "read back", "shown"}
      BY <1>2, <3>1 DEF RunPipeline, store
    <3>3. QED
      BY <1>t, <3>1, <3>2 DEF store
  <2>2. CASE StartWrite(Main)
    <3>1. /\ Store!Start(Main, RecordOf(Main)) /\ UNCHANGED <<job, result>>
          /\ pc'[Main] = "write" /\ step' = "run"
      BY <1>t, <1>2, <2>r, <2>2 DEF StartWrite, Move, RunPipeline, TypeOK
    <3>2. writing'[Main] = {RecordOf(Main)}
      BY <1>t, <3>1 DEF Store!Start, TypeOK
    <3>3. contended' = {}
      BY <1>t, <3>1, MainIsTheWorker DEF Store!Start, Store!Open
    <3>4. OwnRecord(RecordOf(Main))
      BY DEF RecordOf
    <3>5. QED
      BY <3>1, <3>2, <3>3, <3>4
  <2>3. CASE EndWrite(Main)
    <3>1. CASE Store!Return(Main)
      <4>1. PICK r \in writing[Main] : r \in trail
        BY <1>t, <3>1 DEF Store!Return
      <4>2. /\ UNCHANGED <<job, result, trail>> /\ contended' = {}
            /\ writing'[Main] = {}
        BY <1>t, <2>3, <3>1 DEF EndWrite, Store!Return, Store!Close, TypeOK
      <4>3. step' # "shown"
        BY <1>2 DEF RunPipeline
      <4>4. QED
        BY <1>t, <4>1, <4>2, <4>3
    <3>2. ~Store!Raise(Main)
      BY <1>t DEF Store!Raise
    <3>3. QED
      BY <2>3, <3>1, <3>2 DEF EndWrite
  <2>4. QED
    BY <2>1, <2>2, <2>3
<1>3. CASE ReadBack
  <2>1. UNCHANGED vars /\ step = "read back"
        /\ shown' = {t \in trail : t.event.case_id = job[Main].event.case_id}
    BY <1>3 DEF ReadBack
  <2>2. PICK t \in trail : OwnRecord(t)
    BY <1>t, <2>1
  <2>3. t \in shown'
    BY <2>1, <2>2
  <2>4. UNCHANGED <<pc, job, result, writing, contended, trail>>
    BY <2>1 DEF vars, store
  <2>5. QED
    BY <1>t, <1>3, <2>2, <2>3, <2>4 DEF ReadBack
<1>4. CASE Commit
  BY <1>t, <1>4 DEF Commit, Persist, Store!Persist, demoVars
<1>5. CASE Provider
  BY <1>t, <1>5 DEF Provider, ProviderCreates, ProviderRefuses, LinkMoves, store, demoVars
<1>6. CASE Kill
  BY <1>t, <1>6 DEF Kill, Crash, Store!Crash
<1>7. CASE ValidateEnv \/ BindExecute \/ Finally \/ StartAgain \/ UNCHANGED allVars
  BY <1>t, <1>7 DEF ValidateEnv, BindExecute, Finally, StartAgain, allVars, demoVars,
                    vars, store
<1>8. QED
  BY <1>1, <1>2, <1>3, <1>4, <1>5, <1>6, <1>7 DEF DemoNext

(***************************************************************************)
(* A demo that gets to its end shows the record of its own run, also when  *)
(* the file holds records of the same case from demos before it.           *)
(***************************************************************************)
THEOREM DemoShowsItsRun == DemoSpec => []ShowsItsOwnRun
<1>1. DemoInv /\ [DemoNext]_allVars => DemoInv'
  BY NextDemoType, NextKey, NextShown DEF DemoInv, DemoTypeOK
<1>2. DemoInv => ShowsItsOwnRun
  BY DEF DemoInv, ShownInv
<1>3. QED
  BY <1>1, <1>2, InitDemo, PTL DEF DemoSpec

-----------------------------------------------------------------------------
(***************************************************************************)
(* A delivery receipt of the demo is for a link whose customer Razorpay    *)
(* was told to notify.  The run looks execute up while the script's own    *)
(* is bound there, so that every request of the demo says so.              *)
(***************************************************************************)
Notified == \A c \in Sent : c.notify

LEMMA NextNotified ==
    TypeOK /\ Binding /\ Notified /\ [DemoNext]_allVars => Notified'
<1> SUFFICES ASSUME TypeOK, Binding, Notified, [DemoNext]_allVars PROVE Notified'
  OBVIOUS
<1> USE DEF Notified, Sent
<1>1. CASE RunPipeline
  <2>1. \A q \in requests' \ requests : q.notify
    BY <1>1 DEF RunPipeline, Binding
  <2>2. links' = links
    BY <1>1 DEF RunPipeline, Work, Judge, SendRequest, AnswerCreated, AnswerWithoutId,
                AnswerFailed, ReceiptConfirms, ReceiptDenies, BodyUnreadable, StartWrite,
                EndWrite
  <2>3. QED
    BY <2>1, <2>2
<1>2. CASE ProviderCreates
  <2>1. PICK q \in requests : /\ requests' = requests \ {q}
                              /\ links' = links \union {LinkOf(q, "created")}
    BY <1>2 DEF ProviderCreates
  <2>2. LinkOf(q, "created").notify = q.notify
    BY DEF LinkOf
  <2>3. QED
    BY <2>1, <2>2
<1>3. CASE LinkMoves
  <2>1. PICK l \in links, s \in LinkStatus :
            /\ links' = (links \ {l}) \union {[l EXCEPT !.status = s]}
            /\ requests' = requests
    BY <1>3 DEF LinkMoves
  <2>2. [l EXCEPT !.status = s].notify = l.notify
    BY DEF TypeOK, Link
  <2>3. QED
    BY <2>1, <2>2
<1>4. CASE links' \subseteq links /\ requests' \subseteq requests
  BY <1>4
<1>5. \/ RunPipeline
      \/ ProviderCreates
      \/ LinkMoves
      \/ links' \subseteq links /\ requests' \subseteq requests
  BY DEF DemoNext, ValidateEnv, BindExecute, EnterPipeline, Receive, Finally, ReadBack,
         Commit, Persist, Provider, ProviderRefuses, Kill, Crash, StartAgain, vars, allVars
<1>6. QED
  BY <1>1, <1>2, <1>3, <1>4, <1>5

(***************************************************************************)
(* What the demo reports as delivered, Razorpay was told to deliver.       *)
(***************************************************************************)
THEOREM DeliveriesWereInstructed == DemoSpec => []DeliveredWasInstructed
<1>1. DemoInit => TypeOK /\ Binding /\ Notified
  BY InitTypeOK DEF DemoInit, Init, Binding, Notified, Sent
<1>2. TypeOK /\ Binding /\ Notified /\ [DemoNext]_allVars => TypeOK' /\ Binding' /\ Notified'
  BY NextTypeOK, NextBinding, NextNotified, DemoSteps
<1>3. Notified /\ RecordsTellTruth => DeliveredWasInstructed
  BY DEF Notified, Sent, RecordsTellTruth, DeliveredHasLink, DeliveredWasInstructed
<1>4. DemoSpec => []RecordsTellTruth
  BY DemoRunsThePipeline, RecordsStayTrue, PTL
<1>5. QED
  BY <1>1, <1>2, <1>3, <1>4, PTL DEF DemoSpec
=============================================================================
