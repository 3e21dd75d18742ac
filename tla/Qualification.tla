---------------------------- MODULE Qualification ----------------------------
(***************************************************************************)
(* The release qualification of a running server: qualify_rtx.py and       *)
(* qualify_spark.py, the audited continuations continue_rtx.py (with       *)
(* restart_continuation.py) and continue_spark_timeout.py, inherited       *)
(* evidence (evidence_lineage.py), and what report.py accepts of the       *)
(* directory they leave.                                                   *)
(*                                                                         *)
(* One runner works on one output directory at a time; it may be killed    *)
(* anywhere, also inside a write.  The server may stop or be replaced, and *)
(* the checked-out sources edited, at any time.  A server is its life (the *)
(* container and guard instance) and its profile (arguments, environment); *)
(* a server with another image is to every runner a server that is down.   *)
(***************************************************************************)
EXTENDS Naturals, FiniteSets

CONSTANTS
  Platforms,  \* platforms qualified: "rtx", "spark"
  N,          \* number of stages; the last is the longest retrieval
  MaxLives,   \* bound on server instances
  MaxEdits,   \* bound on edits of the sources
  MaxFaults   \* bound on kills, failed stages and monitor failures

ASSUME QualificationAssumption ==
  /\ Platforms \subseteq {"rtx", "spark"}
  /\ N \in Nat \ {0} /\ MaxLives \in Nat /\ MaxEdits \in Nat /\ MaxFaults \in Nat

Stages == 1..N
Profiles == {"selected", "other"}

VARIABLES
  job,       \* platform, and the stages whose evidence is inherited
  srv, up,   \* the server's identity; whether it answers
  src,       \* contents of the bound sources
  manifest, receipt, ledger, complete,  \* files: absent, torn or their record
  partial,   \* an attempt at the last stage has left a measurement
  pc, tool,  \* the runner
  me,        \* identity it was started with
  target,    \* runtime its 'before' snapshot saw
  stage,     \* next stage
  ran,       \* servers that answered the stage's requests
  failed,    \* failed.set() by the Spark monitor
  draft,     \* the file being written and its record
  edits, faults

server == <<srv, up>>
files == <<manifest, receipt, ledger, complete, partial>>
runner == <<tool, me, target, stage, ran, failed, draft>>
budgets == <<edits, faults>>
vars == <<job, server, src, files, pc, runner, budgets>>

Spark == job.platform = "spark"
NoFile == [state |-> "none"]
Torn == [state |-> "torn"]
Written(f) == f.state = "done"
Done == {s \in Stages : Written(receipt[s])}
NoDraft == [file |-> "none", data |-> NoFile]
NoServer == [life |-> 0, profile |-> "none"]  \* inherited evidence names none

\* evidence_lineage.load_spec and apply_plan: measured evidence of an earlier
\* profile may stand for a stage, on Spark only and never for the retrievals.
Inheritable(p) == IF p = "spark" THEN {{}, {1} \ {N}} ELSE {{}}

Init ==
  /\ \E p \in Platforms : \E i \in Inheritable(p) : job = [platform |-> p, inherited |-> i]
  /\ srv = [life |-> 1, profile |-> "selected"] /\ up = TRUE
  /\ src = 0
  /\ manifest = NoFile /\ receipt = [s \in Stages |-> NoFile]
  /\ ledger = NoFile /\ complete = NoFile /\ partial = FALSE
  /\ pc = "idle" /\ tool = "none" /\ me = srv /\ target = srv
  /\ stage = 1 /\ ran = {} /\ failed = FALSE /\ draft = NoDraft
  /\ edits = 0 /\ faults = 0

-----------------------------------------------------------------------------
(* The server and its operators.                                            *)

\* A stage that runs meanwhile may have been answered by both servers.
Replace ==
  /\ srv.life < MaxLives
  /\ \E p \in Profiles : srv' = [life |-> srv.life + 1, profile |-> p]
  /\ up' = TRUE
  /\ ran' = IF pc = "child" THEN ran \cup {srv'} ELSE ran
  /\ UNCHANGED <<job, src, files, pc, tool, me, target, stage, failed, draft, budgets>>

ServerStops ==
  /\ up /\ up' = FALSE
  /\ UNCHANGED <<job, srv, src, files, pc, runner, budgets>>

EditSource ==
  /\ edits < MaxEdits /\ edits' = edits + 1
  /\ src' = 1 - src
  /\ UNCHANGED <<job, server, files, pc, runner, faults>>

-----------------------------------------------------------------------------
(* Files.  save() opens with 'x' and dumps into the open file: until it is  *)
(* done the file is there and does not parse.                               *)

Save(file, data) ==
  /\ pc' = "write" /\ draft' = [file |-> file, data |-> data]
  /\ manifest' = IF file = "manifest" THEN Torn ELSE manifest
  /\ ledger' = IF file = "ledger" THEN Torn ELSE ledger
  /\ complete' = IF file = "complete" THEN Torn ELSE complete
  /\ receipt' = IF file = "receipt" THEN [receipt EXCEPT ![stage] = Torn] ELSE receipt
  /\ UNCHANGED partial

After(file) == CASE file \in {"manifest", "ledger"} -> "before" [] file = "receipt" -> "stage" [] OTHER -> "idle"

FinishWrite ==
  /\ pc = "write"
  /\ pc' = After(draft.file) /\ draft' = NoDraft
  /\ manifest' = IF draft.file = "manifest" THEN draft.data ELSE manifest
  /\ ledger' = IF draft.file = "ledger" THEN draft.data ELSE ledger
  /\ complete' = IF draft.file = "complete" THEN draft.data ELSE complete
  /\ receipt' = IF draft.file = "receipt" THEN [receipt EXCEPT ![stage] = draft.data] ELSE receipt
  /\ stage' = IF draft.file = "receipt" THEN stage + 1 ELSE stage
  /\ UNCHANGED <<job, server, src, partial, tool, me, target, ran, failed, budgets>>

\* The runner raises; what it wrote stays.
Raise ==
  /\ pc' = "idle"
  /\ UNCHANGED <<files, tool, me, target, stage, ran, failed, draft>>

-----------------------------------------------------------------------------
(* Starting a runner.                                                       *)

Bound == [state |-> "done", id |-> srv, src |-> src]

Begin(t) == /\ pc = "idle" /\ up
            /\ tool' = t /\ me' = srv
            /\ UNCHANGED <<job, server, src, target, stage, ran, failed, budgets>>

\* qualify: a new manifest, or one that binds exactly what is there now.
Qualify ==
  /\ Begin("qualify")
  /\ \/ manifest = NoFile /\ Save("manifest", Bound)
     \/ manifest = Bound /\ pc' = "before" /\ UNCHANGED <<files, draft>>

SameProfile(old, new) == old.profile = new.profile /\ old # new

\* restart_continuation.prepare: something to keep, something to run, no completion.
PrepareRestart ==
  /\ complete = NoFile
  /\ SameProfile(manifest.id, srv)
  /\ \A s \in Stages : receipt[s] # Torn
  /\ \A s \in Done : receipt[s].id = manifest.id
  /\ Done # {} /\ Done # Stages

RestartLedger == [state |-> "done", kind |-> "restart", prior |-> manifest.id, current |-> srv, preserved |-> Done]

\* restart_continuation.verify for the running server id
RestartVerified(id) == manifest.src = src /\ ledger.current = id

\* Only the lifecycle may have changed, and it may not change again.
Restart ==
  /\ Begin("restart")
  /\ ~ Spark /\ Written(manifest) /\ manifest.src = src
  /\ \/ ledger = NoFile /\ PrepareRestart /\ Save("ledger", RestartLedger)
     \/ Written(ledger) /\ RestartVerified(srv) /\ pc' = "before" /\ UNCHANGED <<files, draft>>

\* continue_spark_timeout.prepare: all but the last stage, under this identity, and
\* no measurement of the last is repeated.  A continuation that is begun a second
\* time only verifies the ledger, which does not look for measurements.
PrepareTimeout ==
  /\ Done = Stages \ {N} /\ receipt[N] = NoFile /\ ~ partial
  /\ \A s \in Done : receipt[s].target = manifest.id

TimeoutLedger == [state |-> "done", kind |-> "timeout", prior |-> manifest.id, current |-> manifest.id, preserved |-> Done]

\* continue_spark_timeout.verify
TimeoutVerified == manifest.src = src /\ ledger.current = manifest.id

Timeout ==
  /\ Begin("timeout")
  /\ Spark /\ Written(manifest) /\ manifest = Bound
  /\ \/ ledger = NoFile /\ PrepareTimeout /\ Save("ledger", TimeoutLedger)
     \/ Written(ledger) /\ TimeoutVerified /\ pc' = "before" /\ UNCHANGED <<files, draft>>

\* The attempt: its monitor, and the runtime as the first snapshot sees it.
Snapshot ==
  /\ pc = "before" /\ up
  /\ pc' = "stage" /\ failed' = FALSE /\ target' = srv
  /\ stage' = IF tool = "timeout" THEN N ELSE 1
  /\ UNCHANGED <<job, server, src, files, tool, me, ran, draft, budgets>>

-----------------------------------------------------------------------------
(* The stages.                                                              *)

\* identity(args) of a running server against the one bound
Unchanged == up /\ srv = me

\* restart_continuation.stage_identity
StageIdentity(s) ==
  IF Written(ledger) /\ s \in ledger.preserved THEN ledger.prior
  ELSE IF Written(ledger) THEN ledger.current ELSE manifest.id

\* What every stage is preceded by; the timeout continuation has checked before.
MayProceed ==
  \/ tool = "timeout"
  \/ Unchanged /\ (Spark => ~ failed) /\ (tool = "restart" => RestartVerified(me))

MaySkip ==
  /\ stage \in Done /\ tool # "timeout" /\ MayProceed
  /\ tool = "restart" => receipt[stage].id = StageIdentity(stage)

MayInherit ==
  stage \in job.inherited /\ receipt[stage] = NoFile /\ MayProceed /\ target = me

\* Preserved stages are never run again.
MayRun ==
  /\ stage \in Stages \ job.inherited /\ receipt[stage] = NoFile /\ MayProceed
  /\ tool = "restart" => stage \notin ledger.preserved

MaySave == Unchanged /\ (tool = "timeout" => TimeoutVerified)

\* The last snapshot has succeeded, and the Spark monitor has not failed.  Only
\* the timeout continuation compares the identity once more.
MayComplete ==
  /\ stage = N + 1 /\ up
  /\ Spark => ~ failed
  /\ tool = "restart" => RestartVerified(me)
  /\ tool = "timeout" => TimeoutVerified /\ Unchanged

\* Mutant: a finished stage stops the run that finds it.
SkipNever == FALSE /\ UNCHANGED vars

\* A finished stage is validated and passed over.
SkipFinished ==
  /\ pc = "stage" /\ MaySkip
  /\ stage' = stage + 1
  /\ UNCHANGED <<job, server, src, files, pc, tool, me, target, ran, failed, draft, budgets>>

\* Evidence of an earlier profile, bound to this server and sent no request.
Inherit ==
  /\ pc = "stage" /\ MayInherit
  /\ Save("receipt", [state |-> "done", id |-> NoServer, target |-> me, ran |-> {}, kind |-> "inherited"])
  /\ UNCHANGED <<job, server, src, tool, me, target, stage, ran, failed, budgets>>

\* Mutant: a finished stage is measured again.
RunAgain ==
  /\ pc = "stage" /\ stage \in Stages \ job.inherited /\ MayProceed
  /\ receipt[stage] # Torn
  /\ tool = "restart" => stage \notin ledger.preserved
  /\ pc' = "child" /\ ran' = {srv}
  /\ UNCHANGED <<job, server, src, files, tool, me, target, stage, failed, draft, budgets>>

RunStage ==
  /\ pc = "stage" /\ MayRun
  /\ pc' = "child" /\ ran' = {srv}
  /\ UNCHANGED <<job, server, src, files, tool, me, target, stage, failed, draft, budgets>>

\* One retrieval of the last stage is answered, and its row flushed.
Measure ==
  /\ pc = "child" /\ stage = N /\ up /\ ~ partial
  /\ partial' = TRUE
  /\ UNCHANGED <<job, server, src, manifest, receipt, ledger, complete, pc, runner, budgets>>

\* The child exits with 0 and its artifact validates.  A monitor failure may be
\* noticed too late to cancel it.
StageEnds ==
  /\ pc = "child" /\ up /\ (stage = N => partial)
  /\ pc' = "recheck"
  /\ UNCHANGED <<job, server, src, files, runner, budgets>>

\* Mutant: the identity is not looked at again after the stage.
SaveUnchecked ==
  /\ pc = "recheck" /\ up
  /\ tool = "timeout" => TimeoutVerified
  /\ Save("receipt", [state |-> "done", id |-> me, target |-> me, ran |-> ran, kind |-> tool])
  /\ UNCHANGED <<job, server, src, tool, me, target, stage, ran, failed, budgets>>

\* A receipt only under the identity the stage began with.
SaveReceipt ==
  /\ pc = "recheck" /\ MaySave
  /\ Save("receipt", [state |-> "done", id |-> me, target |-> me, ran |-> ran, kind |-> tool])
  /\ UNCHANGED <<job, server, src, tool, me, target, stage, ran, failed, budgets>>

Complete ==
  /\ pc = "stage" /\ MayComplete
  /\ Save("complete", [state |-> "done", after |-> srv, continued |-> tool])
  /\ UNCHANGED <<job, server, src, tool, me, target, stage, ran, failed, budgets>>

\* One of the conditions above does not hold: an assertion, or an unreadable file.
CannotProceed ==
  \/ pc = "before" /\ ~ up
  \/ pc = "stage" /\ ~ (MaySkip \/ MayInherit \/ MayRun \/ MayComplete)
  \/ pc = "child" /\ (failed \/ ~ up)
  \/ pc = "recheck" /\ ~ MaySave

Stop ==
  /\ CannotProceed
  /\ Raise
  /\ UNCHANGED <<job, server, src, budgets>>

-----------------------------------------------------------------------------
(* Faults.                                                                  *)

Fault == faults < MaxFaults /\ faults' = faults + 1 /\ UNCHANGED edits

\* The child fails, its artifact does not validate, or a snapshot fails.
StageFails ==
  /\ pc \in {"before", "child"} /\ Fault
  /\ Raise
  /\ UNCHANGED <<job, server, src>>

\* A Spark sample that failed, or found the guard or the memory unfit.
MonitorFails ==
  /\ Spark /\ ~ failed /\ pc \notin {"idle", "before"}
  /\ IF up THEN Fault ELSE UNCHANGED budgets
  /\ failed' = TRUE
  /\ UNCHANGED <<job, server, src, files, pc, tool, me, target, stage, ran, draft>>

Kill ==
  /\ pc # "idle" /\ Fault
  /\ pc' = "idle" /\ draft' = NoDraft
  /\ UNCHANGED <<job, server, src, files, tool, me, target, stage, ran, failed>>

Environment == Replace \/ ServerStops \/ EditSource \/ StageFails \/ MonitorFails \/ Kill

Runner == FinishWrite \/ Snapshot \/ SkipFinished \/ Inherit \/ RunStage \/ Measure
            \/ StageEnds \/ SaveReceipt \/ Complete \/ Stop

Next == Qualify \/ Restart \/ Timeout \/ Runner \/ Environment

\* A runner goes on, and an operator tries again and again what may be started.
Fairness == WF_vars(Runner) /\ SF_vars(Qualify) /\ SF_vars(Restart)

Spec == Init /\ [][Next]_vars /\ Fairness

-----------------------------------------------------------------------------
(* What report.py accepts.                                                  *)

LedgerDisclosed ==
  \/ ledger = NoFile /\ complete.continued = "qualify"
  \/ Written(ledger) /\ complete.continued = ledger.kind

\* evidence_lineage.validate_inherited, with the runtime of the last snapshot
InheritedAccepted(s) ==
  receipt[s].id = NoServer /\ receipt[s].target = manifest.id /\ complete.after = receipt[s].target

ReceiptAccepted(s) ==
  /\ Written(receipt[s])
  /\ IF s \in job.inherited
       THEN InheritedAccepted(s)
       ELSE receipt[s].id = IF ~ Spark THEN StageIdentity(s) ELSE manifest.id
  /\ (Spark /\ Written(ledger) /\ s \notin ledger.preserved) => receipt[s].kind = "timeout"

\* Mutant: the snapshot of the last attempt is not compared.
FinalRuntimeAny == TRUE

\* Spark compares the last snapshot with the manifest, RTX after a restart with
\* the ledger, and otherwise only the image.
FinalRuntime ==
  /\ Spark => complete.after = manifest.id
  /\ (~ Spark /\ Written(ledger)) => complete.after = ledger.current

Reportable ==
  /\ Written(manifest) /\ manifest.src = src
  /\ Written(complete) /\ ledger # Torn
  /\ LedgerDisclosed
  /\ \A s \in Stages : ReceiptAccepted(s)
  /\ FinalRuntime

-----------------------------------------------------------------------------
(* Properties.                                                              *)

\* A receipt names the one server that answered all of the stage's requests, and
\* that server is the manifest's or the audited continuation's.
ReceiptsHonest ==
  \A s \in Done \ job.inherited :
    /\ receipt[s].ran = {receipt[s].id}
    /\ receipt[s].id = StageIdentity(s)

\* What a report says: measured stages by servers of one profile, more than one
\* of them only when the interruption is disclosed, and a last runtime that is one
\* of them (on RTX only after a restart: otherwise it is bound by its image alone).
ReportTruthful ==
  Reportable =>
    LET servers == UNION {receipt[s].ran : s \in Stages}
    IN  /\ \A r \in servers : r.profile = manifest.id.profile
        /\ Cardinality(servers) > 1 => Written(ledger) /\ complete.continued = "restart"
        /\ (Spark \/ Written(ledger)) => complete.after \in servers \cup {manifest.id}
        /\ \A s \in job.inherited : receipt[s].target = complete.after

\* What a step leaves of finished work: no file that is complete changes, and no
\* stage that has its receipt is begun.
KeepsFinished ==
  /\ \A s \in Done : receipt'[s] = receipt[s] /\ ~ (pc # "child" /\ pc' = "child" /\ stage' = s)
  /\ Written(manifest) => manifest' = manifest
  /\ Written(ledger) => ledger' = ledger

\* Finished work is kept, by all of the three runners and through their kills: no
\* file that is complete ever changes, and no finished stage is measured again.
FinishedKept == [][KeepsFinished]_vars

\* The sources are the bound ones, the bound server answers, or one with which a
\* continuation may be begun, and no write was cut off.
Steady ==
  /\ up
  /\ pc = "write" \/ Torn \notin {manifest, ledger} \cup {receipt[s] : s \in Stages}
  /\ Written(manifest) =>
       /\ manifest.src = src
       /\ \/ srv = IF Written(ledger) THEN ledger.current ELSE manifest.id
          \/ ~ Spark /\ ledger = NoFile /\ PrepareRestart

\* A qualification that is interrupted any number of times is completed by running
\* it again, once its server and its sources stay what they were; unless a timeout
\* continuation was begun, what it leaves can be reported.
Completes ==
  <>[]Steady => <>(Written(complete) /\ (Reportable \/ (Spark /\ Written(ledger))))

=============================================================================
