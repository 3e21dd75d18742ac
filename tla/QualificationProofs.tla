------------------------ MODULE QualificationProofs ------------------------
(***************************************************************************)
(* What a qualification leaves, proved for any number of stages, servers,  *)
(* edits and faults: finished files are kept, every receipt names the      *)
(* servers that answered, and an accepted report tells the truth.          *)
(*                                                                         *)
(* The argument: server lives only grow, so an identity that is compared   *)
(* with the running server's at the end of a stage was the running         *)
(* server's all along; and a runner that has come past its first write is  *)
(* bound to the identity that the manifest or the ledger names.            *)
(***************************************************************************)
EXTENDS Qualification, FiniteSetTheorems, TLAPS

Servers == [life : Nat, profile : Profiles]

\* A server once seen is the running one, or one that will not run again.
Seen(id) == id = srv \/ id.life < srv.life

TypeOK ==
  /\ job.platform \in {"rtx", "spark"} /\ job.inherited \subseteq Stages
  /\ ~ Spark => job.inherited = {}
  /\ srv \in Servers /\ me \in Servers
  /\ receipt = [s \in Stages |-> receipt[s]]

\* The manifest comes first and names a server that was seen.
ManifestBinds ==
  /\ Written(manifest) => manifest.id \in Servers /\ Seen(manifest.id)
  /\ ~ Written(manifest) => ledger = NoFile /\ Done = {}

\* A ledger hands over from the manifest's server: to itself, or to a later one of
\* its profile; what it preserves is finished, and something is left to be run.
HandsOver(l) ==
  /\ Written(manifest) /\ l.prior = manifest.id
  /\ l.current \in Servers /\ Seen(l.current) /\ l.current.profile = manifest.id.profile
  /\ l.preserved \subseteq Done /\ l.preserved # Stages
  /\ IF Spark THEN l.kind = "timeout" /\ l.current = l.prior
              ELSE l.kind = "restart" /\ l.prior.life < l.current.life
LedgerBinds == Written(ledger) => HandsOver(ledger)

\* Who answered: nobody, for inherited evidence, or the server that is bound.
Honest(s, r) ==
  IF s \in job.inherited THEN r.ran = {} ELSE r.ran = {r.id} /\ r.id = StageIdentity(s)
AllHonest == \A s \in Done : Honest(s, receipt[s])

\* The file being written is torn, and its record is fit to be kept.
DraftFits ==
  /\ pc # "write" => draft = NoDraft
  /\ pc = "write" => draft.file \in {"manifest", "ledger", "receipt", "complete"}
  /\ draft.file = "manifest" => manifest = Torn /\ Written(draft.data) /\ draft.data.id = me
  /\ draft.file = "ledger" =>
       /\ ledger = Torn /\ Written(draft.data) /\ HandsOver(draft.data)
       /\ draft.data.current = me /\ draft.data.preserved = Done
       /\ ~ Spark => tool = "restart"
       /\ \A s \in Done \ job.inherited : receipt[s].id = manifest.id
  /\ draft.file = "receipt" =>
       stage \in Stages /\ receipt[stage] = Torn /\ Honest(stage, draft.data)

BoundIdentity == IF Written(ledger) THEN ledger.current ELSE manifest.id

\* Past its first write the runner has the identity that is bound, and only a
\* restart runs under an RTX ledger.
RunnerBound ==
  /\ Seen(me)
  /\ pc # "idle" /\ draft.file \notin {"manifest", "ledger"} =>
       /\ Written(manifest) /\ me = BoundIdentity
       /\ ~ Spark /\ Written(ledger) => tool = "restart"

\* A stage that runs has no receipt and is not preserved, and if the server is
\* still the bound one, no other has answered.
StageRuns ==
  pc \in {"child", "recheck"} =>
    /\ stage \in Stages \ job.inherited /\ receipt[stage] = NoFile
    /\ tool = "restart" => stage \notin ledger.preserved
    /\ srv = me => ran = {me}

QualificationInv ==
  /\ TypeOK /\ ManifestBinds /\ LedgerBinds /\ AllHonest
  /\ DraftFits /\ RunnerBound /\ StageRuns

-----------------------------------------------------------------------------
(* The invariant.                                                          *)

\* Nothing is written, and nothing runs.
LEMMA Initially == Init => QualificationInv
<1> SUFFICES ASSUME Init PROVE QualificationInv
  OBVIOUS
<1>1. TypeOK
  BY QualificationAssumption DEF Init, TypeOK, Servers, Profiles, Inheritable, Spark, Stages
<1>2. Done = {} /\ ~ Written(ledger)
  BY DEF Init, Done, Written, NoFile
<1>3. QED
  BY <1>1, <1>2 DEF Init, QualificationInv, ManifestBinds, LedgerBinds, AllHonest, DraftFits, RunnerBound, StageRuns,
                    Seen, Written, NoFile, NoDraft

\* A step that writes nothing keeps what is said of the files.
LEMMA FilesKept ==
  ASSUME QualificationInv,
         UNCHANGED <<job, manifest, receipt, ledger, me>>,
         srv' \in Servers, srv' = srv \/ srv'.life > srv.life,
         (draft' = NoDraft /\ pc' # "write") \/ UNCHANGED <<draft, pc, tool, stage>>
  PROVE  TypeOK' /\ ManifestBinds' /\ LedgerBinds' /\ AllHonest' /\ DraftFits'
<1> USE DEF QualificationInv
<1>1. \A id \in Servers : Seen(id) => Seen(id)'
  BY DEF TypeOK, Seen, Servers
<1>2. UNCHANGED <<Spark, Done, Written(manifest), Written(ledger)>>
  BY DEF Spark, Done, Written
<1>3. \A s : StageIdentity(s)' = StageIdentity(s)
  BY DEF StageIdentity, Written
<1>4. \A l : HandsOver(l) => HandsOver(l)'
  BY <1>1, <1>2 DEF HandsOver, Written
<1>5. \A s, r : Honest(s, r) => Honest(s, r)'
  BY <1>3 DEF Honest
<1>6. TypeOK'
  BY <1>2 DEF TypeOK
<1>7. ManifestBinds'
  BY <1>1, <1>2 DEF ManifestBinds
<1>8. LedgerBinds'
  BY <1>2, <1>4 DEF LedgerBinds
<1>9. AllHonest'
  BY <1>2, <1>5 DEF AllHonest
<1>10. DraftFits'
  <2>1. CASE draft' = NoDraft /\ pc' # "write"
    BY <2>1 DEF DraftFits, NoDraft
  <2>2. CASE UNCHANGED <<draft, pc, tool, stage>>
    BY <2>2, <1>2, <1>4, <1>5 DEF DraftFits, Written
  <2>3. QED
    BY <2>1, <2>2
<1>11. QED
  BY <1>6, <1>7, <1>8, <1>9, <1>10

\* The environment, and the runner where it writes nothing.
LEMMA QuietStep ==
  ASSUME QualificationInv,
         Environment \/ Snapshot \/ SkipFinished \/ RunStage \/ Measure \/ StageEnds \/ Stop
  PROVE  QualificationInv' /\ KeepsFinished
<1> USE DEF QualificationInv
<1>1. CASE Replace
  <2>1. srv' \in Servers /\ srv'.life > srv.life
    BY <1>1 DEF Replace, TypeOK, Servers
  <2>2. UNCHANGED <<job, manifest, receipt, ledger, me, draft, pc, tool, stage>>
    BY <1>1 DEF Replace, files
  <2>3. Seen(me)' /\ srv' # me
    BY <2>1, <2>2 DEF RunnerBound, Seen, TypeOK, Servers
  <2>4. RunnerBound' /\ StageRuns'
    BY <2>2, <2>3 DEF RunnerBound, StageRuns, BoundIdentity, Written, Spark, Stages
  <2>5. KeepsFinished
    BY <2>2 DEF KeepsFinished
  <2>6. QED
    BY <2>1, <2>2, <2>4, <2>5, FilesKept
<1>2. ASSUME ServerStops \/ EditSource \/ MonitorFails \/ Measure
      PROVE  QualificationInv' /\ KeepsFinished
  <2>1. UNCHANGED <<job, srv, manifest, receipt, ledger, me, draft, pc, tool, stage, ran>>
    BY <1>2 DEF ServerStops, EditSource, MonitorFails, Measure, server, files, runner
  <2>2. RunnerBound' /\ StageRuns'
    BY <2>1 DEF RunnerBound, StageRuns, BoundIdentity, Written, Spark, Stages, Seen
  <2>3. KeepsFinished
    BY <2>1 DEF KeepsFinished
  <2>4. QED
    BY <2>1, <2>2, <2>3, FilesKept DEF TypeOK
<1>3. ASSUME StageFails \/ Stop \/ Kill
      PROVE  QualificationInv' /\ KeepsFinished
  <2>1. UNCHANGED <<job, srv, manifest, receipt, ledger, me>> /\ pc' = "idle"
    BY <1>3 DEF StageFails, Stop, Kill, Raise, server, files
  <2>2. draft' = NoDraft
    BY <1>3 DEF StageFails, Stop, Kill, Raise, CannotProceed, DraftFits
  <2>3. RunnerBound' /\ StageRuns'
    BY <2>1 DEF RunnerBound, StageRuns, Seen
  <2>4. KeepsFinished
    BY <2>1 DEF KeepsFinished
  <2>5. QED
    BY <2>1, <2>2, <2>3, <2>4, FilesKept DEF TypeOK
<1>4. ASSUME Snapshot \/ SkipFinished
      PROVE  QualificationInv' /\ KeepsFinished
  <2>1. UNCHANGED <<job, srv, manifest, receipt, ledger, me, draft, tool>>
    BY <1>4 DEF Snapshot, SkipFinished, server, files
  <2>2. pc \in {"before", "stage"} /\ pc' = "stage" /\ draft = NoDraft
    BY <1>4 DEF Snapshot, SkipFinished, DraftFits
  <2>3. RunnerBound' /\ StageRuns'
    BY <2>1, <2>2 DEF RunnerBound, StageRuns, BoundIdentity, Written, Spark, Seen, NoDraft
  <2>4. KeepsFinished
    BY <2>1, <2>2 DEF KeepsFinished
  <2>5. QED
    BY <2>1, <2>2, <2>3, <2>4, FilesKept DEF TypeOK
<1>5. CASE RunStage
  <2>1. UNCHANGED <<job, srv, manifest, receipt, ledger, me, draft, tool, stage>>
    BY <1>5 DEF RunStage, server, files
  <2>2. pc = "stage" /\ pc' = "child" /\ draft = NoDraft /\ ran' = {srv}
    BY <1>5 DEF RunStage, DraftFits
  <2>3. /\ stage \in Stages \ job.inherited /\ receipt[stage] = NoFile
        /\ tool = "restart" => stage \notin ledger.preserved
    BY <1>5 DEF RunStage, MayRun
  <2>4. RunnerBound' /\ StageRuns'
    BY <2>1, <2>2, <2>3 DEF RunnerBound, StageRuns, BoundIdentity, Written, Spark, Seen, NoDraft, Stages
  <2>5. KeepsFinished
    BY <2>1, <2>2, <2>3 DEF KeepsFinished, Done, Written, NoFile
  <2>6. QED
    BY <2>1, <2>2, <2>4, <2>5, FilesKept DEF TypeOK
<1>6. CASE StageEnds
  <2>1. UNCHANGED <<job, srv, manifest, receipt, ledger, me, draft, tool, stage, ran>>
    BY <1>6 DEF StageEnds, server, files, runner
  <2>2. pc = "child" /\ pc' = "recheck" /\ draft = NoDraft
    BY <1>6 DEF StageEnds, DraftFits
  <2>3. RunnerBound' /\ StageRuns'
    BY <2>1, <2>2 DEF RunnerBound, StageRuns, BoundIdentity, Written, Spark, Seen, NoDraft, Stages
  <2>4. KeepsFinished
    BY <2>1, <2>2 DEF KeepsFinished
  <2>5. QED
    BY <2>1, <2>2, <2>3, <2>4, FilesKept DEF TypeOK
<1>7. QED
  BY <1>1, <1>2, <1>3, <1>4, <1>5, <1>6 DEF Environment

\* A runner begins: it binds a new manifest or a new ledger, or is bound by those
\* that are there.
LEMMA BeginStep ==
  ASSUME QualificationInv, Qualify \/ Restart \/ Timeout
  PROVE  QualificationInv' /\ KeepsFinished
<1> USE DEF QualificationInv
<1>1. /\ pc = "idle" /\ me' = srv /\ draft = NoDraft
      /\ UNCHANGED <<job, srv, target, stage, ran>>
  BY DEF Qualify, Restart, Timeout, Begin, server, DraftFits
<1>2. UNCHANGED receipt /\ pc' \in {"write", "before"}
  BY DEF Qualify, Restart, Timeout, Save, files
<1>3. /\ TypeOK' /\ Seen(me)' /\ UNCHANGED Done /\ UNCHANGED Spark
      /\ \A id : Seen(id)' = Seen(id)
  BY <1>1, <1>2 DEF TypeOK, Seen, Done, Written, Spark
<1>4. CASE UNCHANGED files /\ draft' = NoDraft /\ pc' = "before"
  <2>1. UNCHANGED <<manifest, ledger>> /\ UNCHANGED Written(manifest) /\ UNCHANGED Written(ledger)
    BY <1>4 DEF files, Written
  <2>2. Written(manifest) /\ me' = BoundIdentity
    <3>1. CASE Qualify
      <4>1. manifest.state = "done" /\ manifest.id = srv
        BY <3>1, <1>4 DEF Qualify, Save, Bound
      <4>2. Written(ledger) => ledger.current = srv
        <5>1. ASSUME Written(ledger) PROVE HandsOver(ledger)
          BY <5>1 DEF LedgerBinds
        <5>2. QED
          BY <5>1, <4>1 DEF HandsOver, Seen, Servers, TypeOK
      <4>3. QED
        BY <4>1, <4>2, <1>1 DEF BoundIdentity, Written
    <3>2. CASE Restart
      BY <3>2, <1>1, <1>4 DEF Restart, Save, RestartVerified, BoundIdentity
    <3>3. CASE Timeout
      BY <3>3, <1>1, <1>4 DEF Timeout, Save, TimeoutVerified, BoundIdentity, Bound
    <3>4. QED
      BY <3>1, <3>2, <3>3
  <2>3. ~ Spark /\ Written(ledger) => tool' = "restart"
    <3>1. ASSUME ~ Spark, Written(ledger) PROVE ~ Timeout /\ ~ Qualify
      <4>1. HandsOver(ledger)
        BY <3>1 DEF LedgerBinds
      <4>2. manifest.id # srv
        BY <3>1, <4>1 DEF HandsOver, Seen, Servers, TypeOK
      <4>3. ~ Qualify
        BY <4>1, <4>2, <1>4 DEF Qualify, Save, Bound
      <4>4. QED
        BY <4>3, <3>1 DEF Timeout
    <3>2. QED
      BY <3>1 DEF Restart, Begin
  <2>4. BoundIdentity' = BoundIdentity
    BY <2>1 DEF BoundIdentity
  <2>5. RunnerBound' /\ StageRuns'
    BY <2>1, <2>2, <2>3, <2>4, <1>3, <1>4 DEF RunnerBound, StageRuns
  <2>6. \A s : StageIdentity(s)' = StageIdentity(s)
    BY <2>1 DEF StageIdentity
  <2>7. ManifestBinds' /\ LedgerBinds' /\ AllHonest' /\ DraftFits'
    BY <2>1, <2>6, <1>1, <1>2, <1>3, <1>4
       DEF ManifestBinds, LedgerBinds, HandsOver, AllHonest, Honest, DraftFits, NoDraft
  <2>8. KeepsFinished
    BY <2>1, <1>2, <1>4 DEF KeepsFinished
  <2>9. QED
    BY <1>3, <2>5, <2>7, <2>8
<1>5. CASE manifest = NoFile /\ Qualify
  <2>1. /\ manifest' = Torn /\ UNCHANGED ledger /\ pc' = "write"
        /\ draft' = [file |-> "manifest", data |-> Bound]
    BY <1>5 DEF Qualify, Save, Bound, NoFile
  <2>2. ledger = NoFile /\ Done = {} /\ ~ Written(manifest') /\ ~ Written(ledger)
    BY <1>5, <2>1 DEF ManifestBinds, Written, NoFile, Torn
  <2>3. ManifestBinds' /\ LedgerBinds' /\ AllHonest'
    BY <2>1, <2>2, <1>3 DEF ManifestBinds, LedgerBinds, AllHonest, Written
  <2>4. DraftFits' /\ RunnerBound' /\ StageRuns'
    BY <2>1, <1>1, <1>3 DEF DraftFits, RunnerBound, StageRuns, Bound, Written
  <2>5. KeepsFinished
    BY <2>1, <2>2, <1>5 DEF KeepsFinished, Written, NoFile
  <2>6. QED
    BY <1>3, <2>3, <2>4, <2>5
<1>6. ASSUME NEW l, ledger = NoFile, Written(manifest), Save("ledger", l), Written(l), HandsOver(l),
             l.current = srv, l.preserved = Done, ~ Spark => tool' = "restart",
             \A s \in Done \ job.inherited : receipt[s].id = manifest.id
      PROVE  QualificationInv' /\ KeepsFinished
  <2>1. /\ ledger' = Torn /\ UNCHANGED manifest /\ pc' = "write"
        /\ draft' = [file |-> "ledger", data |-> l]
    BY <1>6 DEF Save
  <2>2. ~ Written(ledger) /\ ~ Written(ledger') /\ UNCHANGED Written(manifest)
    BY <1>6, <2>1 DEF Written, NoFile, Torn
  <2>3. \A s : StageIdentity(s)' = StageIdentity(s)
    BY <2>1, <2>2 DEF StageIdentity, Written
  <2>4. ManifestBinds' /\ LedgerBinds'
    BY <2>1, <2>2, <1>3, <1>6 DEF ManifestBinds, LedgerBinds, Written
  <2>5. AllHonest'
    BY <2>3, <1>1, <1>2, <1>3 DEF AllHonest, Honest
  <2>6. HandsOver(l)'
    BY <1>6, <1>3, <2>1 DEF HandsOver, Written
  <2>7. DraftFits'
    BY <2>1, <2>6, <1>1, <1>2, <1>3, <1>6 DEF DraftFits, Written
  <2>8. RunnerBound' /\ StageRuns'
    BY <2>1, <1>3 DEF RunnerBound, StageRuns
  <2>9. KeepsFinished
    BY <2>1, <2>2, <1>2 DEF KeepsFinished
  <2>10. QED
    BY <1>3, <2>4, <2>5, <2>7, <2>8, <2>9
<1>7. CASE ledger = NoFile /\ Restart /\ PrepareRestart /\ Save("ledger", RestartLedger)
  <2>1. Written(manifest) /\ ~ Spark /\ tool' = "restart"
    BY <1>7 DEF Restart, Begin
  <2>2. manifest.id \in Servers /\ Seen(manifest.id)
    BY <2>1 DEF ManifestBinds
  <2>3. /\ manifest.id.profile = srv.profile /\ manifest.id # srv
        /\ Done # Stages /\ \A s \in Done : receipt[s].id = manifest.id
    BY <1>7 DEF PrepareRestart, SameProfile
  <2>4. HandsOver(RestartLedger)
    BY <2>1, <2>2, <2>3 DEF HandsOver, RestartLedger, Seen, TypeOK
  <2>5. QED
    BY <1>6, <1>7, <2>1, <2>3, <2>4 DEF RestartLedger, Written
<1>8. CASE ledger = NoFile /\ Timeout /\ PrepareTimeout /\ Save("ledger", TimeoutLedger)
  <2>1. Written(manifest) /\ Spark /\ manifest.id = srv
    BY <1>8 DEF Timeout, Bound
  <2>2. Done = Stages \ {N} /\ N \in Stages
    BY <1>8, QualificationAssumption DEF PrepareTimeout, Stages
  <2>3. HandsOver(TimeoutLedger)
    BY <2>1, <2>2 DEF HandsOver, TimeoutLedger, Seen, TypeOK
  <2>4. ~ Written(ledger)
    BY <1>8 DEF Written, NoFile
  <2>5. \A s \in Done \ job.inherited : receipt[s].id = manifest.id
    BY <2>4 DEF AllHonest, Honest, StageIdentity
  <2>6. QED
    BY <1>6, <1>8, <2>1, <2>3, <2>5 DEF TimeoutLedger, Written
<1>9. QED
  BY <1>1, <1>4, <1>5, <1>7, <1>8 DEF Qualify, Restart, Timeout

\* A write is finished: its record takes the torn file's place.
LEMMA FinishWriteStep ==
  ASSUME QualificationInv, FinishWrite
  PROVE  QualificationInv' /\ KeepsFinished
<1> USE DEF QualificationInv
<1>1. /\ pc = "write" /\ pc' = After(draft.file) /\ draft' = NoDraft
      /\ UNCHANGED <<job, srv, me, tool, ran>>
  BY DEF FinishWrite, server
<1>2. pc' \in {"before", "stage", "idle"}
  BY <1>1 DEF After
<1>3. UNCHANGED Spark /\ \A id : Seen(id)' = Seen(id)
  BY <1>1 DEF Spark, Seen
<1>4. DraftFits' /\ StageRuns' /\ Seen(me)'
  BY <1>1, <1>2, <1>3 DEF DraftFits, StageRuns, NoDraft, RunnerBound
<1>5. CASE draft.file = "manifest"
  <2>1. /\ manifest' = draft.data /\ Written(manifest') /\ manifest'.id = me
        /\ UNCHANGED <<receipt, ledger>>
    BY <1>5 DEF FinishWrite, DraftFits
  <2>2. ledger = NoFile /\ Done = {} /\ ~ Written(ledger)
    BY <1>5 DEF DraftFits, ManifestBinds, Written, Torn, NoFile
  <2>3. Done' = {} /\ ~ Written(ledger)' /\ Written(manifest)'
    BY <2>1, <2>2 DEF Done, Written
  <2>4. TypeOK' /\ LedgerBinds' /\ AllHonest'
    BY <2>1, <2>3, <1>1, <1>3 DEF TypeOK, LedgerBinds, AllHonest
  <2>5. ManifestBinds'
    BY <2>1, <2>3, <2>4, <1>1, <1>4 DEF ManifestBinds, TypeOK, Seen
  <2>6. RunnerBound'
    BY <2>1, <2>3, <1>1, <1>4 DEF RunnerBound, BoundIdentity
  <2>7. KeepsFinished
    BY <2>1, <2>2, <1>2, <1>5 DEF KeepsFinished, DraftFits, Written, Torn
  <2>8. QED
    BY <1>4, <2>4, <2>5, <2>6, <2>7
<1>6. CASE draft.file = "ledger"
  <2>1. /\ ledger = Torn /\ ledger' = draft.data /\ Written(ledger') /\ HandsOver(ledger')
        /\ ledger'.current = me /\ ledger'.preserved = Done
        /\ UNCHANGED <<receipt, manifest>>
    BY <1>6 DEF FinishWrite, DraftFits
  <2>2. /\ ~ Spark => tool = "restart"
        /\ \A s \in Done \ job.inherited : receipt[s].id = manifest.id
    BY <1>6 DEF DraftFits
  <2>3. UNCHANGED Done /\ Written(manifest) /\ Written(manifest)' /\ Written(ledger)' /\ ~ Written(ledger)
    BY <2>1 DEF Done, Written, HandsOver, Torn
  <2>4. TypeOK' /\ ManifestBinds' /\ LedgerBinds'
    BY <2>1, <2>3, <1>1, <1>3 DEF TypeOK, ManifestBinds, LedgerBinds, HandsOver
  <2>5. \A s \in Done : StageIdentity(s)' = manifest.id
    BY <2>1, <2>3 DEF StageIdentity, HandsOver
  <2>6. AllHonest'
    BY <2>1, <2>2, <2>3, <2>5, <1>1 DEF AllHonest, Honest
  <2>7. RunnerBound'
    BY <2>1, <2>2, <2>3, <1>1, <1>3, <1>4 DEF RunnerBound, BoundIdentity
  <2>8. KeepsFinished
    BY <2>1, <2>3, <1>2 DEF KeepsFinished
  <2>9. QED
    BY <1>4, <2>4, <2>6, <2>7, <2>8
<1>7. CASE draft.file = "receipt"
  <2>1. /\ receipt' = [receipt EXCEPT ![stage] = draft.data]
        /\ UNCHANGED <<manifest, ledger>>
        /\ stage \in Stages /\ receipt[stage] = Torn /\ Honest(stage, draft.data)
    BY <1>7 DEF FinishWrite, DraftFits
  <2>2. UNCHANGED Written(manifest) /\ UNCHANGED Written(ledger)
        /\ \A s : StageIdentity(s)' = StageIdentity(s)
    BY <2>1 DEF StageIdentity, Written
  <2>3. /\ stage \notin Done /\ Done' \subseteq Done \cup {stage} /\ Done \subseteq Done'
        /\ \A s \in Done : receipt'[s] = receipt[s]
        /\ receipt'[stage] = draft.data
    BY <2>1 DEF Done, Written, Torn, TypeOK
  <2>4. TypeOK' /\ RunnerBound'
    BY <2>1, <2>2, <1>1, <1>3, <1>4, <1>7 DEF TypeOK, RunnerBound, BoundIdentity
  <2>5. Written(manifest)
    BY <1>1, <1>7 DEF RunnerBound
  <2>6. ManifestBinds' /\ LedgerBinds'
    BY <2>1, <2>2, <2>3, <2>5, <1>3 DEF ManifestBinds, LedgerBinds, HandsOver
  <2>7. AllHonest'
    BY <2>1, <2>2, <2>3, <1>1 DEF AllHonest, Honest
  <2>8. KeepsFinished
    BY <2>1, <2>3, <1>2 DEF KeepsFinished
  <2>9. QED
    BY <1>4, <2>4, <2>6, <2>7, <2>8
<1>8. CASE draft.file = "complete"
  <2>1. UNCHANGED <<receipt, manifest, ledger>>
    BY <1>8 DEF FinishWrite
  <2>2. /\ UNCHANGED Done /\ UNCHANGED Written(manifest) /\ UNCHANGED Written(ledger)
        /\ \A s : StageIdentity(s)' = StageIdentity(s)
    BY <2>1 DEF Done, StageIdentity, Written
  <2>3. TypeOK' /\ RunnerBound'
    BY <2>1, <2>2, <1>1, <1>3, <1>4, <1>8 DEF TypeOK, RunnerBound, BoundIdentity
  <2>4. ManifestBinds' /\ LedgerBinds' /\ AllHonest'
    BY <2>1, <2>2, <1>1, <1>3 DEF ManifestBinds, LedgerBinds, HandsOver, AllHonest, Honest
  <2>5. KeepsFinished
    BY <2>1, <1>2 DEF KeepsFinished
  <2>6. QED
    BY <1>4, <2>3, <2>4, <2>5
<1>9. QED
  BY <1>1, <1>5, <1>6, <1>7, <1>8 DEF DraftFits

\* A write of a receipt or of the completion begins.
LEMMA SaveStep ==
  ASSUME QualificationInv, Inherit \/ SaveReceipt \/ Complete
  PROVE  QualificationInv' /\ KeepsFinished
<1> USE DEF QualificationInv
<1>1. /\ pc \in {"stage", "recheck"} /\ pc' = "write" /\ draft = NoDraft
      /\ UNCHANGED <<job, srv, me, tool, stage, ran, manifest, ledger>>
  BY DEF Inherit, SaveReceipt, Complete, Save, server, DraftFits
<1>2. UNCHANGED Spark /\ UNCHANGED Written(manifest) /\ UNCHANGED Written(ledger)
      /\ (\A id : Seen(id)' = Seen(id)) /\ (\A s : StageIdentity(s)' = StageIdentity(s))
  BY <1>1 DEF Spark, Written, Seen, StageIdentity
<1>3. /\ Written(manifest) /\ me = BoundIdentity
      /\ ~ Spark /\ Written(ledger) => tool = "restart"
  BY <1>1 DEF RunnerBound, NoDraft
<1>4. draft'.file \in {"receipt", "complete"} /\ StageRuns'
  BY <1>1 DEF Inherit, SaveReceipt, Complete, Save, StageRuns
<1>5. RunnerBound'
  BY <1>1, <1>2, <1>3, <1>4 DEF RunnerBound, BoundIdentity
<1>6. ASSUME NEW r, stage \in Stages, receipt[stage] = NoFile, Save("receipt", r), Honest(stage, r)
      PROVE  QualificationInv' /\ KeepsFinished
  <2>1. receipt' = [receipt EXCEPT ![stage] = Torn] /\ draft' = [file |-> "receipt", data |-> r]
    BY <1>6 DEF Save
  <2>2. /\ UNCHANGED Done /\ receipt'[stage] = Torn
        /\ \A s \in Done : receipt'[s] = receipt[s]
    BY <2>1, <1>6 DEF Done, Written, Torn, NoFile, TypeOK
  <2>3. TypeOK' /\ ManifestBinds' /\ LedgerBinds'
    BY <2>1, <2>2, <1>1, <1>2 DEF TypeOK, ManifestBinds, LedgerBinds, HandsOver
  <2>4. AllHonest' /\ DraftFits'
    BY <2>1, <2>2, <1>1, <1>2, <1>6 DEF AllHonest, Honest, DraftFits
  <2>5. KeepsFinished
    BY <2>2, <1>1 DEF KeepsFinished
  <2>6. QED
    BY <1>4, <1>5, <2>3, <2>4, <2>5
<1>7. CASE Inherit
  <2>1. stage \in job.inherited /\ receipt[stage] = NoFile
    BY <1>7 DEF Inherit, MayInherit
  <2>2. QED
    BY <1>6, <1>7, <2>1 DEF Inherit, Honest, TypeOK
<1>8. CASE SaveReceipt
  <2>1. /\ stage \in Stages \ job.inherited /\ receipt[stage] = NoFile /\ ran = {me}
        /\ tool = "restart" => stage \notin ledger.preserved
    BY <1>8 DEF SaveReceipt, MaySave, Unchanged, StageRuns
  <2>2. StageIdentity(stage) = me
    BY <2>1, <1>3 DEF StageIdentity, BoundIdentity, LedgerBinds, HandsOver
  <2>3. QED
    BY <1>6, <1>8, <2>1, <2>2 DEF SaveReceipt, Honest
<1>9. CASE Complete
  <2>1. UNCHANGED receipt /\ draft'.file = "complete"
    BY <1>9 DEF Complete, Save
  <2>2. UNCHANGED Done
    BY <2>1 DEF Done, Written
  <2>3. TypeOK' /\ ManifestBinds' /\ LedgerBinds' /\ AllHonest' /\ DraftFits'
    BY <2>1, <2>2, <1>1, <1>2
       DEF TypeOK, ManifestBinds, LedgerBinds, HandsOver, AllHonest, Honest, DraftFits
  <2>4. KeepsFinished
    BY <2>1, <1>1 DEF KeepsFinished
  <2>5. QED
    BY <1>4, <1>5, <2>3, <2>4
<1>10. QED
  BY <1>7, <1>8, <1>9

\* Every step keeps the invariant, and finished work.
LEMMA Step ==
  ASSUME QualificationInv, [Next]_vars
  PROVE  QualificationInv' /\ [KeepsFinished]_vars
<1>1. CASE Next
  BY <1>1, QuietStep, BeginStep, FinishWriteStep, SaveStep DEF Next, Runner
<1>2. CASE UNCHANGED vars
  <2>1. UNCHANGED <<job, manifest, receipt, ledger, me, srv, draft, pc, tool, stage, ran>>
    BY <1>2 DEF vars, server, files, runner
  <2>2. RunnerBound' /\ StageRuns'
    BY <2>1 DEF QualificationInv, RunnerBound, StageRuns, BoundIdentity, Written, Spark, Stages, Seen
  <2>3. QED
    BY <1>2, <2>1, <2>2, FilesKept DEF QualificationInv, TypeOK
<1>3. QED
  BY <1>1, <1>2

-----------------------------------------------------------------------------
(* The results.                                                            *)

\* In every state the runner, the manifest, the ledger and the receipts agree on who
\* was measured (qualify_*.py, continue_*.py, restart_continuation.py).
THEOREM EvidenceIsBound == Spec => []QualificationInv
BY Initially, Step, PTL DEF Spec

\* No complete manifest, ledger or receipt is ever rewritten and no finished stage is
\* measured again, whichever runners are started and killed (save's open('x') and the
\* checks before a stage).
THEOREM EvidenceIsKept == Spec => FinishedKept
BY Initially, Step, PTL DEF Spec, FinishedKept

\* A receipt of a measured stage names the one server that answered all of it, the
\* manifest's or the audited continuation's, although the server may be replaced at
\* any time and is only looked at before and after a stage.
THEOREM EvidenceIsHonest == Spec => []ReceiptsHonest
<1>1. QualificationInv => ReceiptsHonest
  BY DEF QualificationInv, AllHonest, Honest, ReceiptsHonest
<1>2. QED
  BY <1>1, EvidenceIsBound, PTL

\* The servers of a reportable directory's receipts are the manifest's and, after
\* a restart, the one that took over.
LEMMA ReportedServers ==
  ASSUME QualificationInv, Reportable
  PROVE  LET answered == UNION {receipt[s].ran : s \in Stages}
         IN  /\ answered \subseteq {manifest.id, BoundIdentity}
             /\ ~ Spark /\ Written(ledger) => ledger.current \in answered
             /\ Written(ledger) => HandsOver(ledger)
<1> USE DEF QualificationInv
<1>1. Done = Stages
  BY DEF Reportable, ReceiptAccepted, Done
<1>2. \A s \in Stages : Honest(s, receipt[s])
  BY <1>1 DEF AllHonest
<1>3. Written(ledger) => HandsOver(ledger)
  BY DEF LedgerBinds
<1>4. \A s \in Stages : receipt[s].ran \subseteq {manifest.id, BoundIdentity}
  BY <1>2, <1>3 DEF Honest, StageIdentity, BoundIdentity, HandsOver
<1>5. ASSUME ~ Spark, Written(ledger)
      PROVE  \E s \in Stages : ledger.current \in receipt[s].ran
  <2>1. PICK s \in Stages : s \notin ledger.preserved
    BY <1>1, <1>3, <1>5 DEF HandsOver
  <2>2. receipt[s].ran = {ledger.current}
    BY <2>1, <1>2, <1>5 DEF Honest, StageIdentity, TypeOK
  <2>3. QED
    BY <2>2
<1>6. QED
  BY <1>3, <1>4, <1>5

\* Whatever interruptions a directory has seen: if report.py accepts it, its stages
\* were measured on servers of one profile, on more than one only with a disclosed
\* restart, and its last snapshot is of one of them.
THEOREM ReportsTellTheTruth == Spec => []ReportTruthful
<1>1. ASSUME QualificationInv, Reportable PROVE ReportTruthful
  <2> DEFINE answered == UNION {receipt[s].ran : s \in Stages}
  <2>1. /\ answered \subseteq {manifest.id, BoundIdentity}
        /\ ~ Spark /\ Written(ledger) => ledger.current \in answered
        /\ Written(ledger) => HandsOver(ledger)
    BY <1>1, ReportedServers
  <2>2. \A r \in answered : r.profile = manifest.id.profile
    BY <2>1 DEF BoundIdentity, HandsOver
  <2>3. Cardinality(answered) > 1 => Written(ledger) /\ complete.continued = "restart"
    <3>1. ASSUME ~ (Written(ledger) /\ ~ Spark) PROVE ~ Cardinality(answered) > 1
      <4>1. answered \subseteq {manifest.id}
        BY <2>1, <3>1 DEF BoundIdentity, HandsOver
      <4>2. answered = {} \/ answered = {manifest.id}
        BY <4>1
      <4>3. Cardinality(answered) \in {0, 1}
        BY <4>2, FS_EmptySet, FS_Singleton
      <4>4. QED
        BY <4>3
    <3>2. ASSUME Written(ledger), ~ Spark PROVE complete.continued = "restart"
      BY <1>1, <2>1, <3>2 DEF Reportable, LedgerDisclosed, HandsOver, Written, NoFile
    <3>3. QED
      BY <3>1, <3>2
  <2>4. Spark \/ Written(ledger) => complete.after \in answered \cup {manifest.id}
    BY <1>1, <2>1 DEF Reportable, FinalRuntime
  <2>5. \A s \in job.inherited : receipt[s].target = complete.after
    BY <1>1 DEF Reportable, ReceiptAccepted, InheritedAccepted, QualificationInv, TypeOK
  <2>6. QED
    BY <2>2, <2>3, <2>4, <2>5 DEF ReportTruthful
<1>2. QualificationInv => ReportTruthful
  BY <1>1 DEF ReportTruthful
<1>3. QED
  BY <1>2, EvidenceIsBound, PTL
=============================================================================
