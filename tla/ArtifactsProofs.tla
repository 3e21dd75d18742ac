-------------------------- MODULE ArtifactsProofs --------------------------
(***************************************************************************)
(* What the stages of MCArtifacts promise, proved for every value of the   *)
(* constants: any number of projections and requests, exports, scripts,    *)
(* commits, ranks, containers, profiles, layers and groups of caches.  One *)
(* section per stage: its invariant, the lemma that each of its steps      *)
(* keeps it, and the theorem, in which a stage that was not chosen stands  *)
(* still.  Placement, the last, takes several sections: its two passes,    *)
(* what they return, blocks, budgets, and the invariant.                   *)
(***************************************************************************)
EXTENDS MCArtifacts, TLAPS, WellFoundedInduction, FiniteSetTheorems

-----------------------------------------------------------------------------
(* The remote projection worker: RemoteWorker.                             *)

Requests == Remote!Requests
Records == Requests \cup {0}

RemoteTypeOK ==
  /\ sends \in Nat /\ holder \in Records
  /\ sent \in [Requests -> WorkerProjections \cup {0}]
  /\ thread \in [Requests -> {"none", "queued", "inside", "quantize", "reply"}]
  /\ result \in [Requests -> Records]
  /\ store \in [WorkerProjections -> Records] /\ accepted \in [WorkerProjections -> Records]
  /\ \A r \in Requests : thread[r] # "none" => sent[r] \in WorkerProjections

\* The lock has one holder, and no checkpoint appears between the look for one
\* and the projection's quantization: what a thread answers with is stored.
LockHeld == \A r \in Requests : thread[r] \in {"inside", "quantize"} => holder = r
StillMissing == \A r \in Requests : thread[r] = "quantize" => store[sent[r]] = 0
AnswerIsStored ==
  \A r \in Requests : thread[r] = "reply" => result[r] # 0 /\ result[r] = store[sent[r]]

RemoteInv == RemoteTypeOK /\ LockHeld /\ StillMissing /\ AnswerIsStored /\ Remote!JournalIsStored

\* The worker starts with nothing stored and no request.
LEMMA RemoteInitially == Remote!Init => RemoteInv
BY RemoteAndPublication DEF Remote!RemoteAssumption, Remote!Init, Remote!None, Remote!Requests, Requests, Records, RemoteInv, RemoteTypeOK,
       LockHeld, StillMissing, AnswerIsStored, Remote!JournalIsStored

\* Every step of the worker and of the coordinator keeps that.
LEMMA RemoteStep ==
  ASSUME RemoteInv, Remote!Next
  PROVE  RemoteInv'
<1> USE DEF RemoteInv, RemoteTypeOK, LockHeld, StillMissing, AnswerIsStored,
            Remote!JournalIsStored, Requests, Records
<1> USE DEF Remote!Requests, Remote!files, Remote!threads, Remote!client, Remote!records, Remote!bounds
<1>1. ASSUME NEW i \in WorkerImages, Remote!Prepare(i) \/ Remote!StartWorker(i)
      PROVE  RemoteInv'
  BY <1>1 DEF Remote!Prepare, Remote!StartWorker
<1>2. CASE Remote!WriteToken \/ Remote!PrepareKilled \/ Remote!ForgetSecret \/ Remote!Qualify
  BY <1>2 DEF Remote!WriteToken, Remote!PrepareKilled, Remote!ForgetSecret, Remote!Qualify
<1>3. CASE Remote!WorkerDies
  BY <1>3 DEF Remote!WorkerDies, Remote!NoThreads
<1>4. CASE Remote!CoordinatorEnds
  BY <1>4 DEF Remote!CoordinatorEnds
<1>5. ASSUME NEW p \in WorkerProjections, Remote!Exhausted(p) \/ Remote!GiveUp(p)
      PROVE  RemoteInv'
  BY <1>5 DEF Remote!Exhausted, Remote!GiveUp
<1>6. ASSUME NEW p \in WorkerProjections, Remote!Send(p)
      PROVE  RemoteInv'
  <2>1. sends' = sends + 1 /\ sends' \in Requests /\ sends' # 0 /\ sends' \in Nat
    BY <1>6, RemoteAndPublication DEF Remote!Send, Remote!RemoteAssumption
  <2>2. CASE UNCHANGED <<sent, thread>>
    BY <1>6, <2>1, <2>2 DEF Remote!Send
  <2>3. CASE /\ sent' = [sent EXCEPT ![sends'] = p]
             /\ thread' = [thread EXCEPT ![sends'] = "queued"]
    BY <1>6, <2>1, <2>3 DEF Remote!Send
  <2>4. QED
    BY <1>6, <2>2, <2>3 DEF Remote!Send
<1>7. ASSUME NEW r \in Requests, Remote!Acquire(r)
      PROVE  RemoteInv'
  BY <1>7 DEF Remote!Acquire
<1>8. ASSUME NEW r \in Requests, Remote!Hit(r)
      PROVE  RemoteInv'
  BY <1>8 DEF Remote!Hit
<1>9. ASSUME NEW r \in Requests, Remote!Miss(r)
      PROVE  RemoteInv'
  BY <1>9 DEF Remote!Miss
<1>10. ASSUME NEW r \in Requests, Remote!Quantized(r)
      PROVE  RemoteInv'
  BY <1>10 DEF Remote!Quantized
<1>11. ASSUME NEW r \in Requests, Remote!Fail(r)
      PROVE  RemoteInv'
  BY <1>11 DEF Remote!Fail
<1>12. ASSUME NEW r \in Requests, Remote!Reply(r)
      PROVE  RemoteInv'
  BY <1>12 DEF Remote!Reply
<1>13. QED
  BY <1>1, <1>2, <1>3, <1>4, <1>5, <1>6, <1>7, <1>8, <1>9, <1>10, <1>11, <1>12 DEF Remote!Next

\* What the coordinator has accepted of a projection is the checkpoint the worker
\* holds for it, through retries, duplicate requests and the death of either
\* (do_POST of remote_exl3_worker.py, under its lock).
THEOREM AnswersAreStored == ArtifactsSpec => []JournalIsStored
<1> DEFINE Inv == stage = "remote" => RemoteInv
<1>1. ArtifactsInit => Inv
  BY RemoteInitially DEF ArtifactsInit
<1>2. ASSUME Inv, [ArtifactsNext]_<<stage, remoteVars, publicationVars, cacheVars, placementVars, servingVars>>
      PROVE  Inv'
  <2>1. CASE stage = "remote" /\ Remote!Next
    BY <1>2, <2>1, RemoteStep DEF ArtifactsNext
  <2>2. CASE stage' = stage /\ (stage = "remote" => UNCHANGED remoteVars)
    BY <1>2, <2>2 DEF remoteVars, RemoteInv, RemoteTypeOK, LockHeld, StillMissing, AnswerIsStored,
                      Remote!JournalIsStored
  <2>3. QED
    BY <1>2, <2>1, <2>2 DEF ArtifactsNext
<1>3. Inv => JournalIsStored
  BY DEF RemoteInv, JournalIsStored
<1>4. QED
  BY <1>1, <1>2, <1>3, PTL DEF ArtifactsSpec

-----------------------------------------------------------------------------
(* Serving: ReleaseRun.                                                    *)

\* Profiles that run.py finds the same are the same wherever it branches.
LEMMA SameRunsAlike ==
  ASSUME NEW p, NEW c, Run!IsProfile(p), Run!IsProfile(c), Run!SameProfile(p, c)
  PROVE  /\ Run!Effective(p) = Run!Effective(c)
         /\ p.native = c.native /\ p.partition = c.partition
<1> USE DEF Run!IsProfile, Run!SameProfile, Run!Compared
<1>1. DOMAIN p = DOMAIN c /\ p.exact = c.exact /\ p.roce = c.roce
  OBVIOUS
<1>2. \A field \in DOMAIN p : Run!Effective(p)[field] = Run!Effective(c)[field]
  BY <1>1 DEF Run!Effective
<1>3. DOMAIN Run!Effective(p) = DOMAIN p /\ DOMAIN Run!Effective(c) = DOMAIN p
  BY <1>1 DEF Run!Effective
<1>4. Run!Effective(p) = Run!Effective(c)
  BY <1>2, <1>3 DEF Run!Effective
<1>5. QED
  BY <1>4

ByRunPy == container.by \in {"start", "restart"} /\ container.flags = "none"

ServingTypeOK ==
  /\ settings \in SettingsFiles /\ report \in Reports
  /\ container = [image |-> container.image, profile |-> container.profile,
                  flags |-> container.flags, state |-> container.state, by |-> container.by]
  /\ container.flags \in Run!Extras
  /\ container.state # "absent" => Run!IsProfile(container.profile)

\* A container that a restart has inspected is qualified, and stays it.
WouldServe ==
  /\ container.state # "absent" /\ container.flags # "repeated"
  /\ container.flags = "none" => Run!Qualified

\* A stopped container keeps its maker's name, so the promise is to the running.
ServingInv ==
  /\ ServingTypeOK
  /\ container.state = "running" /\ container.by = "restart" => container.flags # "repeated"
  /\ container.state = "running" /\ ByRunPy => Run!Qualified
  /\ restarting = "inspected" => WouldServe

\* What a vouched profile is equal to in effect is vouched for too.
LEMMA AcceptedIsVouched ==
  ASSUME settings \in SettingsFiles, Run!Accepted(settings), NEW p,
         Run!Effective(p) = Run!Effective(settings.profile),
         p.native = settings.profile.native, p.partition = settings.profile.partition
  PROVE  Run!Vouches(report, settings.image, p) /\ report \in Reports
<1>1. /\ report = settings.report /\ report \in Reports /\ report.measured
      /\ Run!ValidReport(report, settings) /\ Run!ValidTools(report, settings)
      /\ Run!IsProfile(settings.profile)
  BY CacheAndServing DEF Run!RunAssumption, Run!Accepted
<1>2. ASSUME NEW h \in DOMAIN report.profiles
      PROVE  Run!Effective(report.profiles[h]) = Run!Effective(p)
  <2>1. Run!IsProfile(report.profiles[h]) /\ Run!SameProfile(report.profiles[h], settings.profile)
    BY <1>1, CacheAndServing DEF Run!RunAssumption, Run!ValidReport
  <2>2. Run!Effective(report.profiles[h]) = Run!Effective(settings.profile)
    BY <2>1, <1>1, SameRunsAlike
  <2>3. QED
    BY <2>2
<1>3. QED
  BY <1>1, <1>2 DEF Run!Vouches, Run!ValidReport, Run!ValidTools

\* Every command of run.py, and a pull of an image, keeps that.
LEMMA ServingStep ==
  ASSUME ServingInv, Run!Next
  PROVE  ServingInv'
<1> USE DEF ServingInv, ServingTypeOK, ByRunPy, WouldServe, Run!Qualified
<1>1. ASSUME NEW s \in SettingsFiles, Run!EditSettings(s)
      PROVE  ServingInv'
  BY <1>1 DEF Run!EditSettings
<1>2. ASSUME NEW r \in Reports, Run!EditReport(r)
      PROVE  ServingInv'
  BY <1>2 DEF Run!EditReport
<1>3. ASSUME NEW i, Run!PullAny(i)
      PROVE  ServingInv'
  BY <1>3 DEF Run!PullAny
<1>4. ASSUME NEW i \in Images, NEW p \in Profiles, Run!StartDevelopment(i, p)
      PROVE  ServingInv'
  BY <1>4, CacheAndServing DEF Run!StartDevelopment, Run!Create, Run!RunAssumption
<1>5. CASE Run!DockerStart \/ Run!Ends \/ Run!Stop
  BY <1>5 DEF Run!DockerStart, Run!Ends, Run!Stop
<1>6. CASE Run!DockerRemove \/ Run!Remove
  BY <1>6 DEF Run!Remove, Run!DockerRemove, Run!Absent, Run!Extras
<1>7. ASSUME NEW headroom \in BOOLEAN, Run!Inspect(headroom)
      PROVE  ServingInv'
  <2>1. /\ Run!Accepted(settings) /\ container.state # "absent"
        /\ container.image = settings.image /\ container.flags # "repeated"
        /\ Run!SameProfile(container.profile, settings.profile)
    BY <1>7 DEF Run!Inspect, Run!MayRun, Run!ContainerMatches
  <2>2. Run!Vouches(report, container.image, container.profile) /\ report \in Reports
    BY <2>1, SameRunsAlike, AcceptedIsVouched, CacheAndServing DEF Run!RunAssumption
  <2>3. QED
    BY <1>7, <2>1, <2>2 DEF Run!Inspect
<1>8. CASE Run!Restart
  BY <1>8 DEF Run!Restart
<1>9. CASE Run!RestartFails
  BY <1>9 DEF Run!RestartFails
<1>10. ASSUME NEW headroom \in BOOLEAN, NEW flags \in Run!Extras, Run!Start(flags, headroom)
      PROVE  ServingInv'
  <2>1. Run!Accepted(settings) /\ Run!Create(settings.image, settings.profile, flags, "start")
    BY <1>10 DEF Run!Start, Run!MayRun
  <2>2. Run!IsProfile(settings.profile)
    BY CacheAndServing DEF Run!RunAssumption
  <2>3. Run!Vouches(report, settings.image, settings.profile) /\ report \in Reports
    BY <2>1, AcceptedIsVouched
  <2>4. QED
    BY <2>1, <2>2, <2>3 DEF Run!Create
<1>11. QED
  BY <1>1, <1>2, <1>3, <1>4, <1>5, <1>6, <1>7, <1>8, <1>9, <1>10 DEF Run!Next, Run!Pull

\* A running container that run.py started with no flag of the operator's, or
\* restarted and had inspected, has an image and a profile that a report of as
\* many hosts as the platform vouches for, however settings, reports, images and
\* the container itself changed around the commands and between the two steps of
\* a restart (settings, validate_report and validate_existing_container).
THEOREM OnlyQualifiedIsServed == ArtifactsSpec => []ServedIsQualified
<1> DEFINE Inv == stage = "serving" => ServingInv
<1>1. ArtifactsInit => Inv
  BY DEF ArtifactsInit, Run!Init, Run!Absent, Run!Extras, ServingInv, ServingTypeOK, ByRunPy
<1>2. ASSUME Inv, [ArtifactsNext]_<<stage, remoteVars, publicationVars, cacheVars, placementVars, servingVars>>
      PROVE  Inv'
  <2>1. CASE stage = "serving" /\ Run!Next
    BY <1>2, <2>1, ServingStep DEF ArtifactsNext
  <2>2. CASE stage' = stage /\ (stage = "serving" => UNCHANGED servingVars)
    BY <1>2, <2>2 DEF servingVars, ServingInv, ServingTypeOK, ByRunPy, WouldServe, Run!Qualified
  <2>3. QED
    BY <1>2, <2>1, <2>2 DEF ArtifactsNext
<1>3. Inv => ServedIsQualified
  BY DEF ServingInv, ServingTypeOK, ByRunPy, ServedIsQualified, Run!ServedIsQualified, Run!Extras
<1>4. QED
  BY <1>1, <1>2, <1>3, PTL DEF ArtifactsSpec

-----------------------------------------------------------------------------
(* The compiled caches: CacheBundle.                                       *)

\* The files under compiled names hold a compiler's bytes: in a runtime cache, ...
WholeFiles(d) == \A f \in Cache!Compiled \cap DOMAIN d : d[f].data \in Builds

\* ... and by a bundle's manifest.
WholeRecords(m) == \A f \in Cache!Compiled \cap DOMAIN m : m[f] \in Builds

CacheTypeOK ==
  /\ cache = [z \in Ranks |-> cache[z]]
  /\ bundle = [z \in Ranks \cup {"merged"} |-> bundle[z]]
  /\ \A z \in Ranks \cup {"merged"} : "manifest" \in DOMAIN bundle[z]
  /\ cpc = [z \in Containers |-> cpc[z]] /\ where \in [Containers -> Ranks]
  /\ todo = [z \in Containers |-> todo[z]]
  /\ file = [z \in Containers |-> file[z]] /\ temp = [z \in Containers |-> temp[z]]

\* A seeding has compared the image with its manifest, takes what it writes from
\* there, and removes no file but a temporary one.
SeedingInv ==
  \A z \in Containers :
    /\ cpc[z] \in {"check", "look", "link"} => image # Cache!NoBundle
    /\ cpc[z] \in {"look", "link"} =>
         image.payload = image.manifest /\ todo[z] \subseteq DOMAIN image.manifest
    /\ cpc[z] = "link" => temp[z] \in Temps /\ file[z] \in DOMAIN image.manifest

CacheInv ==
  /\ CacheTypeOK
  /\ \A z \in Ranks : WholeFiles(cache[z])
  /\ \A z \in Ranks \cup {"merged"} : WholeRecords(bundle[z].manifest)
  /\ WholeRecords(image.manifest)
  /\ SeedingInv

\* At first every cache is empty and nothing is bundled.
LEMMA CacheInitially ==
  ASSUME Cache!Init
  PROVE  CacheInv
BY DEF Cache!Init, Cache!NoFiles, Cache!NoBundle, CacheInv, CacheTypeOK, WholeFiles, WholeRecords, SeedingInv

\* Every step keeps that, and is one a seed may take.
LEMMA CacheStep ==
  ASSUME CacheInv, Cache!Next
  PROVE  CacheInv' /\ Cache!SeedStep
<1> USE DEF CacheInv, CacheTypeOK, WholeFiles, WholeRecords, SeedingInv, Cache!SeedStep, Cache!containers, Cache!Put
<1>1. ASSUME NEW c \in Containers, Cache!Export(c)
      PROVE  CacheInv' /\ Cache!SeedStep
  BY <1>1 DEF Cache!Export
<1>2. ASSUME NEW c \in Containers, Cache!CheckSeed(c)
      PROVE  CacheInv' /\ Cache!SeedStep
  BY <1>2 DEF Cache!CheckSeed
<1>3. ASSUME NEW c \in Containers, Cache!SeedLink(c)
      PROVE  CacheInv' /\ Cache!SeedStep
  <2> DEFINE d == cache[where[c]]
             e == IF file[c] \in DOMAIN d THEN d ELSE Cache!Seeded(d, file[c])
  <2>1. /\ Cache!Place(c, e) /\ cpc[c] = "link" /\ temp[c] \in Temps
        /\ image.payload = image.manifest /\ file[c] \in DOMAIN image.manifest
    BY <1>3 DEF Cache!SeedLink, Cache!Place
  <2>2. /\ DOMAIN d \subseteq DOMAIN e
        /\ \A f \in DOMAIN d : e[f] = d[f]
        /\ \A f \in Cache!Compiled \cap DOMAIN e : f \notin DOMAIN d => e[f].data \in Builds
    BY <2>1 DEF Cache!Seeded
  <2>3. DEFINE n == Cache!Without(e, temp[c])
  <2>4. /\ \A f \in Cache!Compiled : f \in DOMAIN n <=> f \in DOMAIN e
        /\ \A f \in Cache!Compiled \cap DOMAIN n : n[f] = e[f]
    BY <2>1, CacheAndServing DEF Cache!Without, Cache!CacheAssumption, Cache!Compiled
  <2>5. cache' = [cache EXCEPT ![where[c]] = n]
    BY <2>1 DEF Cache!Place
  <2> HIDE DEF d, e, n
  <2>6. Cache!SeedStep /\ \A z \in Ranks : WholeFiles(cache'[z])
    BY ZenonT(40), <2>2, <2>4, <2>5 DEF d
  <2>7. QED
    BY <2>1, <2>5, <2>6 DEF Cache!Place
<1>4. ASSUME NEW c \in Containers, Cache!Serve(c) \/ Cache!Stop(c)
      PROVE  CacheInv' /\ Cache!SeedStep
  BY <1>4 DEF Cache!Serve, Cache!Stop
<1>5. ASSUME NEW c \in Containers, NEW z \in Ranks, Cache!StartDevelopment(c, z) \/ Cache!StartRelease(c, z)
      PROVE  CacheInv' /\ Cache!SeedStep
  <2>1. PICK place, r : /\ Cache!Start(c, z, place, r) /\ place \in {"serve", "check"}
                        /\ place = "check" => image # Cache!NoBundle
    BY <1>5 DEF Cache!StartDevelopment, Cache!StartRelease
  <2>2. QED
    BY <2>1 DEF Cache!Start
<1>6. ASSUME NEW c \in Containers, NEW f \in Cache!Compiled, Cache!Compile(c, f)
      PROVE  CacheInv' /\ Cache!SeedStep
  BY <1>6 DEF Cache!Compile
<1>7. ASSUME NEW c \in Containers, NEW x \in Builds, Cache!Rename(c, x)
      PROVE  CacheInv' /\ Cache!SeedStep
  BY <1>7 DEF Cache!Rename
<1>8. ASSUME NEW c \in Containers, NEW f, Cache!SeedSkip(c, f)
      PROVE  CacheInv' /\ Cache!SeedStep
  BY <1>8 DEF Cache!SeedSkip
<1>9. ASSUME NEW c \in Containers, NEW f, NEW t \in Temps, Cache!SeedLook(c, f, t)
      PROVE  CacheInv' /\ Cache!SeedStep
  BY ZenonT(40), <1>9, CacheAndServing DEF Cache!SeedLook, Cache!CacheAssumption, Cache!Compiled
<1>10. ASSUME NEW p \in Ranks, NEW q \in Ranks, Cache!Merge(p, q)
      PROVE  CacheInv' /\ Cache!SeedStep
  BY <1>10 DEF Cache!Merge, Cache!Additions, Cache!Intact, Cache!Agree
<1>11. ASSUME NEW p \in DOMAIN bundle, Cache!Build(p)
      PROVE  CacheInv' /\ Cache!SeedStep
  BY <1>11 DEF Cache!Build
<1>12. ASSUME NEW p \in DOMAIN bundle, NEW f, Cache!Damage(p, f)
      PROVE  CacheInv' /\ Cache!SeedStep
  BY <1>12 DEF Cache!Damage
<1>13. QED
  BY <1>1, <1>2, <1>3, <1>4, <1>5, <1>6, <1>7, <1>8, <1>9, <1>10, <1>11, <1>12 DEF Cache!Next

\* A seeding container adds whole files under names that were free and replaces
\* or removes no compiled file, whatever compiles beside it and wherever it is
\* stopped (seed of cache_bundle.py, run by entrypoint.sh).
THEOREM SeedsReplaceNothing == ArtifactsSpec => SeedAddsOnly
<1> DEFINE Inv == stage = "cache" => CacheInv
<1>1. ArtifactsInit => Inv
  BY CacheInitially DEF ArtifactsInit
<1>2. ASSUME Inv, [ArtifactsNext]_<<stage, remoteVars, publicationVars, cacheVars, placementVars, servingVars>>
      PROVE  Inv' /\ [stage = "cache" => Cache!SeedStep]_cacheVars
  <2>1. CASE stage = "cache" /\ Cache!Next
    BY <1>2, <2>1, CacheStep DEF ArtifactsNext
  <2>2. CASE stage' = stage /\ (stage = "cache" => UNCHANGED cacheVars)
    BY <1>2, <2>2 DEF cacheVars, CacheInv, CacheTypeOK, WholeFiles, WholeRecords, SeedingInv
  <2>3. QED
    BY <1>2, <2>1, <2>2 DEF ArtifactsNext
<1>3. QED
  BY <1>1, <1>2, PTL DEF ArtifactsSpec, SeedAddsOnly

-----------------------------------------------------------------------------
(* Acceptance, publication and installation: Publication.                  *)

IsAccepted(d) ==
  /\ \E e \in Sound : Pub!TensorsOf(d) = Pub!TensorsOf(e.files)
  /\ {"asset", "card"} \subseteq DOMAIN d /\ d["card"] # "edited"
AcceptedOrCut(d) == d = Pub!NoFiles \/ IsAccepted(d)

NamesTensors(d) ==
  "index" \in DOMAIN d => \A t \in DOMAIN d["index"] : d["index"][t] \notin Pub!Others

\* The audit reads tensors only.
LEMMA AuditReadsTensors ==
  ASSUME NEW d, NEW e, Pub!TensorsOf(d) = Pub!TensorsOf(e), NamesTensors(e), Pub!Audited(d)
  PROVE  Pub!Audited(e)
<1>1. /\ \A f : f \notin Pub!Others => (f \in DOMAIN d <=> f \in DOMAIN e)
      /\ \A f : f \notin Pub!Others /\ f \in DOMAIN d => d[f] = e[f]
  <2>1. DOMAIN Pub!TensorsOf(d) = DOMAIN d \ Pub!Others /\ DOMAIN Pub!TensorsOf(e) = DOMAIN e \ Pub!Others
    BY DEF Pub!TensorsOf
  <2>2. /\ \A f \in DOMAIN d \ Pub!Others : Pub!TensorsOf(d)[f] = d[f]
        /\ \A f \in DOMAIN e \ Pub!Others : Pub!TensorsOf(e)[f] = e[f]
    BY DEF Pub!TensorsOf
  <2>3. QED
    BY <2>1, <2>2
<1>2. "index" \in DOMAIN d /\ "index" \in DOMAIN e /\ d["index"] = e["index"]
  BY <1>1 DEF Pub!Audited, Pub!Indexed, Pub!Others
<1>3. \A t \in DOMAIN e["index"] :
        e["index"][t] \notin Pub!Others /\ e["index"][t] \in DOMAIN e /\ d[e["index"][t]] = e[e["index"][t]]
  BY <1>1, <1>2 DEF NamesTensors, Pub!Audited, Pub!Indexed
<1>4. {"core", "routed"} \subseteq DOMAIN e["index"]
  BY <1>2 DEF Pub!Audited, Pub!Namespace, Pub!Routed
<1>5. QED
  BY <1>2, <1>3, <1>4 DEF Pub!Audited, Pub!Indexed, Pub!Namespace, Pub!Uniform, Pub!CoreKept, Pub!CoreBytes

\* What matches an accepted manifest, the Hub's own file aside, is accepted.
LEMMA VerifiedIsAccepted ==
  ASSUME NEW d, NEW m, IsAccepted(m), Pub!Verified(d, m, {".gitattributes"})
  PROVE  IsAccepted(d)
<1>1. Pub!TensorsOf(d) = Pub!TensorsOf(m)
  BY DEF Pub!Verified, Pub!TensorsOf, Pub!Others
<1>2. QED
  BY <1>1 DEF Pub!Verified, IsAccepted

PublicationTypeOK ==
  /\ script = [s \in Scripts |-> script[s]] /\ snapshot = [s \in Scripts |-> snapshot[s]]
  /\ host = [h \in Hosts |-> host[h]]
  /\ \A h \in Hosts : DOMAIN host[h] = {"state", "snapshot", "manifest"}
  /\ recipeCard \in {"first", "second"}

\* What a finished quantization left, its assets and its card aside.
ExportIsOne ==
  quant = "exited" => \E e \in Exports : journal = e.journal /\ Pub!TensorsOf(export) = Pub!TensorsOf(e.files)

\* What an acceptance has seen stays so until it is hashed, whatever other
\* scripts add to the export meanwhile.
Accepting ==
  \A s \in Scripts :
    /\ script[s] \in {"summary", "assets", "copy", "audit", "card", "hash"} => quant = "exited"
    /\ script[s] \in {"assets", "copy", "audit", "card", "hash"} => Pub!Summarized
    /\ script[s] \in {"copy", "audit", "card", "hash"} => "asset" \in DOMAIN export
    /\ script[s] \in {"card", "hash"} => Pub!Audited(export)
    /\ script[s] = "hash" => "card" \in DOMAIN export /\ export["card"] # "edited"

RecordsAccepted ==
  /\ AcceptedOrCut(manifest)
  /\ \A h \in Hosts : AcceptedOrCut(host[h].manifest)
  /\ \A s \in Scripts : script[s] = "published" => IsAccepted(snapshot[s])
  /\ \A h \in Hosts : host[h].state = "installed" => IsAccepted(host[h].snapshot)

PublicationInv == PublicationTypeOK /\ ExportIsOne /\ Accepting /\ RecordsAccepted

\* At first nothing is accepted, published or installed.
LEMMA PublicationInitially ==
  ASSUME Pub!Init
  PROVE  PublicationInv
BY DEF Pub!Init, Pub!Blank, PublicationInv, PublicationTypeOK, ExportIsOne, Accepting, RecordsAccepted, AcceptedOrCut

\* The export at hashing, audited and with its card, is accepted.
LEMMA HashedIsAccepted ==
  ASSUME PublicationInv, NEW s \in Scripts, script[s] = "hash"
  PROVE  IsAccepted(export)
<1>1. PICK e \in Exports : journal = e.journal /\ Pub!TensorsOf(export) = Pub!TensorsOf(e.files)
  BY DEF PublicationInv, ExportIsOne, Accepting
<1>2. Pub!Complete(e.journal) /\ Pub!Audited(export)
  BY <1>1 DEF PublicationInv, Accepting, Pub!Summarized
<1>3. NamesTensors(e.files)
  BY RemoteAndPublication DEF Pub!PublicationAssumption, NamesTensors
<1>4. Pub!Audited(e.files)
  BY <1>1, <1>2, <1>3, AuditReadsTensors
<1>5. e \in Sound
  BY <1>2, <1>4, RemoteAndPublication DEF Pub!PublicationAssumption, Pub!Audited, Pub!Indexed
<1>6. QED
  BY <1>1, <1>5 DEF IsAccepted, PublicationInv, Accepting

\* An asset or a card changes no tensor, so an audit stays passed.
LEMMA OthersChangeNoTensor ==
  ASSUME PublicationInv, quant = "exited", NEW d,
         Pub!TensorsOf(d) = Pub!TensorsOf(export), Pub!Audited(export)
  PROVE  Pub!Audited(d)
<1>1. PICK e \in Exports : Pub!TensorsOf(export) = Pub!TensorsOf(e.files)
  BY DEF PublicationInv, ExportIsOne
<1>2. NamesTensors(e.files)
  BY RemoteAndPublication DEF Pub!PublicationAssumption, NamesTensors
<1>3. "index" \in DOMAIN d => "index" \in DOMAIN e.files /\ d["index"] = e.files["index"]
  <2>1. DOMAIN Pub!TensorsOf(d) = DOMAIN d \ Pub!Others /\ DOMAIN Pub!TensorsOf(e.files) = DOMAIN e.files \ Pub!Others
    BY DEF Pub!TensorsOf
  <2>2. /\ \A f \in DOMAIN d \ Pub!Others : Pub!TensorsOf(d)[f] = d[f]
        /\ \A f \in DOMAIN e.files \ Pub!Others : Pub!TensorsOf(e.files)[f] = e.files[f]
    BY DEF Pub!TensorsOf
  <2>3. QED
    BY <1>1, <2>1, <2>2 DEF Pub!Others
<1>4. NamesTensors(d)
  BY <1>2, <1>3 DEF NamesTensors
<1>5. QED
  BY <1>4, AuditReadsTensors

\* Every step of the scripts, of a kill and of the Hub keeps that.
LEMMA PublicationStep ==
  ASSUME PublicationInv, Pub!Next
  PROVE  PublicationInv'
<1> USE DEF PublicationInv, PublicationTypeOK, RecordsAccepted, Pub!rhea, Pub!bounds, Pub!scripts, Pub!Goto, Pub!GateAt
<1>1. ASSUME NEW s \in Scripts, Pub!Run(s)
      PROVE  PublicationInv'
  BY <1>1 DEF Pub!Run, ExportIsOne, Accepting, Pub!Summarized
<1>2. ASSUME NEW s \in Scripts, Pub!Watch(s) \/ Pub!CheckState(s)
      PROVE  PublicationInv'
  BY <1>2 DEF Pub!Watch, Pub!CheckState, ExportIsOne, Accepting, Pub!Summarized
<1>3. ASSUME NEW s \in Scripts, Pub!Summarize(s)
      PROVE  PublicationInv'
  BY <1>3 DEF Pub!Summarize, ExportIsOne, Accepting, Pub!Summarized
<1>4. ASSUME NEW s \in Scripts, Pub!Finalize(s) \/ Pub!FinishCopy(s) \/ Pub!InstallCard(s)
      PROVE  PublicationInv'
  <2>1. quant = "exited" /\ (script[s] = "copy" => "asset" \in DOMAIN export)
    BY <1>4 DEF Accepting, Pub!Finalize, Pub!FinishCopy, Pub!InstallCard
  <2>2. /\ Pub!TensorsOf(export') = Pub!TensorsOf(export)
        /\ "asset" \in DOMAIN export => "asset" \in DOMAIN export'
        /\ "card" \in DOMAIN export => "card" \in DOMAIN export'
        /\ "card" \in DOMAIN export' /\ export'["card"] = "edited"
             => "card" \in DOMAIN export /\ export["card"] = "edited"
    BY <1>4, <2>1 DEF Pub!Finalize, Pub!FinishCopy, Pub!InstallCard, Pub!Over, Pub!OneFile,
                      Pub!TensorsOf, Pub!Others, Accepting
  <2>3. Pub!Audited(export) => Pub!Audited(export')
    BY <2>1, <2>2, OthersChangeNoTensor
  <2>4. /\ script[s] = "card" /\ script'[s] = "hash" => "card" \in DOMAIN export' /\ export'["card"] # "edited"
        /\ script'[s] \in {"audit", "copy"} => "asset" \in DOMAIN export'
    BY <1>4, <2>1 DEF Pub!Finalize, Pub!FinishCopy, Pub!InstallCard, Pub!Over, Pub!OneFile
  <2>5. ExportIsOne'
    BY <1>4, <2>2 DEF Pub!Finalize, Pub!FinishCopy, Pub!InstallCard, ExportIsOne
  <2>6. /\ script' = [script EXCEPT ![s] = script'[s]]
        /\ \/ script[s] = "assets" /\ script'[s] \in {"audit", "copy"}
           \/ script[s] = "copy" /\ script'[s] = "audit"
           \/ script[s] = "card" /\ script'[s] = "hash"
    BY <1>4 DEF Pub!Finalize, Pub!FinishCopy, Pub!InstallCard
  <2>7. UNCHANGED <<quant, journal, recipeCard, manifest, snapshot, host>>
    BY <1>4 DEF Pub!Finalize, Pub!FinishCopy, Pub!InstallCard
  <2>8. Accepting'
    <3> SUFFICES ASSUME NEW z \in Scripts
                 PROVE  Accepting!(z)'
      BY DEF Accepting
    <3>1. CASE z = s
      BY <2>1, <2>2, <2>3, <2>4, <2>6, <2>7, <3>1 DEF Accepting, Pub!Summarized
    <3>2. CASE z # s
      <4>1. script'[z] = script[z]
        BY <2>6, <3>2
      <4>2. QED
        BY <2>1, <2>2, <2>3, <2>7, <4>1 DEF Accepting, Pub!Summarized
    <3>3. QED
      BY <3>1, <3>2
  <2>9. QED
    BY <2>5, <2>6, <2>7, <2>8
<1>5. ASSUME NEW s \in Scripts, Pub!Audit(s)
      PROVE  PublicationInv'
  BY <1>5 DEF Pub!Audit, ExportIsOne, Accepting, Pub!Summarized
<1>6. ASSUME NEW s \in Scripts, Pub!Hash(s)
      PROVE  PublicationInv'
  BY <1>6, HashedIsAccepted DEF Pub!Hash, ExportIsOne, Accepting, Pub!Summarized, AcceptedOrCut
<1>7. ASSUME NEW s \in Scripts, Pub!Trust(s) \/ Pub!VerifyLocal(s) \/ Pub!Upload(s) \/ Pub!ReadRevision(s) \/ Pub!Fetch(s)
      PROVE  PublicationInv'
  BY <1>7 DEF Pub!Trust, Pub!VerifyLocal, Pub!Upload, Pub!ReadRevision, Pub!Fetch, ExportIsOne, Accepting, Pub!Summarized
<1>8. ASSUME NEW s \in Scripts, Pub!VerifySnapshot(s)
      PROVE  PublicationInv'
  <2>1. Pub!Verified(snapshot[s], manifest, {".gitattributes"}) => IsAccepted(snapshot[s])
    BY VerifiedIsAccepted DEF Pub!Verified, AcceptedOrCut
  <2>2. QED
    BY <1>8, <2>1 DEF Pub!VerifySnapshot, ExportIsOne, Accepting, Pub!Summarized
<1>9. ASSUME NEW s \in Scripts, Pub!Kill(s)
      PROVE  PublicationInv'
  BY <1>9 DEF Pub!Kill, ExportIsOne, Accepting, Pub!Summarized, AcceptedOrCut
<1>10. ASSUME NEW h \in Hosts, Pub!InstallFetch(h)
      PROVE  PublicationInv'
  BY <1>10 DEF Pub!InstallFetch, ExportIsOne, Accepting, Pub!Summarized
<1>11. ASSUME NEW h \in Hosts, Pub!InstallVerify(h)
      PROVE  PublicationInv'
  <2>1. Pub!Verified(host[h].snapshot, host[h].manifest, {".gitattributes"}) => IsAccepted(host[h].snapshot)
    BY VerifiedIsAccepted DEF Pub!Verified, AcceptedOrCut
  <2>2. UNCHANGED <<quant, journal, export, recipeCard, manifest, script, snapshot>>
    BY <1>11 DEF Pub!InstallVerify
  <2>3. CASE host' = [host EXCEPT ![h] = Pub!Blank]
    BY <2>2, <2>3 DEF Pub!Blank, ExportIsOne, Accepting, Pub!Summarized, AcceptedOrCut
  <2>4. CASE /\ Pub!Verified(host[h].snapshot, host[h].manifest, {".gitattributes"})
             /\ host' = [host EXCEPT ![h] = [host[h] EXCEPT !.state = "installed", !.manifest = Pub!NoFiles]]
    <3>1. /\ host'[h].state = "installed" /\ host'[h].snapshot = host[h].snapshot
          /\ host'[h].manifest = Pub!NoFiles /\ DOMAIN host'[h] = {"state", "snapshot", "manifest"}
      BY <2>4
    <3>2. host' = [z \in Hosts |-> host'[z]] /\ \A z \in Hosts : z # h => host'[z] = host[z]
      BY <2>4
    <3>3. PublicationTypeOK' /\ RecordsAccepted'
      BY <2>1, <2>2, <2>4, <3>1, <3>2 DEF AcceptedOrCut
    <3>4. QED
      BY <2>2, <3>3 DEF ExportIsOne, Accepting, Pub!Summarized
  <2>5. QED
    BY <1>11, <2>3, <2>4 DEF Pub!InstallVerify
<1>12. CASE Pub!QuantizationEnds
  BY <1>12 DEF Pub!QuantizationEnds, ExportIsOne, Accepting
<1>13. CASE Pub!QuantizeAgain
  BY <1>13 DEF Pub!QuantizeAgain, ExportIsOne, Accepting
<1>14. CASE Pub!UpdateCard \/ Pub!EditOnHub
  BY <1>14 DEF Pub!UpdateCard, Pub!EditOnHub, ExportIsOne, Accepting, Pub!Summarized
<1>15. QED
  BY <1>1, <1>2, <1>3, <1>4, <1>5, <1>6, <1>7, <1>8, <1>9, <1>10, <1>11, <1>12, <1>13, <1>14
     DEF Pub!Next, Pub!ScriptStep

\* What is published and what a host installs holds the tensors of a sound export
\* with its assets and its card, whatever ran twice, was killed or was edited on
\* the Hub in between (accept_export.sh, publish_export.sh, install_snapshot.sh).
THEOREM OnlyAcceptedIsInstalled == ArtifactsSpec => []InstalledIsAccepted
<1> DEFINE Inv == stage = "publication" => PublicationInv
<1>1. ArtifactsInit => Inv
  BY PublicationInitially DEF ArtifactsInit
<1>2. ASSUME Inv, [ArtifactsNext]_<<stage, remoteVars, publicationVars, cacheVars, placementVars, servingVars>>
      PROVE  Inv'
  <2>1. CASE stage = "publication" /\ Pub!Next
    BY <1>2, <2>1, PublicationStep DEF ArtifactsNext
  <2>2. CASE stage' = stage /\ (stage = "publication" => UNCHANGED publicationVars)
    BY <1>2, <2>2 DEF publicationVars, PublicationInv, PublicationTypeOK, ExportIsOne, Accepting, RecordsAccepted,
                      Pub!Summarized
  <2>3. QED
    BY <1>2, <2>1, <2>2 DEF ArtifactsNext
<1>3. Inv => InstalledIsAccepted
  BY DEF PublicationInv, RecordsAccepted, IsAccepted, InstalledIsAccepted, Pub!InstalledIsAccepted, Pub!Published, Pub!Installed
<1>4. QED
  BY <1>1, <1>2, <1>3, PTL DEF ArtifactsSpec

-----------------------------------------------------------------------------
(* Placement: CacheGroups.  First what every number and every pass over a  *)
(* list is made of.                                                        *)

\* A set of naturals has a least member.
LEMMA LeastMember ==
  ASSUME NEW S \in SUBSET Nat, S # {}
  PROVE  \E m \in S : \A n \in S : m <= n
<1>1. IsWellFoundedOn(OpToRel(<, Nat), Nat)
  BY NatLessThanWellFounded
<1>2. PICK m \in S : \A n \in S : <<n, m>> \notin OpToRel(<, Nat)
  BY <1>1, WFMin
<1>3. ASSUME NEW n \in S PROVE m <= n
  <2>1. m \in Nat /\ n \in Nat
    OBVIOUS
  <2>2. ~ (n < m)
    BY <1>2, <2>1 DEF OpToRel
  <2>3. QED
    BY <2>1, <2>2
<1>4. QED
  BY <1>3

\* A pass reaches each of its steps.
LEMMA StepByStep ==
  ASSUME NEW n \in Nat, NEW S, 0 \in S, \A i \in 0..n : i # n /\ i \in S => i + 1 \in S
  PROVE  \A i \in 0..n : i \in S
<1> DEFINE Bad == {i \in 0..n : i \notin S}
<1>1. SUFFICES ASSUME Bad # {} PROVE FALSE
  OBVIOUS
<1>2. Bad \in SUBSET Nat
  OBVIOUS
<1>3. PICK m \in Bad : \A i \in Bad : m <= i
  <2> HIDE DEF Bad
  <2>1. QED
    BY <1>1, <1>2, LeastMember
<1>4. m \in 0..n /\ m \notin S /\ m # 0
  OBVIOUS
<1>5. m - 1 \in 0..n /\ m - 1 # n /\ ~ (m <= m - 1)
  BY <1>4
<1>6. m - 1 \in S
  BY <1>3, <1>5
<1>7. (m - 1) + 1 \in S
  BY <1>5, <1>6
<1>8. QED
  BY <1>4, <1>7

\* A pass over a list, as a function of how far it has come.
PassSteps(n, D) == [1..n -> [D -> D]]
IsPass(f, n, base, step) == f[0] = base /\ \A i \in 1..n : f[i] = step[i][f[i - 1]]

\* Such a pass exists: the recursive definition defines something.
LEMMA PassExists ==
  ASSUME NEW n \in Nat, NEW D, NEW base \in D, NEW step \in PassSteps(n, D)
  PROVE  \E f \in [0..n -> D] : IsPass(f, n, base, step)
<1> DEFINE S == {c \in 0..n : \E f \in [0..c -> D] : IsPass(f, c, base, step)}
<1>1. 0 \in S
  <2> DEFINE f == [i \in 0..0 |-> base]
  <2>1. f \in [0..0 -> D] /\ IsPass(f, 0, base, step)
    BY DEF IsPass
  <2>2. 0 \in 0..n
    OBVIOUS
  <2> HIDE DEF f
  <2>3. QED
    BY <2>1, <2>2
<1>2. ASSUME NEW c \in 0..n, c # n, c \in S
      PROVE  c + 1 \in S
  <2>1. PICK f \in [0..c -> D] : IsPass(f, c, base, step)
    BY <1>2
  <2>2. c + 1 \in 1..n /\ c \in 0..c /\ c \in Nat
    BY <1>2
  <2> DEFINE g == [i \in 0..(c + 1) |-> IF i = c + 1 THEN step[c + 1][f[c]] ELSE f[i]]
  <2>3. step[c + 1][f[c]] \in D
    BY <2>2 DEF PassSteps
  <2>4. g \in [0..(c + 1) -> D]
    BY <2>2, <2>3
  <2>5. ASSUME NEW i \in 1..(c + 1)
        PROVE  g[i] = step[i][g[i - 1]]
    <3>1. CASE i = c + 1
      BY <2>2, <3>1
    <3>2. CASE i # c + 1
      <4>1. i \in 1..c /\ i \in 0..(c + 1) /\ i - 1 \in 0..(c + 1) /\ i - 1 # c + 1
        BY <2>2, <3>2
      <4>2. g[i] = f[i] /\ g[i - 1] = f[i - 1]
        BY <4>1, <3>2
      <4>3. QED
        BY <2>1, <4>1, <4>2 DEF IsPass
    <3>3. QED
      BY <3>1, <3>2
  <2>6. IsPass(g, c + 1, base, step)
    BY <2>1, <2>2, <2>5 DEF IsPass
  <2>7. c + 1 \in 0..n
    BY <2>2
  <2> HIDE DEF g
  <2>8. QED
    BY <2>4, <2>6, <2>7
<1>3. n \in S
  <2>1. n \in 0..n
    OBVIOUS
  <2> HIDE DEF S
  <2>2. QED
    BY <1>1, <1>2, <2>1, StepByStep
<1>4. QED
  BY <1>3

\* What layers take together, as it is added up layer by layer.
LEMMA TotalIs ==
  ASSUME NEW bytes, NEW names \in SUBSET Groups!Layers, \A z \in names : bytes[z] \in Nat
  PROVE  \E f \in [0..(LayerCount + 1) -> Nat] :
           /\ f[0] = 0
           /\ \A z \in Groups!Layers : f[z + 1] = f[z] + (IF z \in names THEN bytes[z] ELSE 0)
           /\ Groups!Total(bytes, names) = f[LayerCount + 1]
<1> DEFINE n == LayerCount + 1
           own(i) == IF i - 1 \in names THEN bytes[i - 1] ELSE 0
           step == [i \in 1..n |-> [x \in Nat |-> x + own(i)]]
           upto == CHOOSE f : f = [z \in 0..n |-> IF z = 0 THEN 0 ELSE f[z - 1] + own(z)]
<1>1. LayerCount \in Nat /\ n \in Nat
  BY CacheAndServing DEF Groups!PlacementAssumption
<1>2. \A i \in 1..n : own(i) \in Nat
  OBVIOUS
<1> HIDE DEF own
<1>3. \E f : f = [z \in 0..n |-> IF z = 0 THEN 0 ELSE f[z - 1] + own(z)]
  <2>1. step \in PassSteps(n, Nat) /\ 0 \in Nat
    BY <1>2 DEF PassSteps
  <2> HIDE DEF step
  <2>2. PICK f \in [0..n -> Nat] : IsPass(f, n, 0, step)
    BY <1>1, <2>1, PassExists
  <2> USE DEF step
  <2>3. ASSUME NEW i \in 0..n PROVE f[i] = IF i = 0 THEN 0 ELSE f[i - 1] + own(i)
    <3>1. CASE i # 0
      <4>1. i \in 1..n /\ i - 1 \in 0..n
        BY <1>1, <3>1
      <4>2. f[i] = step[i][f[i - 1]] /\ f[i - 1] \in Nat
        BY <2>2, <3>1, <4>1 DEF IsPass
      <4>3. QED
        BY <3>1, <4>1, <4>2
    <3>2. CASE i = 0
      BY <2>2, <3>2 DEF IsPass
    <3>3. QED
      BY <3>1, <3>2
  <2>4. f = [z \in 0..n |-> IF z = 0 THEN 0 ELSE f[z - 1] + own(z)]
    BY <2>3
  <2>5. QED
    BY <2>4
<1>4. upto = [z \in 0..n |-> IF z = 0 THEN 0 ELSE upto[z - 1] + own(z)]
  BY <1>3
<1>5. Groups!Total(bytes, names) = upto[n]
  BY DEF Groups!Total, own
<1> HIDE DEF upto
<1>6. upto[0] = 0
  BY <1>1, <1>4
<1>7. ASSUME NEW i \in 0..n, i # n
      PROVE  upto[i + 1] = upto[i] + own(i + 1)
  <2>1. i + 1 \in 0..n /\ i + 1 # 0 /\ (i + 1) - 1 = i
    BY <1>1, <1>7
  <2>2. QED
    BY <1>4, <2>1
<1>8. ASSUME NEW i \in 0..n PROVE upto[i] \in Nat
  <2> DEFINE S == {c \in 0..n : upto[c] \in Nat}
  <2>1. 0 \in S
    BY <1>1, <1>6
  <2>2. ASSUME NEW c \in 0..n, c # n, c \in S PROVE c + 1 \in S
    <3>1. c + 1 \in 0..n /\ c + 1 \in 1..n
      BY <1>1, <2>2
    <3>2. QED
      BY <1>2, <1>7, <2>2, <3>1
  <2> HIDE DEF S
  <2>3. i \in S
    BY <1>1, <2>1, <2>2, StepByStep
  <2>4. QED
    BY <2>3 DEF S
<1>9. upto \in [0..n -> Nat]
  BY <1>4, <1>8
<1>10. ASSUME NEW z \in Groups!Layers
       PROVE  upto[z + 1] = upto[z] + (IF z \in names THEN bytes[z] ELSE 0)
  <2>1. z \in 0..n /\ z # n /\ (z + 1) - 1 = z
    BY <1>1 DEF Groups!Layers
  <2>2. QED
    BY <1>7, <2>1 DEF own
<1>11. QED
  BY <1>5, <1>6, <1>9, <1>10

\* More layers take no less.
LEMMA TotalOfMore ==
  ASSUME NEW bytes, NEW more \in SUBSET Groups!Layers, NEW names \in SUBSET more,
         \A z \in more : bytes[z] \in Nat
  PROVE  /\ Groups!Total(bytes, names) \in Nat /\ Groups!Total(bytes, more) \in Nat
         /\ Groups!Total(bytes, names) <= Groups!Total(bytes, more)
<1> DEFINE n == LayerCount + 1
<1>1. LayerCount \in Nat /\ n \in Nat
  BY CacheAndServing DEF Groups!PlacementAssumption
<1>2. PICK f \in [0..n -> Nat] :
           /\ f[0] = 0
           /\ \A z \in Groups!Layers : f[z + 1] = f[z] + (IF z \in names THEN bytes[z] ELSE 0)
           /\ Groups!Total(bytes, names) = f[n]
  BY TotalIs
<1>3. PICK g \in [0..n -> Nat] :
           /\ g[0] = 0
           /\ \A z \in Groups!Layers : g[z + 1] = g[z] + (IF z \in more THEN bytes[z] ELSE 0)
           /\ Groups!Total(bytes, more) = g[n]
  <2>1. more \in SUBSET Groups!Layers /\ \A z \in more : bytes[z] \in Nat
    OBVIOUS
  <2>2. QED
    BY <2>1, TotalIs
<1> DEFINE S == {c \in 0..n : f[c] <= g[c]}
<1>4. 0 \in S
  BY <1>1, <1>2, <1>3
<1>5. ASSUME NEW c \in 0..n, c # n, c \in S PROVE c + 1 \in S
  <2>1. c \in Groups!Layers /\ c + 1 \in 0..n
    BY <1>1, <1>5 DEF Groups!Layers
  <2>2. f[c + 1] = f[c] + (IF c \in names THEN bytes[c] ELSE 0)
    BY <1>2, <2>1
  <2>3. g[c + 1] = g[c] + (IF c \in more THEN bytes[c] ELSE 0)
    BY <1>3, <2>1
  <2>4. f[c + 1] <= g[c + 1]
    BY <1>5, <2>2, <2>3
  <2>5. QED
    BY <2>1, <2>4
<1>6. n \in 0..n
  BY <1>1
<1>7. n \in S
  <2> HIDE DEF S
  <2>1. QED
    BY <1>1, <1>4, <1>5, <1>6, StepByStep
<1>8. f[n] \in Nat /\ g[n] \in Nat
  BY <1>6
<1>9. QED
  BY <1>2, <1>3, <1>7, <1>8

\* One layer takes what it takes, in any company no more than the company.
LEMMA TotalOfOne ==
  ASSUME NEW bytes, NEW z \in Groups!Layers, bytes[z] \in Nat
  PROVE  Groups!Total(bytes, {z}) = bytes[z] /\ Groups!Total(bytes, {}) = 0
<1> DEFINE n == LayerCount + 1
<1>1. LayerCount \in Nat /\ n \in Nat /\ n \in 0..n
  BY CacheAndServing DEF Groups!PlacementAssumption
<1>2. ASSUME NEW names \in SUBSET {z}
      PROVE  Groups!Total(bytes, names) = IF z \in names THEN bytes[z] ELSE 0
  <2>1. PICK f \in [0..n -> Nat] :
           /\ f[0] = 0
           /\ \A y \in Groups!Layers : f[y + 1] = f[y] + (IF y \in names THEN bytes[y] ELSE 0)
           /\ Groups!Total(bytes, names) = f[n]
    <3>1. names \in SUBSET Groups!Layers /\ \A y \in names : bytes[y] \in Nat
      OBVIOUS
    <3>2. QED
      BY <3>1, TotalIs
  <2> DEFINE S == {c \in 0..n : f[c] = IF z \in names /\ z < c THEN bytes[z] ELSE 0}
  <2>2. 0 \in S
    BY <1>1, <2>1 DEF Groups!Layers
  <2>3. ASSUME NEW c \in 0..n, c # n, c \in S PROVE c + 1 \in S
    <3>1. c \in Groups!Layers /\ c + 1 \in 0..n
      BY <1>1, <2>3 DEF Groups!Layers
    <3>2. f[c + 1] = f[c] + (IF c \in names THEN bytes[c] ELSE 0)
      BY <2>1, <3>1
    <3>3. f[c + 1] = IF z \in names /\ z < c + 1 THEN bytes[z] ELSE 0
      BY <2>3, <3>1, <3>2 DEF Groups!Layers
    <3>4. QED
      BY <3>1, <3>3
  <2>4. n \in S
    <3> HIDE DEF S
    <3>1. QED
      BY <1>1, <2>2, <2>3, StepByStep
  <2>5. z < n
    BY <1>1 DEF Groups!Layers
  <2>6. QED
    BY <2>1, <2>4, <2>5
<1>3. QED
  BY <1>2

\* The largest of a bounded set of numbers is one of them; that of none is 0.
LEMMA LargestIs ==
  ASSUME NEW S \in SUBSET Nat, NEW top \in Nat, \A x \in S : x <= top
  PROVE  /\ Groups!Largest(S) \in Nat
         /\ \A x \in S : x <= Groups!Largest(S)
         /\ S # {} => Groups!Largest(S) \in S
         /\ S = {} => Groups!Largest(S) = 0
<1>1. CASE S = {}
  BY <1>1 DEF Groups!Largest
<1>2. CASE S # {}
  <2> DEFINE Over == {t \in Nat : top - t \in S}
  <2>1. Over \in SUBSET Nat
    OBVIOUS
  <2>2. \A x \in S : top - x \in Over
    <3>1. ASSUME NEW x \in S PROVE top - x \in Over
      <4>1. x \in Nat /\ x <= top
        OBVIOUS
      <4>2. top - x \in Nat /\ top - (top - x) = x
        BY <4>1
      <4>3. QED
        BY <4>2
    <3>2. QED
      BY <3>1
  <2>3. PICK t \in Over : \A c \in Over : t <= c
    <3>1. Over # {}
      BY <1>2, <2>2
    <3> HIDE DEF Over
    <3>2. QED
      BY <2>1, <3>1, LeastMember
  <2>4. top - t \in S /\ \A y \in S : top - t >= y
    BY <2>2, <2>3
  <2>5. Groups!Max(S) \in S /\ \A y \in S : Groups!Max(S) >= y
    BY <2>4 DEF Groups!Max
  <2>6. QED
    BY <1>2, <2>5 DEF Groups!Largest
<1>3. QED
  BY <1>1, <1>2

-----------------------------------------------------------------------------
(* Groups, their widths, and what a state group may be wide.               *)

ToSet(s) == Groups!ToSet(s)
Layer == Groups!Layers
Placements == [Groups!Workers -> SUBSET Layer]

\* What a model brings, group by group.
LEMMA ModelIs ==
  ASSUME NEW m \in Models
  PROVE  /\ m.page \in [Layer -> Nat] /\ \A z \in Layer : m.page[z] # 0
         /\ m.window \in [Layer -> Nat]
         /\ m.groups \in Seq(Groups!CacheGroup) /\ Groups!Distinct(m.groups)
         /\ \A i \in DOMAIN m.groups :
              /\ m.groups[i] \in Groups!CacheGroup /\ m.groups[i].layers # <<>>
              /\ Groups!Uniform(m, ToSet(m.groups[i].layers))
         /\ Groups!Names(m.groups) = Layer
<1>1. m \in Groups!Caches
  BY CacheAndServing DEF Groups!PlacementAssumption
<1>2. /\ \A g \in ToSet(m.groups) : g.layers # <<>> /\ Groups!Uniform(m, ToSet(g.layers))
      /\ Groups!Distinct(m.groups) /\ Groups!Names(m.groups) = Layer
  BY CacheAndServing DEF Groups!PlacementAssumption, ToSet, Layer
<1>3. m.groups \in Seq(Groups!CacheGroup)
  BY <1>1 DEF Groups!Caches
<1>4. ASSUME NEW i \in DOMAIN m.groups
      PROVE  m.groups[i] \in Groups!CacheGroup /\ m.groups[i] \in ToSet(m.groups)
  BY <1>3, <1>4 DEF ToSet, Groups!ToSet
<1>5. m.page \in [Layer -> Nat \ {0}] /\ m.window \in [Layer -> Nat]
  BY <1>1 DEF Groups!Caches, Layer
<1>6. m.page \in [Layer -> Nat] /\ \A z \in Layer : m.page[z] # 0
  BY <1>5
<1>7. QED
  BY <1>2, <1>3, <1>4, <1>5, <1>6

\* The names in a group are layers.
LEMMA NamesAreLayers ==
  ASSUME NEW g \in Groups!CacheGroup
  PROVE  ToSet(g.layers) \in SUBSET Layer
BY DEF Groups!CacheGroup, ToSet, Groups!ToSet, Layer

\* More layers are no narrower.
LEMMA WidthOfMore ==
  ASSUME NEW m \in Models, NEW more \in SUBSET Layer, NEW names \in SUBSET more
  PROVE  /\ Groups!Width(m, names) \in Nat /\ Groups!Width(m, more) \in Nat
         /\ Groups!Width(m, names) <= Groups!Width(m, more)
<1>1. \A z \in more : m.page[z] \in Nat
  BY ModelIs
<1>2. more \in SUBSET Groups!Layers
  BY DEF Layer
<1>3. QED
  BY <1>1, <1>2, TotalOfMore DEF Groups!Width

\* One layer is as wide as its page, none have no width.
LEMMA WidthOfOne ==
  ASSUME NEW m \in Models, NEW z \in Layer
  PROVE  Groups!Width(m, {z}) = m.page[z] /\ Groups!Width(m, {}) = 0
<1>1. m.page[z] \in Nat /\ z \in Groups!Layers
  BY ModelIs DEF Layer
<1>2. QED
  BY <1>1, TotalOfOne DEF Groups!Width

\* No set of layers is wider than all of them.
LEMMA WidthIsBounded ==
  ASSUME NEW m \in Models, NEW names \in SUBSET Layer
  PROVE  /\ Groups!Width(m, names) \in Nat
         /\ Groups!Width(m, names) <= Groups!Width(m, Layer)
         /\ \A z \in names : m.page[z] <= Groups!Width(m, names)
<1>1. Layer \in SUBSET Layer /\ names \in SUBSET Layer
  OBVIOUS
<1>2. Groups!Width(m, names) \in Nat /\ Groups!Width(m, names) <= Groups!Width(m, Layer)
  BY <1>1, WidthOfMore
<1>3. ASSUME NEW z \in names PROVE m.page[z] <= Groups!Width(m, names)
  <2>1. z \in Layer /\ {z} \in SUBSET names
    OBVIOUS
  <2>2. Groups!Width(m, {z}) = m.page[z]
    BY <2>1, WidthOfOne
  <2>3. Groups!Width(m, {z}) <= Groups!Width(m, names)
    BY <2>1, WidthOfMore
  <2>4. QED
    BY <2>2, <2>3
<1>4. QED
  BY <1>2, <1>3

\* The widest of some groups on a worker.
Widest(m, S, on) == Groups!Largest({Groups!Width(m, ToSet(g.layers) \cap on) : g \in S})

\* The widest group is one of them, or there is none.
LEMMA WidestIs ==
  ASSUME NEW m \in Models, NEW on \in SUBSET Layer, NEW S \in SUBSET Groups!CacheGroup
  PROVE  /\ Widest(m, S, on) \in Nat
         /\ \A g \in S : Groups!Width(m, ToSet(g.layers) \cap on) <= Widest(m, S, on)
         /\ S # {} => \E g \in S : Widest(m, S, on) = Groups!Width(m, ToSet(g.layers) \cap on)
         /\ S = {} => Widest(m, S, on) = 0
         /\ Widest(m, S, on) <= Groups!Width(m, Layer)
<1> DEFINE wide(g) == Groups!Width(m, ToSet(g.layers) \cap on)
           W == {wide(g) : g \in S}
           top == Groups!Width(m, Layer)
<1>1. ASSUME NEW g \in S PROVE wide(g) \in Nat /\ wide(g) <= top
  <2>1. ToSet(g.layers) \cap on \in SUBSET Layer
    BY NamesAreLayers
  <2>2. QED
    BY <2>1, WidthIsBounded
<1>2. top \in Nat
  <2>1. Layer \in SUBSET Layer
    OBVIOUS
  <2>2. QED
    BY <2>1, WidthIsBounded
<1> HIDE DEF wide, top
<1>3. W \in SUBSET Nat /\ \A x \in W : x <= top
  BY <1>1
<1>4. (\A g \in S : wide(g) \in W) /\ (S # {} => W # {}) /\ (S = {} => W = {})
  OBVIOUS
<1>5. Widest(m, S, on) = Groups!Largest(W)
  BY DEF Widest, wide
<1>6. /\ Groups!Largest(W) \in Nat
      /\ \A x \in W : x <= Groups!Largest(W)
      /\ W # {} => Groups!Largest(W) \in W
      /\ W = {} => Groups!Largest(W) = 0
  <2> HIDE DEF W
  <2>1. QED
    BY <1>2, <1>3, LargestIs
<1>7. S # {} => \E g \in S : Widest(m, S, on) = wide(g)
  BY <1>4, <1>5, <1>6
<1>8. Widest(m, S, on) <= top
  <2>1. CASE S = {}
    BY <1>2, <1>4, <1>5, <1>6, <2>1
  <2>2. CASE S # {}
    BY <1>1, <1>7, <2>2
  <2>3. QED
    BY <2>1, <2>2
<1>9. QED
  BY <1>4, <1>5, <1>6, <1>7, <1>8 DEF wide, top

History(m) == {g \in ToSet(m.groups) : ~Groups!IsState(m, g)}

\* The groups and the state layers of a model are groups and layers.
LEMMA HistoryIs ==
  ASSUME NEW m \in Models
  PROVE  /\ ToSet(m.groups) \in SUBSET Groups!CacheGroup /\ History(m) \in SUBSET Groups!CacheGroup
         /\ Groups!StateLayers(m) \in SUBSET Layer
<1>1. ToSet(m.groups) \in SUBSET Groups!CacheGroup
  BY ModelIs DEF ToSet, Groups!ToSet
<1>2. \A g \in ToSet(m.groups) : ToSet(g.layers) \in SUBSET Layer
  BY <1>1, NamesAreLayers
<1>3. QED
  BY <1>1, <1>2 DEF History, Groups!StateLayers, ToSet

\* The limit of a worker is the width of its widest history group, or the page of
\* its widest state layer.
LEMMA LimitIs ==
  ASSUME NEW m \in Models, NEW on \in SUBSET Layer
  PROVE  /\ Groups!Limit(m, on) \in Nat
         /\ \A g \in History(m) : Groups!Width(m, ToSet(g.layers) \cap on) <= Groups!Limit(m, on)
         /\ \A z \in Groups!StateLayers(m) \cap on : m.page[z] <= Groups!Limit(m, on)
         /\ \/ Groups!Limit(m, on) = 0
            \/ \E g \in History(m) : Groups!Limit(m, on) = Groups!Width(m, ToSet(g.layers) \cap on)
            \/ \E z \in Groups!StateLayers(m) \cap on : Groups!Limit(m, on) = m.page[z]
<1> DEFINE anchor == Widest(m, History(m), on)
           states == Groups!StateLayers(m) \cap on
           S == {anchor} \cup {m.page[z] : z \in states}
           top == Groups!Width(m, Layer)
<1>1. Groups!Limit(m, on) = Groups!Largest(S)
  BY DEF Groups!Limit, Groups!Anchor, Widest, History, ToSet
<1>2. /\ anchor \in Nat /\ anchor <= top
      /\ \A g \in History(m) : Groups!Width(m, ToSet(g.layers) \cap on) <= anchor
      /\ History(m) # {} => \E g \in History(m) : anchor = Groups!Width(m, ToSet(g.layers) \cap on)
      /\ History(m) = {} => anchor = 0
  BY HistoryIs, WidestIs
<1>3. \A z \in states : m.page[z] \in Nat /\ m.page[z] <= top
  <2>1. Layer \in SUBSET Layer
    OBVIOUS
  <2>2. \A z \in Layer : m.page[z] <= top
    BY <2>1, WidthIsBounded
  <2>3. QED
    BY <2>2, HistoryIs, ModelIs
<1>4. top \in Nat
  <2>1. Layer \in SUBSET Layer
    OBVIOUS
  <2>2. QED
    BY <2>1, WidthIsBounded
<1> HIDE DEF anchor, states, top
<1>5. S \in SUBSET Nat /\ (\A x \in S : x <= top) /\ anchor \in S /\ (\A z \in states : m.page[z] \in S)
  BY <1>2, <1>3
<1>6. Groups!Largest(S) \in Nat /\ Groups!Largest(S) \in S /\ \A x \in S : x <= Groups!Largest(S)
  <2>1. S # {}
    BY <1>5
  <2> HIDE DEF S
  <2>2. QED
    BY <1>4, <1>5, <2>1, LargestIs
<1>7. ASSUME NEW g \in History(m)
      PROVE  Groups!Width(m, ToSet(g.layers) \cap on) <= Groups!Largest(S)
  <2> DEFINE wide == Groups!Width(m, ToSet(g.layers) \cap on)
  <2>1. ToSet(g.layers) \cap on \in SUBSET Layer
    OBVIOUS
  <2>2. wide \in Nat
    BY <2>1, WidthIsBounded
  <2>3. wide <= anchor /\ anchor <= Groups!Largest(S)
    BY <1>2, <1>5, <1>6
  <2> HIDE DEF wide, S
  <2>4. wide <= Groups!Largest(S)
    BY <1>2, <1>6, <2>2, <2>3
  <2>5. QED
    BY <2>4 DEF wide
<1>8. CASE Groups!Largest(S) = anchor
  <2>1. \/ anchor = 0 
        \/ \E g \in History(m) : anchor = Groups!Width(m, ToSet(g.layers) \cap on)
    BY <1>2
  <2>2. QED
    BY <1>1, <1>5, <1>6, <1>7, <1>8, <2>1 DEF states
<1>9. CASE \E z \in states : Groups!Largest(S) = m.page[z]
  BY <1>1, <1>5, <1>6, <1>7, <1>9 DEF states
<1>10. QED
  BY <1>6, <1>8, <1>9

\* One state layer always fits, and what fits is wide at most as the limit.
LEMMA OneFits ==
  ASSUME NEW m \in Models, NEW h \in Placements, NEW z \in Groups!StateLayers(m)
  PROVE  Groups!Fits(m, h, {z})
<1>1. ASSUME NEW w \in Groups!Workers
      PROVE  Groups!Width(m, {z} \cap h[w]) <= Groups!Limit(m, h[w])
  <2>1. h[w] \in SUBSET Layer /\ z \in Layer
    BY HistoryIs DEF Placements
  <2>2. Groups!Limit(m, h[w]) \in Nat
    BY <2>1, LimitIs
  <2>3. CASE z \in h[w]
    <3>1. {z} \cap h[w] = {z} /\ z \in Groups!StateLayers(m) \cap h[w]
      BY <2>3
    <3>2. Groups!Width(m, {z}) = m.page[z]
      BY <2>1, WidthOfOne
    <3>3. m.page[z] <= Groups!Limit(m, h[w])
      BY <2>1, <3>1, LimitIs
    <3>4. QED
      BY <3>1, <3>2, <3>3
  <2>4. CASE z \notin h[w]
    <3>1. {z} \cap h[w] = {}
      BY <2>4
    <3>2. Groups!Width(m, {}) = 0
      BY <2>1, WidthOfOne
    <3>3. QED
      BY <2>2, <3>1, <3>2
  <2>5. QED
    BY <2>3, <2>4
<1>2. QED
  BY <1>1 DEF Groups!Fits

-----------------------------------------------------------------------------
(* The first pass: a state group is split into what is retained and what   *)
(* overflows.                                                              *)

\* No value twice in a list.
Single(s) == \A x, y \in DOMAIN s : s[x] = s[y] => x = y

\* A list with one entry more.
LEMMA OneMore ==
  ASSUME NEW S, NEW s \in Seq(S), NEW z \in S
  PROVE  /\ Append(s, z) \in Seq(S) /\ Append(s, z) # <<>>
         /\ DOMAIN Append(s, z) = DOMAIN s \cup {Len(s) + 1} /\ Len(s) + 1 \notin DOMAIN s
         /\ \A x \in DOMAIN s : Append(s, z)[x] = s[x]
         /\ Append(s, z)[Len(s) + 1] = z
OBVIOUS

\* One name more; it appears once if it was not there.
LEMMA OneMoreNamed ==
  ASSUME NEW S, NEW s \in Seq(S), NEW z \in S
  PROVE  /\ ToSet(Append(s, z)) = ToSet(s) \cup {z}
         /\ Single(s) /\ z \notin ToSet(s) => Single(Append(s, z))
<1>1. /\ DOMAIN Append(s, z) = DOMAIN s \cup {Len(s) + 1} /\ Len(s) + 1 \notin DOMAIN s
      /\ \A x \in DOMAIN s : Append(s, z)[x] = s[x]
      /\ Append(s, z)[Len(s) + 1] = z
  BY OneMore
<1> DEFINE t == Append(s, z)
           last == Len(s) + 1
<1> HIDE DEF t, last
<1>2. /\ DOMAIN t = DOMAIN s \cup {last} /\ last \notin DOMAIN s
      /\ (\A x \in DOMAIN s : t[x] = s[x]) /\ t[last] = z
  BY <1>1 DEF t, last
<1>3. ToSet(t) = ToSet(s) \cup {z}
  BY <1>2 DEF ToSet, Groups!ToSet
<1>4. Single(s) /\ z \notin ToSet(s) => Single(t)
  BY <1>2 DEF Single, ToSet, Groups!ToSet
<1>5. QED
  BY <1>3, <1>4 DEF t

Spilt == [eagle : BOOLEAN, layer : Layer]
Halves == [kept : Seq(Layer), over : Seq(Spilt)]
SpiltLayers(over) == {over[x].layer : x \in DOMAIN over}
SpiltOnce(over) == \A x, y \in DOMAIN over : over[x].layer = over[y].layer => x = y

\* One spilt layer more.
LEMMA OneMoreSpilt ==
  ASSUME NEW over \in Seq(Spilt), NEW one \in Spilt
  PROVE  /\ SpiltLayers(Append(over, one)) = SpiltLayers(over) \cup {one.layer}
         /\ SpiltOnce(over) /\ one.layer \notin SpiltLayers(over) => SpiltOnce(Append(over, one))
<1> DEFINE t == Append(over, one)
           last == Len(over) + 1
<1>1. /\ DOMAIN t = DOMAIN over \cup {last} /\ last \notin DOMAIN over
      /\ (\A x \in DOMAIN over : t[x] = over[x]) /\ t[last] = one
  BY OneMore
<1> HIDE DEF t, last
<1>2. SpiltLayers(t) = SpiltLayers(over) \cup {one.layer}
  BY <1>1 DEF SpiltLayers
<1>3. SpiltOnce(over) /\ one.layer \notin SpiltLayers(over) => SpiltOnce(t)
  BY <1>1 DEF SpiltOnce, SpiltLayers
<1>4. QED
  BY <1>2, <1>3 DEF t

\* The first layers of a group, in two halves that share none.
InHalves(m, h, g, acc, i) ==
  /\ acc \in Halves
  /\ Single(acc.kept) /\ SpiltOnce(acc.over)
  /\ ToSet(acc.kept) \cap SpiltLayers(acc.over) = {}
  /\ ToSet(acc.kept) \cup SpiltLayers(acc.over) = {g.layers[x] : x \in 1..i}
  /\ \A x \in DOMAIN acc.over : acc.over[x].eagle = g.eagle
  /\ i # 0 => acc.kept # <<>> /\ Groups!Fits(m, h, ToSet(acc.kept))

Joined(kept, z) == ToSet(kept) \cup {z}

Retained(m, h, g, acc, z, new) ==
  /\ new \in Halves
  /\ \/ /\ Groups!Fits(m, h, Joined(acc.kept, z))
        /\ new.kept = Append(acc.kept, z) /\ new.over = acc.over
     \/ /\ ~Groups!Fits(m, h, Joined(acc.kept, z))
        /\ new.kept = acc.kept /\ new.over = Append(acc.over, [eagle |-> g.eagle, layer |-> z])

\* What one layer does to the two halves.
LEMMA RetainIs ==
  ASSUME NEW m, NEW h, NEW g \in Groups!CacheGroup, NEW acc \in Halves, NEW z \in Layer
  PROVE  Retained(m, h, g, acc, z, Groups!Retain(m, h, g, acc, z))
<1> DEFINE one == [eagle |-> g.eagle, layer |-> z]
           more == Append(acc.kept, z)
           spilt == Append(acc.over, one)
<1>1. one \in Spilt /\ acc.kept \in Seq(Layer) /\ acc.over \in Seq(Spilt)
  BY DEF Groups!CacheGroup, Halves, Spilt
<1>2. more \in Seq(Layer) /\ spilt \in Seq(Spilt)
  <2> HIDE DEF one
  <2>1. QED
    BY <1>1, OneMore
<1> HIDE DEF more, spilt
<1>3. /\ [acc EXCEPT !.kept = more] \in Halves /\ [acc EXCEPT !.kept = more].kept = more
      /\ [acc EXCEPT !.kept = more].over = acc.over
      /\ [acc EXCEPT !.over = spilt] \in Halves /\ [acc EXCEPT !.over = spilt].over = spilt
      /\ [acc EXCEPT !.over = spilt].kept = acc.kept
  BY <1>1, <1>2 DEF Halves
<1>4. Groups!Retain(m, h, g, acc, z)
        = IF Groups!Fits(m, h, Joined(acc.kept, z))
          THEN [acc EXCEPT !.kept = more] ELSE [acc EXCEPT !.over = spilt]
  BY DEF Groups!Retain, Joined, ToSet, more, spilt
<1>5. CASE Groups!Fits(m, h, Joined(acc.kept, z))
  BY <1>3, <1>4, <1>5 DEF Retained, more, spilt, one
<1>6. CASE ~Groups!Fits(m, h, Joined(acc.kept, z))
  BY <1>3, <1>4, <1>6 DEF Retained, more, spilt, one
<1>7. QED
  BY <1>5, <1>6

\* A layer is retained or spilt, once, and what is retained fits.
LEMMA RetainKeeps ==
  ASSUME NEW m \in Models, NEW h \in Placements, NEW g \in ToSet(m.groups), Groups!IsState(m, g),
         Single(g.layers), NEW i \in 1..Len(g.layers), NEW acc, InHalves(m, h, g, acc, i - 1)
  PROVE  InHalves(m, h, g, Groups!Retain(m, h, g, acc, g.layers[i]), i)
<1> DEFINE z == g.layers[i]
           kept == acc.kept
           over == acc.over
           new == Groups!Retain(m, h, g, acc, z)
           one == [eagle |-> g.eagle, layer |-> z]
           Before == {g.layers[x] : x \in 1..(i - 1)}
<1>1. g \in Groups!CacheGroup /\ g.layers \in Seq(Layer) /\ z \in Layer /\ g.eagle \in BOOLEAN
  BY HistoryIs DEF Groups!CacheGroup, Layer
<1>2. /\ acc \in Halves /\ kept \in Seq(Layer) /\ over \in Seq(Spilt)
      /\ Single(kept) /\ SpiltOnce(over) /\ ToSet(kept) \cap SpiltLayers(over) = {}
      /\ ToSet(kept) \cup SpiltLayers(over) = Before
      /\ \A x \in DOMAIN over : over[x].eagle = g.eagle
      /\ i # 1 => kept # <<>> /\ Groups!Fits(m, h, ToSet(kept))
  BY DEF InHalves, Halves
<1>3. {g.layers[x] : x \in 1..i} = Before \cup {z} /\ (i = 1 => Before = {})
  <2>1. 1..i = 1..(i - 1) \cup {i} /\ (i = 1 => 1..(i - 1) = {})
    OBVIOUS
  <2>2. QED
    BY <2>1
<1>4. z \notin Before
  <2>1. SUFFICES ASSUME NEW x \in 1..(i - 1), g.layers[x] = z PROVE FALSE
    OBVIOUS
  <2>2. x \in DOMAIN g.layers /\ i \in DOMAIN g.layers /\ x # i
    BY <1>1
  <2>3. QED
    BY <2>1, <2>2 DEF Single
<1>5. Groups!Fits(m, h, {z})
  <2>1. z \in ToSet(g.layers)
    BY <1>1 DEF ToSet, Groups!ToSet
  <2>2. z \in Groups!StateLayers(m)
    BY <2>1 DEF Groups!StateLayers, ToSet
  <2>3. QED
    BY <2>2, OneFits
<1>6. one \in Spilt /\ one.layer = z /\ one.eagle = g.eagle
  BY <1>1 DEF Spilt
<1> HIDE DEF z, kept, over, new, Before
<1>7. Retained(m, h, g, acc, z, new)
  <2>1. acc \in Halves /\ z \in Layer /\ g \in Groups!CacheGroup
    BY <1>1, <1>2
  <2>2. QED
    BY <2>1, RetainIs DEF new
<1>8. /\ new \in Halves
      /\ \/ /\ Groups!Fits(m, h, Joined(kept, z))
            /\ new.kept = Append(kept, z) /\ new.over = over
         \/ /\ ~Groups!Fits(m, h, Joined(kept, z))
            /\ new.kept = kept /\ new.over = Append(over, one)
  BY <1>7 DEF Retained, kept, over
<1> HIDE DEF one
<1>9. ASSUME Groups!Fits(m, h, Joined(kept, z)), new.kept = Append(kept, z), new.over = over
      PROVE  InHalves(m, h, g, new, i)
  <2>1. ToSet(new.kept) = ToSet(kept) \cup {z} /\ Single(new.kept) /\ new.kept # <<>>
    BY <1>1, <1>2, <1>4, <1>9, OneMore, OneMoreNamed
  <2>2. QED
    BY <1>2, <1>3, <1>4, <1>8, <1>9, <2>1 DEF InHalves, Joined, z, new
<1>10. ASSUME ~Groups!Fits(m, h, Joined(kept, z)), new.kept = kept, new.over = Append(over, one)
      PROVE  InHalves(m, h, g, new, i)
  <2>1. SpiltLayers(new.over) = SpiltLayers(over) \cup {z} /\ SpiltOnce(new.over)
    BY <1>2, <1>4, <1>6, <1>10, OneMoreSpilt
  <2>2. \A x \in DOMAIN new.over : new.over[x].eagle = g.eagle
    <3>1. /\ DOMAIN new.over = DOMAIN over \cup {Len(over) + 1}
          /\ \A x \in DOMAIN over : new.over[x] = over[x]
          /\ new.over[Len(over) + 1] = one
      BY <1>2, <1>6, <1>10, OneMore
    <3>2. QED
      BY <1>2, <1>6, <3>1
  <2>3. i # 1
    <3>1. SUFFICES ASSUME i = 1 PROVE FALSE
      OBVIOUS
    <3>2. ToSet(kept) = {}
      BY <1>2, <1>3, <3>1
    <3>3. Joined(kept, z) = {z}
      BY <3>2 DEF Joined
    <3>4. QED
      BY <1>5, <1>10, <3>3
  <2>4. QED
    BY <1>2, <1>3, <1>4, <1>8, <1>10, <2>1, <2>2, <2>3 DEF InHalves, Joined, z, new
<1>11. QED
  <2>1. InHalves(m, h, g, new, i)
    BY <1>8, <1>9, <1>10
  <2>2. QED
    BY <2>1 DEF new, z

\* A state group keeps some of its layers, which fit, and spills the others.
LEMMA SplitIs ==
  ASSUME NEW m \in Models, NEW h \in Placements, NEW g \in ToSet(m.groups), Single(g.layers)
  PROVE  /\ Groups!IsState(m, g) => InHalves(m, h, g, Groups!Split(m, h, g), Len(g.layers))
         /\ ~Groups!IsState(m, g) => /\ Groups!Split(m, h, g).kept = g.layers
                                     /\ Groups!Split(m, h, g).over = <<>>
<1>1. CASE ~Groups!IsState(m, g)
  BY <1>1 DEF Groups!Split
<1>2. CASE Groups!IsState(m, g)
  <2> DEFINE n == Len(g.layers)
             base == [kept |-> <<>>, over |-> <<>>]
             next(acc, i) == Groups!Retain(m, h, g, acc, g.layers[i])
             step == [i \in 1..n |-> [acc \in Halves |-> next(acc, i)]]
             upto == CHOOSE f : f = [i \in 0..n |-> IF i = 0 THEN base ELSE next(f[i - 1], i)]
  <2>1. g \in Groups!CacheGroup /\ g.layers \in Seq(Layer) /\ n \in Nat
    BY HistoryIs DEF Groups!CacheGroup, Layer
  <2>2. Groups!Split(m, h, g) = upto[n]
    BY <1>2 DEF Groups!Split
  <2>3. base \in Halves
    BY DEF Halves
  <2>4. ASSUME NEW i \in 1..n, NEW acc \in Halves PROVE next(acc, i) \in Halves
    <3>1. g.layers[i] \in Layer
      BY <2>1
    <3>2. QED
      BY <2>1, <3>1, RetainIs DEF Retained
  <2>5. InHalves(m, h, g, base, 0)
    BY <2>3 DEF InHalves, Single, SpiltOnce, SpiltLayers, ToSet, Groups!ToSet
  <2>6. ASSUME NEW i \in 1..n, NEW acc, InHalves(m, h, g, acc, i - 1)
        PROVE  InHalves(m, h, g, next(acc, i), i)
    BY <1>2, <2>6, RetainKeeps
  <2> HIDE DEF next, base
  <2>7. \E f : f = [i \in 0..n |-> IF i = 0 THEN base ELSE next(f[i - 1], i)]
    <3>1. step \in PassSteps(n, Halves)
      BY <2>4 DEF PassSteps
    <3> HIDE DEF step
    <3>2. PICK f \in [0..n -> Halves] : IsPass(f, n, base, step)
      BY <2>1, <2>3, <3>1, PassExists
    <3>3. ASSUME NEW i \in 0..n PROVE f[i] = IF i = 0 THEN base ELSE next(f[i - 1], i)
      <4>1. CASE i # 0
        <5>1. i \in 1..n /\ i - 1 \in 0..n
          BY <2>1, <4>1
        <5>2. f[i] = step[i][f[i - 1]] /\ f[i - 1] \in Halves
          BY <3>2, <5>1 DEF IsPass
        <5>3. QED
          BY <4>1, <5>1, <5>2 DEF step
      <4>2. CASE i = 0
        BY <3>2, <4>2 DEF IsPass
      <4>3. QED
        BY <4>1, <4>2
    <3>4. f = [i \in 0..n |-> IF i = 0 THEN base ELSE next(f[i - 1], i)]
      BY <3>3
    <3>5. QED
      BY <3>4
  <2>8. upto = [i \in 0..n |-> IF i = 0 THEN base ELSE next(upto[i - 1], i)]
    BY <2>7
  <2> HIDE DEF upto
  <2> DEFINE S == {i \in 0..n : InHalves(m, h, g, upto[i], i)}
  <2>9. 0 \in S
    BY <2>1, <2>5, <2>8
  <2>10. ASSUME NEW i \in 0..n, i # n, i \in S PROVE i + 1 \in S
    <3>1. i + 1 \in 1..n /\ i + 1 \in 0..n /\ (i + 1) - 1 = i
      BY <2>1, <2>10
    <3>2. upto[i + 1] = next(upto[i], i + 1)
      BY <2>8, <3>1
    <3>3. InHalves(m, h, g, upto[i], (i + 1) - 1)
      BY <2>10, <3>1
    <3>4. QED
      BY <2>6, <3>1, <3>2, <3>3
  <2>11. n \in S
    <3>1. n \in 0..n
      BY <2>1
    <3> HIDE DEF S
    <3>2. QED
      BY <2>1, <2>9, <2>10, <3>1, StepByStep
  <2>12. QED
    BY <1>2, <2>2, <2>11
<1>3. QED
  BY <1>1, <1>2

\* Two lists, one after the other: where each entry is from and goes.
From(u, x, s, t) == \/ x \in DOMAIN s /\ u[x] = s[x]
                    \/ x \notin DOMAIN s /\ x - Len(s) \in DOMAIN t /\ u[x] = t[x - Len(s)]

\* One list after the other.
LEMMA JoinIs ==
  ASSUME NEW S, NEW s \in Seq(S), NEW t \in Seq(S)
  PROVE  /\ s \o t \in Seq(S) /\ Len(s \o t) = Len(s) + Len(t)
         /\ \A x \in DOMAIN (s \o t) : From(s \o t, x, s, t)
         /\ \A x \in DOMAIN s : x \in DOMAIN (s \o t) /\ (s \o t)[x] = s[x]
         /\ \A y \in DOMAIN t : Len(s) + y \in DOMAIN (s \o t) /\ (s \o t)[Len(s) + y] = t[y]
BY DEF From

\* Two lists of spilt layers, one after the other.
LEMMA SpiltJoin ==
  ASSUME NEW s \in Seq(Spilt), NEW t \in Seq(Spilt)
  PROVE  /\ SpiltLayers(s \o t) = SpiltLayers(s) \cup SpiltLayers(t)
         /\ SpiltOnce(s) /\ SpiltOnce(t) /\ SpiltLayers(s) \cap SpiltLayers(t) = {}
              => SpiltOnce(s \o t)
<1> DEFINE u == s \o t
<1>1. /\ \A x \in DOMAIN u : From(u, x, s, t)
      /\ \A x \in DOMAIN s : x \in DOMAIN u /\ u[x] = s[x]
      /\ \A y \in DOMAIN t : Len(s) + y \in DOMAIN u /\ u[Len(s) + y] = t[y]
  BY JoinIs
<1>2. u \in Seq(Spilt) /\ \A x \in DOMAIN u : x \in Nat
  <2>1. u \in Seq(Spilt)
    BY JoinIs
  <2> HIDE DEF u
  <2>2. QED
    BY <2>1
<1> HIDE DEF u
<1>3. SpiltLayers(u) = SpiltLayers(s) \cup SpiltLayers(t)
  <2>1. ASSUME NEW x \in DOMAIN u PROVE u[x].layer \in SpiltLayers(s) \cup SpiltLayers(t)
    BY <1>1 DEF From, SpiltLayers
  <2>2. ASSUME NEW x \in DOMAIN s PROVE s[x].layer \in SpiltLayers(u)
    BY <1>1 DEF SpiltLayers
  <2>3. ASSUME NEW y \in DOMAIN t PROVE t[y].layer \in SpiltLayers(u)
    BY <1>1 DEF SpiltLayers
  <2>4. QED
    BY <2>1, <2>2, <2>3 DEF SpiltLayers
<1>4. ASSUME SpiltOnce(s), SpiltOnce(t), SpiltLayers(s) \cap SpiltLayers(t) = {},
             NEW x \in DOMAIN u, NEW y \in DOMAIN u, u[x].layer = u[y].layer
      PROVE  x = y
  <2>1. From(u, x, s, t) /\ From(u, y, s, t) /\ x \in Nat /\ y \in Nat /\ Len(s) \in Nat
    BY <1>1, <1>2
  <2>2. CASE x \in DOMAIN s /\ y \in DOMAIN s
    BY <1>4, <2>1, <2>2 DEF From, SpiltOnce
  <2>3. CASE x \notin DOMAIN s /\ y \notin DOMAIN s
    <3>1. x - Len(s) = y - Len(s)
      BY <1>4, <2>1, <2>3 DEF From, SpiltOnce
    <3>2. QED
      BY <2>1, <3>1
  <2>4. CASE x \in DOMAIN s /\ y \notin DOMAIN s
    BY <1>4, <2>1, <2>4 DEF From, SpiltLayers
  <2>5. CASE x \notin DOMAIN s /\ y \in DOMAIN s
    BY <1>4, <2>1, <2>5 DEF From, SpiltLayers
  <2>6. QED
    BY <2>2, <2>3, <2>4, <2>5
<1>5. QED
  BY <1>3, <1>4 DEF u, SpiltOnce

\* A layer has one group.
LEMMA OneGroup ==
  ASSUME NEW m \in Models, NEW i \in DOMAIN m.groups
  PROVE  /\ m.groups[i] \in ToSet(m.groups) /\ m.groups[i] \in Groups!CacheGroup
         /\ Single(m.groups[i].layers) /\ ToSet(m.groups[i].layers) \in SUBSET Layer
         /\ \A j \in DOMAIN m.groups :
              j # i => ToSet(m.groups[i].layers) \cap ToSet(m.groups[j].layers) = {}
<1>1. m.groups[i] \in ToSet(m.groups) /\ m.groups[i] \in Groups!CacheGroup
  BY ModelIs DEF ToSet, Groups!ToSet
<1>2. Groups!Distinct(m.groups)
  BY ModelIs
<1>3. Single(m.groups[i].layers)
  BY <1>2 DEF Groups!Distinct, Single
<1>4. ASSUME NEW j \in DOMAIN m.groups, j # i
      PROVE  ToSet(m.groups[i].layers) \cap ToSet(m.groups[j].layers) = {}
  BY <1>2, <1>4 DEF Groups!Distinct, ToSet, Groups!ToSet
<1>5. QED
  BY <1>1, <1>3, <1>4, NamesAreLayers

Over(m, h, i) == Groups!Split(m, h, m.groups[i]).over

\* What a group spills was in it.
LEMMA OverIs ==
  ASSUME NEW m \in Models, NEW h \in Placements, NEW i \in DOMAIN m.groups
  PROVE  /\ Over(m, h, i) \in Seq(Spilt) /\ SpiltOnce(Over(m, h, i))
         /\ SpiltLayers(Over(m, h, i)) \in SUBSET ToSet(m.groups[i].layers)
         /\ \A x \in DOMAIN Over(m, h, i) : Over(m, h, i)[x].eagle = m.groups[i].eagle
         /\ ~Groups!IsState(m, m.groups[i]) => Over(m, h, i) = <<>>
<1> DEFINE g == m.groups[i]
           acc == Groups!Split(m, h, g)
<1>1. g \in ToSet(m.groups) /\ g \in Groups!CacheGroup /\ Single(g.layers)
  BY OneGroup
<1>2. CASE Groups!IsState(m, g)
  <2>1. InHalves(m, h, g, acc, Len(g.layers))
    <3> HIDE DEF g
    <3>1. QED
      BY <1>1, <1>2, SplitIs
  <2>2. g.layers \in Seq(Layer)
    BY <1>1 DEF Groups!CacheGroup, Layer
  <2> HIDE DEF acc, g
  <2>3. {g.layers[x] : x \in 1..Len(g.layers)} = ToSet(g.layers)
    BY <2>2 DEF ToSet, Groups!ToSet
  <2>4. acc.over \in Seq(Spilt)
    BY <2>1 DEF InHalves, Halves
  <2>5. QED
    BY <1>2, <2>1, <2>3, <2>4 DEF InHalves, Over, acc, g
<1>3. CASE ~Groups!IsState(m, g)
  <2>1. acc.over = <<>>
    <3> HIDE DEF g
    <3>1. QED
      BY <1>1, <1>3, SplitIs
  <2>2. Over(m, h, i) = <<>>
    BY <2>1 DEF Over
  <2>3. QED
    BY <2>2 DEF SpiltOnce, SpiltLayers
<1>4. QED
  BY <1>2, <1>3

\* What the first groups spill, one after the other.
Spill(m, h, over, i) ==
  /\ over \in Seq(Spilt) /\ SpiltOnce(over)
  /\ \A x \in DOMAIN over : \E j \in DOMAIN m.groups :
       j <= i /\ over[x].layer \in SpiltLayers(Over(m, h, j)) /\ over[x].eagle = m.groups[j].eagle
  /\ \A j \in DOMAIN m.groups : j <= i => SpiltLayers(Over(m, h, j)) \in SUBSET SpiltLayers(over)

\* At first nothing is spilt.
LEMMA NoSpill == ASSUME NEW m \in Models, NEW h PROVE Spill(m, h, <<>>, 0)
<1>1. \A j \in DOMAIN m.groups : ~ (j <= 0)
  BY ModelIs
<1>2. QED
  BY <1>1 DEF Spill, SpiltOnce

\* The next group adds what it spills.
LEMMA SpillGrows ==
  ASSUME NEW m \in Models, NEW h \in Placements, NEW i \in DOMAIN m.groups,
         NEW over, Spill(m, h, over, i - 1)
  PROVE  Spill(m, h, over \o Over(m, h, i), i)
<1> DEFINE t == Over(m, h, i)
           u == over \o t
<1>1. /\ over \in Seq(Spilt) /\ SpiltOnce(over)
      /\ \A x \in DOMAIN over : \E j \in DOMAIN m.groups :
           j <= i - 1 /\ over[x].layer \in SpiltLayers(Over(m, h, j)) /\ over[x].eagle = m.groups[j].eagle
      /\ \A j \in DOMAIN m.groups : j <= i - 1 => SpiltLayers(Over(m, h, j)) \in SUBSET SpiltLayers(over)
  BY DEF Spill
<1>2. /\ t \in Seq(Spilt) /\ SpiltOnce(t) /\ SpiltLayers(t) \in SUBSET ToSet(m.groups[i].layers)
      /\ \A x \in DOMAIN t : t[x].eagle = m.groups[i].eagle
  BY OverIs
<1>3. i \in Nat /\ \A j \in DOMAIN m.groups : j \in Nat
  BY ModelIs
<1> HIDE DEF t
<1>4. SpiltLayers(over) \cap SpiltLayers(t) = {}
  <2>1. SUFFICES ASSUME NEW x \in DOMAIN over, over[x].layer \in SpiltLayers(t) PROVE FALSE
    BY DEF SpiltLayers
  <2>2. PICK j \in DOMAIN m.groups : j <= i - 1 /\ over[x].layer \in SpiltLayers(Over(m, h, j))
    BY <1>1
  <2>3. over[x].layer \in ToSet(m.groups[j].layers)
    BY <2>2, OverIs
  <2>4. over[x].layer \in ToSet(m.groups[i].layers) /\ j # i
    BY <1>2, <1>3, <2>1, <2>2
  <2>5. QED
    BY <2>3, <2>4, OneGroup
<1>5. u \in Seq(Spilt)
  BY <1>1, <1>2, JoinIs
<1>6. SpiltLayers(u) = SpiltLayers(over) \cup SpiltLayers(t) /\ SpiltOnce(u)
  BY <1>1, <1>2, <1>4, SpiltJoin
<1>7. ASSUME NEW x \in DOMAIN u
      PROVE  \E j \in DOMAIN m.groups :
               j <= i /\ u[x].layer \in SpiltLayers(Over(m, h, j)) /\ u[x].eagle = m.groups[j].eagle
  <2>1. From(u, x, over, t)
    BY <1>1, <1>2, JoinIs
  <2> HIDE DEF u
  <2>2. CASE x \in DOMAIN over /\ u[x] = over[x]
    <3>1. PICK j \in DOMAIN m.groups :
            j <= i - 1 /\ over[x].layer \in SpiltLayers(Over(m, h, j)) /\ over[x].eagle = m.groups[j].eagle
      BY <1>1, <2>2
    <3>2. j <= i
      BY <1>3, <3>1
    <3>3. QED
      BY <2>2, <3>1, <3>2
  <2>3. ASSUME NEW y \in DOMAIN t, u[x] = t[y]
        PROVE  \E j \in DOMAIN m.groups :
                 j <= i /\ u[x].layer \in SpiltLayers(Over(m, h, j)) /\ u[x].eagle = m.groups[j].eagle
    <3>1. u[x].layer \in SpiltLayers(t) /\ u[x].eagle = m.groups[i].eagle /\ i <= i
      BY <1>2, <1>3, <2>3 DEF SpiltLayers
    <3>2. QED
      BY <3>1 DEF t
  <2>4. QED
    BY <2>1, <2>2, <2>3 DEF From
<1>8. ASSUME NEW j \in DOMAIN m.groups, j <= i
      PROVE  SpiltLayers(Over(m, h, j)) \in SUBSET SpiltLayers(u)
  <2>1. j <= i - 1 \/ j = i
    BY <1>3, <1>8
  <2>2. QED
    BY <1>1, <1>6, <2>1 DEF t
<1>9. QED
  <2>1. Spill(m, h, u, i)
    <3> HIDE DEF u
    <3>1. QED
      BY <1>5, <1>6, <1>7, <1>8 DEF Spill
  <2>2. QED
    BY <2>1 DEF u, t

\* The overflow is what all groups spill.
LEMMA OverflowIs ==
  ASSUME NEW m \in Models, NEW h \in Placements
  PROVE  Spill(m, h, Groups!Overflow(m, h), Len(m.groups))
<1> DEFINE n == Len(m.groups)
           next(over, i) == over \o Over(m, h, i)
           step == [i \in 1..n |-> [over \in Seq(Spilt) |-> next(over, i)]]
           upto == CHOOSE f : f = [i \in 0..n |-> IF i = 0 THEN <<>> ELSE next(f[i - 1], i)]
           D == Seq(Spilt)
<1>1. n \in Nat /\ DOMAIN m.groups = 1..n
  BY ModelIs
<1>2. Groups!Overflow(m, h) = upto[n]
  BY DEF Groups!Overflow, Over
<1>3. ASSUME NEW i \in 1..n, NEW over \in D PROVE next(over, i) \in D
  <2>1. Over(m, h, i) \in Seq(Spilt)
    BY <1>1, OverIs
  <2>2. QED
    BY <2>1, JoinIs
<1>4. ASSUME NEW i \in 1..n, NEW over, Spill(m, h, over, i - 1) PROVE Spill(m, h, next(over, i), i)
  BY <1>1, <1>4, SpillGrows
<1> HIDE DEF next
<1>5. \E f : f = [i \in 0..n |-> IF i = 0 THEN <<>> ELSE next(f[i - 1], i)]
  <2>1. step \in PassSteps(n, D)
    BY <1>3 DEF PassSteps
  <2>2. <<>> \in D
    OBVIOUS
  <2> HIDE DEF step, D
  <2>3. PICK f \in [0..n -> D] : IsPass(f, n, <<>>, step)
    BY <1>1, <2>1, <2>2, PassExists
  <2>4. ASSUME NEW i \in 0..n PROVE f[i] = IF i = 0 THEN <<>> ELSE next(f[i - 1], i)
    <3>1. CASE i # 0
      <4>1. i \in 1..n /\ i - 1 \in 0..n
        BY <1>1, <3>1
      <4>2. f[i] = step[i][f[i - 1]] /\ f[i - 1] \in D
        BY <2>3, <4>1 DEF IsPass
      <4>3. QED
        BY <3>1, <4>1, <4>2 DEF step, D
    <3>2. CASE i = 0
      BY <2>3, <3>2 DEF IsPass
    <3>3. QED
      BY <3>1, <3>2
  <2>5. f = [i \in 0..n |-> IF i = 0 THEN <<>> ELSE next(f[i - 1], i)]
    BY <2>4
  <2>6. QED
    BY <2>5
<1>6. upto = [i \in 0..n |-> IF i = 0 THEN <<>> ELSE next(upto[i - 1], i)]
  BY <1>5
<1> HIDE DEF upto
<1> DEFINE S == {i \in 0..n : Spill(m, h, upto[i], i)}
<1>7. 0 \in S
  <2>1. 0 \in 0..n /\ upto[0] = <<>>
    BY <1>1, <1>6
  <2>2. QED
    BY <2>1, NoSpill
<1>8. ASSUME NEW i \in 0..n, i # n, i \in S PROVE i + 1 \in S
  <2>1. i + 1 \in 1..n /\ i + 1 \in 0..n /\ (i + 1) - 1 = i
    BY <1>1, <1>8
  <2>2. upto[i + 1] = next(upto[i], i + 1)
    BY <1>6, <2>1
  <2>3. Spill(m, h, upto[i], (i + 1) - 1)
    BY <1>8, <2>1
  <2>4. QED
    BY <1>4, <2>1, <2>2, <2>3
<1>9. n \in S
  <2>1. n \in 0..n
    BY <1>1
  <2> HIDE DEF S
  <2>2. QED
    BY <1>1, <1>7, <1>8, <2>1, StepByStep
<1>10. QED
  BY <1>2, <1>9

-----------------------------------------------------------------------------
(* The second pass: what overflowed is put into extra groups.              *)

Tidy(m, h, g) ==
  /\ g \in Groups!CacheGroup /\ g.layers # <<>> /\ Single(g.layers)
  /\ Groups!Uniform(m, ToSet(g.layers)) /\ Groups!Fits(m, h, ToSet(g.layers))

Apart(groups) ==
  \A c, d \in DOMAIN groups : c # d => ToSet(groups[c].layers) \cap ToSet(groups[d].layers) = {}

Filled(m, h, over, extra, i) ==
  /\ extra \in Seq(Groups!CacheGroup)
  /\ \A c \in DOMAIN extra : Tidy(m, h, extra[c])
  /\ Apart(extra)
  /\ \A c \in DOMAIN extra : \A z \in ToSet(extra[c].layers) : \E y \in DOMAIN over :
       y <= i /\ over[y].layer = z /\ over[y].eagle = extra[c].eagle
  /\ \A y \in DOMAIN over : y <= i => \E c \in DOMAIN extra : over[y].layer \in ToSet(extra[c].layers)

\* A new group of one layer.
LEMMA NewGroup ==
  ASSUME NEW m \in Models, NEW h \in Placements, NEW one \in Spilt,
         one.layer \in Groups!StateLayers(m), NEW g, g = [eagle |-> one.eagle, layers |-> <<one.layer>>]
  PROVE  Tidy(m, h, g) /\ ToSet(g.layers) = {one.layer} /\ g.eagle = one.eagle
<1> DEFINE z == one.layer
<1>1. z \in Layer /\ one.eagle \in BOOLEAN
  BY DEF Spilt
<1>2. Groups!Fits(m, h, {z})
  BY OneFits
<1> HIDE DEF z
<1>3. <<z>> \in Seq(Layer) /\ <<z>> # <<>> /\ DOMAIN <<z>> = {1} /\ <<z>>[1] = z
  BY <1>1
<1>4. g \in Groups!CacheGroup /\ g.layers = <<z>> /\ g.eagle = one.eagle
  BY <1>1, <1>3 DEF Groups!CacheGroup, Layer, z
<1> DEFINE s == <<z>>
<1> HIDE DEF s
<1>5. ToSet(s) = {z} /\ Single(s)
  BY <1>3 DEF ToSet, Groups!ToSet, Single, s
<1>6. Groups!Uniform(m, {z})
  BY DEF Groups!Uniform
<1>7. QED
  BY <1>2, <1>3, <1>4, <1>5, <1>6 DEF Tidy, s, z

\* A group that takes one layer more.
Larger(g, z) == [g EXCEPT !.layers = Append(g.layers, z)]

\* It stays tidy, as Takes has looked.
LEMMA LargerGroup ==
  ASSUME NEW m \in Models, NEW h \in Placements, NEW one \in Spilt, NEW g \in Groups!CacheGroup,
         Tidy(m, h, g), Groups!Takes(m, h, g, one), one.layer \notin ToSet(g.layers)
  PROVE  /\ Tidy(m, h, Larger(g, one.layer))
         /\ ToSet(Larger(g, one.layer).layers) = ToSet(g.layers) \cup {one.layer}
         /\ Larger(g, one.layer).eagle = g.eagle /\ g.eagle = one.eagle
<1> DEFINE z == one.layer
           new == Larger(g, z)
           s == Append(g.layers, z)
<1>1. z \in Layer /\ g.layers \in Seq(Layer) /\ g \in Groups!CacheGroup
  BY DEF Spilt, Groups!CacheGroup, Layer
<1> HIDE DEF z
<1>2. s \in Seq(Layer) /\ s # <<>>
  BY <1>1, OneMore
<1>3. ToSet(s) = ToSet(g.layers) \cup {z} /\ Single(s)
  BY <1>1, OneMoreNamed DEF Tidy, z
<1> HIDE DEF s
<1>4. new = [g EXCEPT !.layers = s]
  BY DEF s, Larger
<1> HIDE DEF new
<1>5. new \in Groups!CacheGroup /\ new.layers = s /\ new.eagle = g.eagle
  BY <1>1, <1>2, <1>4 DEF Groups!CacheGroup, Layer
<1>6. /\ g.eagle = one.eagle /\ Groups!Uniform(m, ToSet(s)) /\ Groups!Fits(m, h, ToSet(s))
  BY <1>3 DEF Groups!Takes, ToSet, z
<1>7. QED
  BY <1>2, <1>3, <1>5, <1>6 DEF Tidy, new, z

\* Min is the first of some places, or the least of some numbers of blocks.
LEMMA LeastIs ==
  ASSUME NEW S \in SUBSET Nat, S # {}
  PROVE  Groups!Min(S) \in S /\ \A x \in S : Groups!Min(S) <= x
BY LeastMember DEF Groups!Min

\* Where an overflowing layer is placed.
Put(m, h, extra, one, new) ==
  /\ new \in Seq(Groups!CacheGroup)
  /\ \E c \in DOMAIN new :
       /\ DOMAIN new = DOMAIN extra \cup {c}
       /\ \A d \in DOMAIN extra : d # c => new[d] = extra[d]
       /\ Tidy(m, h, new[c]) /\ new[c].eagle = one.eagle
       /\ \/ c \notin DOMAIN extra /\ ToSet(new[c].layers) = {one.layer}
          \/ /\ c \in DOMAIN extra /\ new[c].eagle = extra[c].eagle
             /\ ToSet(new[c].layers) = ToSet(extra[c].layers) \cup {one.layer}

\* The layer goes to the first group that takes it, or to a new one.
LEMMA PlaceIs ==
  ASSUME NEW m \in Models, NEW h \in Placements, NEW one \in Spilt,
         one.layer \in Groups!StateLayers(m), NEW extra \in Seq(Groups!CacheGroup),
         \A c \in DOMAIN extra : Tidy(m, h, extra[c]) /\ one.layer \notin ToSet(extra[c].layers)
  PROVE  Put(m, h, extra, one, Groups!Place(m, h, extra, one))
<1> DEFINE fit == {c \in DOMAIN extra : Groups!Takes(m, h, extra[c], one)}
           g == [eagle |-> one.eagle, layers |-> <<one.layer>>]
           new == Groups!Place(m, h, extra, one)
<1>1. CASE fit = {}
  <2>1. Tidy(m, h, g) /\ ToSet(g.layers) = {one.layer} /\ g.eagle = one.eagle
    BY NewGroup
  <2>2. new = Append(extra, g)
    BY <1>1 DEF Groups!Place
  <2>3. g \in Groups!CacheGroup
    BY <2>1 DEF Tidy
  <2> HIDE DEF g, new
  <2> DEFINE c == Len(extra) + 1
  <2>4. /\ new \in Seq(Groups!CacheGroup)
        /\ DOMAIN new = DOMAIN extra \cup {c} /\ c \notin DOMAIN extra
        /\ \A d \in DOMAIN extra : new[d] = extra[d]
        /\ new[c] = g
    BY <2>2, <2>3, OneMore
  <2> HIDE DEF c
  <2>5. Put(m, h, extra, one, new)
    BY <2>1, <2>4 DEF Put
  <2>6. QED
    BY <2>5 DEF new
<1>2. CASE fit # {}
  <2> DEFINE c == Groups!Min(fit)
             larger == [extra[c] EXCEPT !.layers = Append(extra[c].layers, one.layer)]
  <2>1. c \in DOMAIN extra /\ Groups!Takes(m, h, extra[c], one)
    <3>1. fit \in SUBSET Nat
      OBVIOUS
    <3>2. c \in fit
      <4> HIDE DEF fit
      <4>1. QED
        BY <1>2, <3>1, LeastIs
    <3>3. QED
      BY <3>2
  <2>2. new = [extra EXCEPT ![c].layers = Append(extra[c].layers, one.layer)]
    BY <1>2 DEF Groups!Place
  <2> HIDE DEF c, fit
  <2>3. /\ Tidy(m, h, larger) /\ ToSet(larger.layers) = ToSet(extra[c].layers) \cup {one.layer}
        /\ larger.eagle = extra[c].eagle /\ extra[c].eagle = one.eagle
    <3> DEFINE old == extra[c]
    <3>1. old \in Groups!CacheGroup /\ Tidy(m, h, old) /\ Groups!Takes(m, h, old, one) /\ one.layer \notin ToSet(old.layers)
      BY <2>1
    <3> HIDE DEF old
    <3>2. /\ Tidy(m, h, Larger(old, one.layer))
          /\ ToSet(Larger(old, one.layer).layers) = ToSet(old.layers) \cup {one.layer}
          /\ Larger(old, one.layer).eagle = old.eagle /\ old.eagle = one.eagle
      BY <3>1, LargerGroup
    <3>3. QED
      BY <3>2 DEF old, Larger
  <2>4. new = [extra EXCEPT ![c] = larger]
    BY <2>2
  <2>5. larger \in Groups!CacheGroup
    BY <2>3 DEF Tidy
  <2> HIDE DEF new, larger
  <2>6. /\ new \in Seq(Groups!CacheGroup) /\ DOMAIN new = DOMAIN extra
        /\ \A d \in DOMAIN extra : d # c => new[d] = extra[d]
        /\ new[c] = larger
    BY <2>1, <2>4, <2>5
  <2>7. Put(m, h, extra, one, new)
    BY <2>1, <2>3, <2>6 DEF Put
  <2>8. QED
    BY <2>7 DEF new
<1>3. QED
  BY <1>1, <1>2

\* Placing a layer gives groups, whatever the groups were.
LEMMA PlaceType ==
  ASSUME NEW m, NEW h, NEW one \in Spilt, NEW extra \in Seq(Groups!CacheGroup)
  PROVE  Groups!Place(m, h, extra, one) \in Seq(Groups!CacheGroup)
<1> DEFINE fit == {c \in DOMAIN extra : Groups!Takes(m, h, extra[c], one)}
           g == [eagle |-> one.eagle, layers |-> <<one.layer>>]
           c == Groups!Min(fit)
<1>1. one.layer \in Layer /\ one.eagle \in BOOLEAN
  BY DEF Spilt
<1>2. g \in Groups!CacheGroup
  BY <1>1 DEF Groups!CacheGroup, Layer
<1>3. CASE fit = {}
  BY <1>2, <1>3 DEF Groups!Place
<1>4. CASE fit # {}
  <2>1. c \in DOMAIN extra
    <3>1. fit \in SUBSET Nat
      OBVIOUS
    <3>2. c \in fit
      <4> HIDE DEF fit
      <4>1. QED
        BY <1>4, <3>1, LeastIs
    <3>3. QED
      BY <3>2
  <2>2. Groups!Place(m, h, extra, one) = [extra EXCEPT ![c].layers = Append(extra[c].layers, one.layer)]
    BY <1>4 DEF Groups!Place
  <2> HIDE DEF c, fit
  <2>3. extra[c] \in Groups!CacheGroup /\ extra[c].layers \in Seq(Layer)
    <3>1. extra[c] \in Groups!CacheGroup
      BY <2>1
    <3>2. QED
      BY <3>1 DEF Groups!CacheGroup, Layer
  <2>4. Append(extra[c].layers, one.layer) \in Seq(Layer)
    BY <1>1, <2>3, OneMore
  <2>5. Larger(extra[c], one.layer) \in Groups!CacheGroup
    BY <2>3, <2>4 DEF Groups!CacheGroup, Larger, Layer
  <2>6. [extra EXCEPT ![c] = Larger(extra[c], one.layer)] \in Seq(Groups!CacheGroup)
    BY <2>1, <2>5
  <2>7. QED
    BY <2>2, <2>6 DEF Larger
<1>5. QED
  BY <1>3, <1>4

\* The next overflowing layer is placed, and nothing else changes.
LEMMA FilledGrows ==
  ASSUME NEW m \in Models, NEW h \in Placements, NEW over \in Seq(Spilt), SpiltOnce(over),
         SpiltLayers(over) \in SUBSET Groups!StateLayers(m), NEW i \in DOMAIN over,
         NEW extra, Filled(m, h, over, extra, i - 1)
  PROVE  Filled(m, h, over, Groups!Place(m, h, extra, over[i]), i)
<1> DEFINE one == over[i]
           new == Groups!Place(m, h, extra, one)
<1>1. extra \in Seq(Groups!CacheGroup) /\ Apart(extra) /\ \A c \in DOMAIN extra : Tidy(m, h, extra[c])
  BY DEF Filled
<1>2. /\ \A c \in DOMAIN extra : \A y \in ToSet(extra[c].layers) : \E x \in DOMAIN over :
           x <= i - 1 /\ over[x].layer = y /\ over[x].eagle = extra[c].eagle
      /\ \A x \in DOMAIN over : x <= i - 1 => \E c \in DOMAIN extra : over[x].layer \in ToSet(extra[c].layers)
  BY DEF Filled
<1>3. /\ one \in Spilt /\ one.layer \in Groups!StateLayers(m) /\ i \in Nat /\ \A x \in DOMAIN over : x \in Nat
      /\ one.layer = over[i].layer /\ one.eagle = over[i].eagle
  BY DEF SpiltLayers
<1> HIDE DEF one, new
<1>4. \A c \in DOMAIN extra : one.layer \notin ToSet(extra[c].layers)
  <2>1. SUFFICES ASSUME NEW c \in DOMAIN extra, one.layer \in ToSet(extra[c].layers) PROVE FALSE
    OBVIOUS
  <2>2. PICK x \in DOMAIN over : x <= i - 1 /\ over[x].layer = one.layer
    BY <1>2, <2>1
  <2>3. x = i
    BY <1>3, <2>2 DEF SpiltOnce
  <2>4. QED
    BY <1>3, <2>2, <2>3
<1>5. Put(m, h, extra, one, new)
  BY <1>1, <1>3, <1>4, PlaceIs DEF new
<1>6. PICK c \in DOMAIN new :
        /\ DOMAIN new = DOMAIN extra \cup {c}
        /\ \A d \in DOMAIN extra : d # c => new[d] = extra[d]
        /\ Tidy(m, h, new[c]) /\ new[c].eagle = one.eagle
        /\ \/ c \notin DOMAIN extra /\ ToSet(new[c].layers) = {one.layer}
           \/ /\ c \in DOMAIN extra /\ new[c].eagle = extra[c].eagle
              /\ ToSet(new[c].layers) = ToSet(extra[c].layers) \cup {one.layer}
  BY <1>5 DEF Put
<1>7. new \in Seq(Groups!CacheGroup) /\ \A d \in DOMAIN new : Tidy(m, h, new[d])
  <2>1. new \in Seq(Groups!CacheGroup)
    BY <1>5 DEF Put
  <2>2. ASSUME NEW d \in DOMAIN new PROVE Tidy(m, h, new[d])
    <3>1. CASE d = c
      BY <1>6, <3>1
    <3>2. CASE d # c
      <4>1. d \in DOMAIN extra /\ new[d] = extra[d]
        BY <1>6, <3>2
      <4>2. QED
        BY <1>1, <4>1
    <3>3. QED
      BY <3>1, <3>2
  <2>3. QED
    BY <2>1, <2>2
<1>8. ASSUME NEW d \in DOMAIN extra, d # c
      PROVE  ToSet(new[c].layers) \cap ToSet(extra[d].layers) = {}
  <2>1. c \in DOMAIN extra => ToSet(extra[c].layers) \cap ToSet(extra[d].layers) = {}
    BY <1>1, <1>8 DEF Apart
  <2>2. one.layer \notin ToSet(extra[d].layers)
    BY <1>4
  <2>3. QED
    BY <1>6, <2>1, <2>2
<1>9. ASSUME NEW d \in DOMAIN new, NEW e \in DOMAIN new, d # e
      PROVE  ToSet(new[d].layers) \cap ToSet(new[e].layers) = {}
  <2>1. CASE d = c
    BY <1>6, <1>8, <1>9, <2>1
  <2>2. CASE e = c
    BY <1>6, <1>8, <1>9, <2>2
  <2>3. CASE d # c /\ e # c
    BY <1>1, <1>6, <1>9, <2>3 DEF Apart
  <2>4. QED
    BY <2>1, <2>2, <2>3
<1>10. ASSUME NEW d \in DOMAIN new, NEW y \in ToSet(new[d].layers)
       PROVE  \E x \in DOMAIN over : x <= i /\ over[x].layer = y /\ over[x].eagle = new[d].eagle
  <2>1. CASE d = c /\ y = one.layer
    <3>1. i <= i /\ over[i].layer = y /\ over[i].eagle = new[d].eagle
      BY <1>3, <1>6, <2>1
    <3>2. QED
      BY <3>1
  <2>2. CASE d \in DOMAIN extra /\ y \in ToSet(extra[d].layers) /\ new[d].eagle = extra[d].eagle
    <3>1. PICK x \in DOMAIN over : x <= i - 1 /\ over[x].layer = y /\ over[x].eagle = extra[d].eagle
      BY <1>2, <2>2
    <3>2. x <= i
      BY <1>3, <3>1
    <3>3. QED
      BY <2>2, <3>1, <3>2
  <2>3. QED
    BY <1>6, <1>10, <2>1, <2>2
<1>11. ASSUME NEW x \in DOMAIN over, x <= i
       PROVE  \E d \in DOMAIN new : over[x].layer \in ToSet(new[d].layers)
  <2>1. CASE x = i
    BY <1>3, <1>6, <2>1
  <2>2. CASE x # i
    <3>1. x <= i - 1
      BY <1>3, <1>11, <2>2
    <3>2. PICK d \in DOMAIN extra : over[x].layer \in ToSet(extra[d].layers)
      BY <1>2, <3>1
    <3>3. QED
      BY <1>6, <3>2
  <2>3. QED
    BY <2>1, <2>2
<1>12. Filled(m, h, over, new, i)
  BY <1>7, <1>9, <1>10, <1>11 DEF Filled, Apart
<1>13. QED
  BY <1>12 DEF new, one


\* At first no layer is placed.
LEMMA NoneFilled == ASSUME NEW m, NEW h, NEW over \in Seq(Spilt) PROVE Filled(m, h, over, <<>>, 0)
<1>1. \A y \in DOMAIN over : ~ (y <= 0)
  OBVIOUS
<1>2. QED
  BY <1>1 DEF Filled, Apart

\* The extra groups hold all that overflowed, and nothing else.
LEMMA ExtraIs ==
  ASSUME NEW m \in Models, NEW h \in Placements, NEW over \in Seq(Spilt), SpiltOnce(over),
         SpiltLayers(over) \in SUBSET Groups!StateLayers(m)
  PROVE  Filled(m, h, over, Groups!Extra(m, h, over), Len(over))
<1> DEFINE n == Len(over)
           next(extra, i) == Groups!Place(m, h, extra, over[i])
           step == [i \in 1..n |-> [extra \in Seq(Groups!CacheGroup) |-> next(extra, i)]]
           upto == CHOOSE f : f = [i \in 0..n |-> IF i = 0 THEN <<>> ELSE next(f[i - 1], i)]
           D == Seq(Groups!CacheGroup)
<1>1. n \in Nat /\ DOMAIN over = 1..n
  OBVIOUS
<1>2. Groups!Extra(m, h, over) = upto[n]
  BY DEF Groups!Extra
<1>3. ASSUME NEW i \in 1..n, NEW extra \in D PROVE next(extra, i) \in D
  <2>1. over[i] \in Spilt
    BY <1>1
  <2>2. QED
    BY <2>1, PlaceType
<1>4. ASSUME NEW i \in 1..n, NEW extra, Filled(m, h, over, extra, i - 1)
      PROVE  Filled(m, h, over, next(extra, i), i)
  BY <1>1, <1>4, FilledGrows
<1> HIDE DEF next, n
<1>5. \E f : f = [i \in 0..n |-> IF i = 0 THEN <<>> ELSE next(f[i - 1], i)]
  <2>1. step \in PassSteps(n, D)
    BY <1>3 DEF PassSteps
  <2>2. <<>> \in D
    OBVIOUS
  <2> HIDE DEF step, D
  <2>3. PICK f \in [0..n -> D] : IsPass(f, n, <<>>, step)
    BY <1>1, <2>1, <2>2, PassExists
  <2>4. ASSUME NEW i \in 0..n PROVE f[i] = IF i = 0 THEN <<>> ELSE next(f[i - 1], i)
    <3>1. CASE i # 0
      <4>1. i \in 1..n /\ i - 1 \in 0..n
        BY <1>1, <3>1
      <4>2. f[i] = step[i][f[i - 1]] /\ f[i - 1] \in D
        BY <2>3, <4>1 DEF IsPass
      <4>3. QED
        BY <3>1, <4>1, <4>2 DEF step, D
    <3>2. CASE i = 0
      BY <2>3, <3>2 DEF IsPass
    <3>3. QED
      BY <3>1, <3>2
  <2>5. f = [i \in 0..n |-> IF i = 0 THEN <<>> ELSE next(f[i - 1], i)]
    BY <2>4
  <2>6. QED
    BY <2>5
<1>6. upto = [i \in 0..n |-> IF i = 0 THEN <<>> ELSE next(upto[i - 1], i)]
  BY <1>5
<1> HIDE DEF upto
<1> DEFINE P(i) == Filled(m, h, over, upto[i], i)
           S == {i \in 0..n : P(i)}
<1>7. P(0)
  <2>1. 0 \in 0..n /\ upto[0] = <<>>
    BY <1>1, <1>6
  <2>2. Filled(m, h, over, <<>>, 0)
    BY NoneFilled
  <2>3. QED
    BY <2>1, <2>2
<1> HIDE DEF step, D, S
<1>8. ASSUME NEW i \in 0..n, i # n, P(i) PROVE i + 1 \in 0..n /\ P(i + 1)
  <2>1. i + 1 \in 1..n /\ i + 1 \in 0..n /\ (i + 1) - 1 = i
    BY <1>1, <1>8
  <2>2. upto[i + 1] = next(upto[i], i + 1)
    BY <1>6, <2>1
  <2>3. Filled(m, h, over, upto[i], (i + 1) - 1)
    BY <1>8, <2>1
  <2>4. Filled(m, h, over, next(upto[i], i + 1), i + 1)
    BY <1>4, <2>1, <2>3
  <2>5. QED
    BY <2>1, <2>2, <2>4
<1> HIDE DEF P
<1>9. n \in S
  <2>1. n \in 0..n /\ 0 \in 0..n
    BY <1>1
  <2>2. 0 \in S /\ \A i \in 0..n : i # n /\ i \in S => i + 1 \in S
    BY <1>7, <1>8, <2>1 DEF S
  <2>3. QED
    BY <1>1, <2>1, <2>2, StepByStep
<1>10. Filled(m, h, over, upto[n], n)
  BY <1>9 DEF P, S
<1>11. QED
  BY <1>2, <1>10 DEF n

-----------------------------------------------------------------------------
(* What refinement returns.                                                *)

Kept(m, h) ==
  [i \in DOMAIN m.groups |-> [m.groups[i] EXCEPT !.layers = Groups!Split(m, h, m.groups[i]).kept]]

\* What is left of a group in its place.
Left(m, h, i, g) ==
  /\ g \in Groups!CacheGroup /\ g.eagle = m.groups[i].eagle
  /\ g.layers # <<>> /\ Single(g.layers)
  /\ ToSet(g.layers) \cup SpiltLayers(Over(m, h, i)) = ToSet(m.groups[i].layers)
  /\ ToSet(g.layers) \cap SpiltLayers(Over(m, h, i)) = {}
  /\ Groups!IsState(m, m.groups[i]) => Groups!Fits(m, h, ToSet(g.layers))
  /\ ~Groups!IsState(m, m.groups[i]) => g = m.groups[i]

\* Split leaves a group tidy, and a history group as it was.
LEMMA LeftIs ==
  ASSUME NEW m \in Models, NEW h \in Placements, NEW i \in DOMAIN m.groups
  PROVE  Left(m, h, i, Kept(m, h)[i])
<1> DEFINE g == m.groups[i]
           acc == Groups!Split(m, h, g)
           new == [g EXCEPT !.layers = acc.kept]
<1>1. Kept(m, h)[i] = new
  BY DEF Kept
<1>2. /\ g \in ToSet(m.groups) /\ g \in Groups!CacheGroup /\ Single(g.layers) /\ g.layers # <<>>
      /\ g.layers \in Seq(Layer) /\ g.eagle \in BOOLEAN
  BY OneGroup, ModelIs DEF Groups!CacheGroup, Layer
<1>3. CASE Groups!IsState(m, g)
  <2>1. InHalves(m, h, g, acc, Len(g.layers))
    <3> HIDE DEF g
    <3>1. QED
      BY <1>2, <1>3, SplitIs
  <2> HIDE DEF acc
  <2>2. acc.kept \in Seq(Layer)
    BY <2>1 DEF InHalves, Halves
  <2>3. new \in Groups!CacheGroup /\ new.eagle = g.eagle /\ new.layers = acc.kept
    BY <1>2, <2>2 DEF Groups!CacheGroup, Layer
  <2> HIDE DEF new, g
  <2>4. {g.layers[x] : x \in 1..Len(g.layers)} = ToSet(g.layers) /\ Len(g.layers) # 0
    BY <1>2 DEF ToSet, Groups!ToSet
  <2>5. Over(m, h, i) = acc.over
    BY DEF Over, acc, g
  <2>6. /\ Single(new.layers) /\ new.layers # <<>> /\ Groups!Fits(m, h, ToSet(new.layers))
        /\ ToSet(new.layers) \cap SpiltLayers(Over(m, h, i)) = {}
        /\ ToSet(new.layers) \cup SpiltLayers(Over(m, h, i)) = ToSet(g.layers)
    BY <2>1, <2>3, <2>4, <2>5 DEF InHalves
  <2>7. QED
    BY <1>1, <1>3, <2>3, <2>6 DEF Left, g
<1>4. CASE ~Groups!IsState(m, g)
  <2>1. acc.kept = g.layers
    <3> HIDE DEF g
    <3>1. QED
      BY <1>2, <1>4, SplitIs
  <2> HIDE DEF acc
  <2>2. new = g
    <3> HIDE DEF g
    <3>1. QED
      BY <1>2, <2>1 DEF Groups!CacheGroup
  <2>3. Over(m, h, i) = <<>>
    BY <1>4, OverIs
  <2>4. SpiltLayers(Over(m, h, i)) = {}
    BY <2>3 DEF SpiltLayers
  <2> HIDE DEF new, g
  <2>5. QED
    BY <1>1, <1>2, <1>4, <2>2, <2>4 DEF Left, g
<1>5. QED
  BY <1>3, <1>4

\* Groups that hold each layer once, those of a model in their places first.
Regroups(m, out) ==
  /\ out \in Seq(Groups!CacheGroup) /\ out # <<>> /\ Apart(out) /\ Groups!Names(out) = Layer
  /\ \A i \in DOMAIN out :
       /\ out[i].layers # <<>> /\ Single(out[i].layers)
       /\ Groups!Uniform(m, ToSet(out[i].layers))
       /\ \A z \in ToSet(out[i].layers) : \E j \in DOMAIN m.groups :
            z \in ToSet(m.groups[j].layers) /\ m.groups[j].eagle = out[i].eagle
  /\ \A i \in DOMAIN m.groups :
       /\ i \in DOMAIN out /\ out[i].eagle = m.groups[i].eagle
       /\ ToSet(out[i].layers) \in SUBSET ToSet(m.groups[i].layers)
       /\ ~Groups!IsState(m, m.groups[i]) => out[i] = m.groups[i]

\* A layer is named if it is in some group.
LEMMA NamesIs ==
  ASSUME NEW out \in Seq(Groups!CacheGroup), NEW z
  PROVE  z \in Groups!Names(out) <=> \E i \in DOMAIN out : z \in ToSet(out[i].layers)
BY DEF Groups!Names, ToSet, Groups!ToSet

\* The groups of a model do.
LEMMA WasRegroups == ASSUME NEW m \in Models PROVE Regroups(m, m.groups)
<1>1. /\ m.groups \in Seq(Groups!CacheGroup) /\ Groups!Names(m.groups) = Layer
      /\ \A i \in DOMAIN m.groups : m.groups[i].layers # <<>> /\ Groups!Uniform(m, ToSet(m.groups[i].layers))
  BY ModelIs
<1>2. Apart(m.groups) /\ \A i \in DOMAIN m.groups : Single(m.groups[i].layers)
  BY OneGroup DEF Apart
<1>3. m.groups # <<>>
  <2>1. 0 \in Layer
    BY CacheAndServing DEF Groups!PlacementAssumption, Layer, Groups!Layers
  <2>2. \E i \in DOMAIN m.groups : 0 \in ToSet(m.groups[i].layers)
    BY <1>1, <2>1, NamesIs
  <2>3. QED
    BY <2>2
<1>4. QED
  BY <1>1, <1>2, <1>3 DEF Regroups

\* refine_owner_state_groups finds no layer twice in such groups.
LEMMA RegroupsIsDistinct ==
  ASSUME NEW m, NEW out, Regroups(m, out)
  PROVE  Groups!Distinct(out)
<1>1. SUFFICES ASSUME NEW i \in DOMAIN out, NEW j \in DOMAIN out,
                      NEW x \in DOMAIN out[i].layers, NEW y \in DOMAIN out[j].layers,
                      out[i].layers[x] = out[j].layers[y]
               PROVE  i = j /\ x = y
  BY DEF Groups!Distinct
<1>2. out[i].layers[x] \in ToSet(out[i].layers) /\ out[j].layers[y] \in ToSet(out[j].layers)
  BY DEF ToSet, Groups!ToSet
<1>3. i = j
  BY SMTT(40), <1>1, <1>2 DEF Regroups, Apart
<1>4. QED
  BY <1>1, <1>3 DEF Regroups, Single

\* All that overflows is put somewhere.
Extras(m, h) == Groups!Extra(m, h, Groups!Overflow(m, h))

\* They hold exactly what the groups of the model spilt.
LEMMA ExtrasAre ==
  ASSUME NEW m \in Models, NEW h \in Placements
  PROVE  /\ Extras(m, h) \in Seq(Groups!CacheGroup) /\ Apart(Extras(m, h))
         /\ \A c \in DOMAIN Extras(m, h) : Tidy(m, h, Extras(m, h)[c])
         /\ \A c \in DOMAIN Extras(m, h) : \A z \in ToSet(Extras(m, h)[c].layers) :
              \E j \in DOMAIN m.groups :
                z \in SpiltLayers(Over(m, h, j)) /\ m.groups[j].eagle = Extras(m, h)[c].eagle
         /\ \A j \in DOMAIN m.groups : \A z \in SpiltLayers(Over(m, h, j)) :
              \E c \in DOMAIN Extras(m, h) : z \in ToSet(Extras(m, h)[c].layers)
<1> DEFINE over == Groups!Overflow(m, h)
           extra == Extras(m, h)
           n == Len(m.groups)
<1>1. Spill(m, h, over, n)
  BY OverflowIs
<1>2. \A j \in DOMAIN m.groups : j <= n
  BY ModelIs
<1> HIDE DEF over, n
<1>3. /\ over \in Seq(Spilt) /\ SpiltOnce(over)
      /\ \A x \in DOMAIN over : \E j \in DOMAIN m.groups :
           over[x].layer \in SpiltLayers(Over(m, h, j)) /\ over[x].eagle = m.groups[j].eagle
      /\ \A j \in DOMAIN m.groups : SpiltLayers(Over(m, h, j)) \in SUBSET SpiltLayers(over)
  BY <1>1, <1>2 DEF Spill
<1>4. SpiltLayers(over) \in SUBSET Groups!StateLayers(m)
  <2>1. SUFFICES ASSUME NEW x \in DOMAIN over PROVE over[x].layer \in Groups!StateLayers(m)
    BY DEF SpiltLayers
  <2>2. PICK j \in DOMAIN m.groups : over[x].layer \in SpiltLayers(Over(m, h, j))
    BY <1>3
  <2>3. /\ SpiltLayers(Over(m, h, j)) \in SUBSET ToSet(m.groups[j].layers)
        /\ ~Groups!IsState(m, m.groups[j]) => Over(m, h, j) = <<>>
    BY OverIs
  <2>4. Groups!IsState(m, m.groups[j])
    BY <2>2, <2>3 DEF SpiltLayers
  <2>5. m.groups[j] \in ToSet(m.groups)
    BY OneGroup
  <2>6. QED
    BY <2>2, <2>3, <2>4, <2>5 DEF Groups!StateLayers, ToSet
<1>5. Filled(m, h, over, extra, Len(over))
  BY <1>3, <1>4, ExtraIs DEF Extras, over
<1>6. \A x \in DOMAIN over : x <= Len(over)
  BY <1>3
<1> HIDE DEF extra
<1>7. extra \in Seq(Groups!CacheGroup) /\ Apart(extra) /\ \A c \in DOMAIN extra : Tidy(m, h, extra[c])
  BY <1>5 DEF Filled
<1>8. ASSUME NEW c \in DOMAIN extra, NEW z \in ToSet(extra[c].layers)
      PROVE  \E j \in DOMAIN m.groups :
               z \in SpiltLayers(Over(m, h, j)) /\ m.groups[j].eagle = extra[c].eagle
  <2>1. PICK y \in DOMAIN over : over[y].layer = z /\ over[y].eagle = extra[c].eagle
    BY <1>5, <1>8 DEF Filled
  <2>2. PICK j \in DOMAIN m.groups :
          over[y].layer \in SpiltLayers(Over(m, h, j)) /\ over[y].eagle = m.groups[j].eagle
    BY <1>3
  <2>3. QED
    BY <2>1, <2>2
<1>9. ASSUME NEW j \in DOMAIN m.groups, NEW z \in SpiltLayers(Over(m, h, j))
      PROVE  \E c \in DOMAIN extra : z \in ToSet(extra[c].layers)
  <2>1. z \in SpiltLayers(over)
    BY <1>3
  <2>2. PICK y \in DOMAIN over : over[y].layer = z
    BY <2>1 DEF SpiltLayers
  <2>3. QED
    BY <1>5, <1>6, <2>2 DEF Filled
<1>10. QED
  BY <1>7, <1>8, <1>9 DEF extra

\* The groups of a model with what is left of them, and the extra ones.
Output(m, h) == Kept(m, h) \o Extras(m, h)

\* Where the groups of the output are from.
LEMMA OutputIs ==
  ASSUME NEW m \in Models, NEW h \in Placements
  PROVE  /\ Output(m, h) \in Seq(Groups!CacheGroup)
         /\ \A x \in DOMAIN Output(m, h) :
              From(Output(m, h), x, Kept(m, h), Extras(m, h))
         /\ \A i \in DOMAIN m.groups : i \in DOMAIN Output(m, h) /\ Output(m, h)[i] = Kept(m, h)[i]
         /\ \A c \in DOMAIN Extras(m, h) : \E x \in DOMAIN Output(m, h) :
              Output(m, h)[x] = Extras(m, h)[c]
         /\ DOMAIN Kept(m, h) = DOMAIN m.groups /\ Len(Kept(m, h)) \in Nat
         /\ \A x \in DOMAIN Output(m, h) : x \in Nat
<1> DEFINE kept == Kept(m, h)
           extra == Extras(m, h)
           out == Output(m, h)
<1>1. kept \in Seq(Groups!CacheGroup) /\ DOMAIN kept = DOMAIN m.groups
  <2>1. DOMAIN kept = DOMAIN m.groups
    BY DEF Kept
  <2>2. kept = [i \in 1..Len(m.groups) |-> kept[i]]
    BY ModelIs DEF Kept
  <2>3. \A i \in 1..Len(m.groups) : kept[i] \in Groups!CacheGroup
    BY LeftIs, ModelIs DEF Left
  <2>4. Len(m.groups) \in Nat
    BY ModelIs
  <2> HIDE DEF kept
  <2>5. QED
    BY <2>1, <2>2, <2>3, <2>4
<1>2. extra \in Seq(Groups!CacheGroup)
  BY ExtrasAre
<1> HIDE DEF kept, extra
<1> DEFINE u == kept \o extra
<1>3. /\ u \in Seq(Groups!CacheGroup)
      /\ \A x \in DOMAIN u : From(u, x, kept, extra)
      /\ \A x \in DOMAIN kept : x \in DOMAIN u /\ u[x] = kept[x]
      /\ \A y \in DOMAIN extra : Len(kept) + y \in DOMAIN u /\ u[Len(kept) + y] = extra[y]
  BY <1>1, <1>2, JoinIs
<1>4. out = u
  BY DEF Output, u, kept, extra
<1> HIDE DEF u
<1>5. (\A x \in DOMAIN u : x \in Nat) /\ Len(kept) \in Nat
  BY <1>1, <1>3
<1>6. ASSUME NEW c \in DOMAIN extra PROVE \E x \in DOMAIN u : u[x] = extra[c]
  BY <1>3, <1>6
<1>7. QED
  BY <1>1, <1>3, <1>4, <1>5, <1>6 DEF kept, extra

\* A kept group and an extra one share no layer.
LEMMA KeptAndExtra ==
  ASSUME NEW m \in Models, NEW h \in Placements,
         NEW i \in DOMAIN m.groups, NEW c \in DOMAIN Extras(m, h)
  PROVE  ToSet(Kept(m, h)[i].layers) \cap ToSet(Extras(m, h)[c].layers) = {}
<1>1. SUFFICES ASSUME NEW z \in ToSet(Kept(m, h)[i].layers), z \in ToSet(Extras(m, h)[c].layers)
               PROVE  FALSE
  OBVIOUS
<1>2. PICK j \in DOMAIN m.groups : z \in SpiltLayers(Over(m, h, j))
  BY <1>1, ExtrasAre
<1>3. z \in ToSet(m.groups[j].layers)
  BY <1>2, OverIs
<1>4. z \in ToSet(m.groups[i].layers) /\ z \notin SpiltLayers(Over(m, h, i))
  BY LeftIs DEF Left
<1>5. QED
  BY <1>2, <1>3, <1>4, OneGroup

\* The output regroups the groups of the model.
LEMMA OutputRegroups ==
  ASSUME NEW m \in Models, NEW h \in Placements
  PROVE  Regroups(m, Output(m, h))
<1> DEFINE out == Output(m, h)
           kept == Kept(m, h)
           extra == Extras(m, h)
<1>1. /\ out \in Seq(Groups!CacheGroup) /\ \A x \in DOMAIN out : From(out, x, kept, extra)
      /\ \A i \in DOMAIN m.groups : i \in DOMAIN out /\ out[i] = kept[i]
      /\ \A c \in DOMAIN extra : \E x \in DOMAIN out : out[x] = extra[c]
      /\ DOMAIN kept = DOMAIN m.groups /\ Len(kept) \in Nat
      /\ \A x \in DOMAIN out : x \in Nat
  BY OutputIs
<1>2. \A i \in DOMAIN m.groups : Left(m, h, i, kept[i])
  BY LeftIs
<1>3. /\ Apart(extra) /\ \A c \in DOMAIN extra : Tidy(m, h, extra[c])
      /\ \A c \in DOMAIN extra : \A z \in ToSet(extra[c].layers) : \E j \in DOMAIN m.groups :
           z \in SpiltLayers(Over(m, h, j)) /\ m.groups[j].eagle = extra[c].eagle
      /\ \A j \in DOMAIN m.groups : \A z \in SpiltLayers(Over(m, h, j)) :
           \E c \in DOMAIN extra : z \in ToSet(extra[c].layers)
  BY ExtrasAre
<1>4. \A i \in DOMAIN m.groups, c \in DOMAIN extra :
        ToSet(kept[i].layers) \cap ToSet(extra[c].layers) = {}
  BY KeptAndExtra
<1> HIDE DEF out, kept, extra
<1>5. ASSUME NEW x \in DOMAIN out, NEW y \in DOMAIN out, x # y
      PROVE  ToSet(out[x].layers) \cap ToSet(out[y].layers) = {}
  <2>1. From(out, x, kept, extra) /\ From(out, y, kept, extra) /\ x \in Nat /\ y \in Nat
    BY <1>1
  <2>2. CASE x \in DOMAIN kept /\ y \in DOMAIN kept
    <3>1. /\ ToSet(out[x].layers) \in SUBSET ToSet(m.groups[x].layers)
          /\ ToSet(out[y].layers) \in SUBSET ToSet(m.groups[y].layers)
      BY <1>1, <1>2, <2>2 DEF Left
    <3>2. ToSet(m.groups[x].layers) \cap ToSet(m.groups[y].layers) = {}
      BY <1>1, <1>5, <2>2, OneGroup
    <3>3. QED
      BY <3>1, <3>2
  <2>3. CASE x \in DOMAIN kept /\ y \notin DOMAIN kept
    BY <1>1, <1>4, <2>1, <2>3 DEF From
  <2>4. CASE x \notin DOMAIN kept /\ y \in DOMAIN kept
    BY <1>1, <1>4, <2>1, <2>4 DEF From
  <2>5. CASE x \notin DOMAIN kept /\ y \notin DOMAIN kept
    <3>1. x - Len(kept) # y - Len(kept)
      BY <1>1, <1>5, <2>1
    <3>2. QED
      BY <1>3, <2>1, <2>5, <3>1 DEF From, Apart
  <2>6. QED
    BY <2>2, <2>3, <2>4, <2>5
<1>6. ASSUME NEW x \in DOMAIN out
      PROVE  /\ out[x].layers # <<>> /\ Single(out[x].layers)
             /\ Groups!Uniform(m, ToSet(out[x].layers))
             /\ \A z \in ToSet(out[x].layers) : \E j \in DOMAIN m.groups :
                  z \in ToSet(m.groups[j].layers) /\ m.groups[j].eagle = out[x].eagle
  <2>1. From(out, x, kept, extra)
    BY <1>1
  <2>2. CASE x \in DOMAIN kept
    <3>1. x \in DOMAIN m.groups /\ out[x] = kept[x] /\ Left(m, h, x, out[x])
      BY <1>1, <1>2, <2>2
    <3>2. /\ out[x].layers # <<>> /\ Single(out[x].layers) /\ m.groups[x].eagle = out[x].eagle
          /\ ToSet(out[x].layers) \in SUBSET ToSet(m.groups[x].layers)
      BY <3>1 DEF Left
    <3>3. Groups!Uniform(m, ToSet(m.groups[x].layers))
      BY <3>1, ModelIs
    <3>4. Groups!Uniform(m, ToSet(out[x].layers))
      BY <3>2, <3>3 DEF Groups!Uniform
    <3>5. QED
      BY <3>1, <3>2, <3>4
  <2>3. ASSUME NEW c \in DOMAIN extra, out[x] = extra[c]
        PROVE  /\ out[x].layers # <<>> /\ Single(out[x].layers)
               /\ Groups!Uniform(m, ToSet(out[x].layers))
               /\ \A z \in ToSet(out[x].layers) : \E j \in DOMAIN m.groups :
                    z \in ToSet(m.groups[j].layers) /\ m.groups[j].eagle = out[x].eagle
    <3>1. out[x].layers # <<>> /\ Single(out[x].layers) /\ Groups!Uniform(m, ToSet(out[x].layers))
      BY <1>3, <2>3 DEF Tidy
    <3>2. ASSUME NEW z \in ToSet(out[x].layers)
          PROVE  \E j \in DOMAIN m.groups :
                   z \in ToSet(m.groups[j].layers) /\ m.groups[j].eagle = out[x].eagle
      <4>1. PICK j \in DOMAIN m.groups :
              z \in SpiltLayers(Over(m, h, j)) /\ m.groups[j].eagle = out[x].eagle
        BY <1>3, <2>3
      <4>2. z \in ToSet(m.groups[j].layers)
        BY <4>1, OverIs
      <4>3. QED
        BY <4>1, <4>2
    <3>3. QED
      BY <3>1, <3>2
  <2>4. QED
    BY <2>1, <2>2, <2>3 DEF From
<1>7. \A i \in DOMAIN m.groups :
        /\ i \in DOMAIN out /\ out[i].eagle = m.groups[i].eagle
        /\ ToSet(out[i].layers) \in SUBSET ToSet(m.groups[i].layers)
        /\ ~Groups!IsState(m, m.groups[i]) => out[i] = m.groups[i]
  BY <1>1, <1>2 DEF Left
<1>8. Groups!Names(out) = Layer
  <2>1. ASSUME NEW z \in Layer PROVE z \in Groups!Names(out)
    <3>1. PICK j \in DOMAIN m.groups : z \in ToSet(m.groups[j].layers)
      BY ModelIs, NamesIs
    <3>2. CASE z \in ToSet(kept[j].layers)
      BY <1>1, <3>1, <3>2, NamesIs
    <3>3. CASE z \in SpiltLayers(Over(m, h, j))
      <4>1. PICK c \in DOMAIN extra : z \in ToSet(extra[c].layers)
        BY <1>3, <3>3
      <4>2. PICK x \in DOMAIN out : out[x] = extra[c]
        BY <1>1
      <4>3. QED
        BY <1>1, <4>1, <4>2, NamesIs
    <3>4. QED
      BY <1>2, <3>1, <3>2, <3>3 DEF Left
  <2>2. ASSUME NEW z \in Groups!Names(out) PROVE z \in Layer
    <3>1. PICK x \in DOMAIN out : z \in ToSet(out[x].layers)
      BY <1>1, NamesIs
    <3>2. out[x] \in Groups!CacheGroup
      BY <1>1
    <3>3. QED
      BY <3>1, <3>2, NamesAreLayers
  <2>3. QED
    BY <2>1, <2>2
<1>9. out # <<>>
  <2>1. m.groups # <<>> /\ m.groups \in Seq(Groups!CacheGroup)
    BY WasRegroups DEF Regroups
  <2>2. 1 \in DOMAIN m.groups
    BY <2>1
  <2>3. QED
    BY <1>1, <2>2
<1>10. QED
  BY <1>1, <1>5, <1>6, <1>7, <1>8, <1>9 DEF Regroups, Apart, out

\* Each of them fits.
LEMMA OutputFits ==
  ASSUME NEW m \in Models, NEW h \in Placements, NEW x \in DOMAIN Output(m, h), NEW w \in Groups!Workers
  PROVE  Groups!Width(m, ToSet(Output(m, h)[x].layers) \cap h[w]) <= Groups!Limit(m, h[w])
<1> DEFINE g == Output(m, h)[x]
<1>1. From(Output(m, h), x, Kept(m, h), Extras(m, h)) /\ DOMAIN Kept(m, h) = DOMAIN m.groups
  BY OutputIs
<1> HIDE DEF g
<1>2. ASSUME NEW c \in DOMAIN Extras(m, h), g = Extras(m, h)[c] PROVE Groups!Fits(m, h, ToSet(g.layers))
  BY <1>2, ExtrasAre DEF Tidy
<1>3. ASSUME x \in DOMAIN m.groups, g = Kept(m, h)[x], Groups!IsState(m, m.groups[x])
      PROVE  Groups!Fits(m, h, ToSet(g.layers))
  BY <1>3, LeftIs DEF Left
<1>4. ASSUME x \in DOMAIN m.groups, g = Kept(m, h)[x], ~Groups!IsState(m, m.groups[x])
      PROVE  Groups!Width(m, ToSet(g.layers) \cap h[w]) <= Groups!Limit(m, h[w])
  <2>1. g = m.groups[x] /\ g \in History(m)
    BY <1>4, LeftIs, OneGroup DEF Left, History
  <2>2. h[w] \in SUBSET Layer
    BY DEF Placements
  <2>3. QED
    BY <2>1, <2>2, LimitIs
<1>5. Groups!Fits(m, h, ToSet(g.layers)) => Groups!Width(m, ToSet(g.layers) \cap h[w]) <= Groups!Limit(m, h[w])
  BY DEF Groups!Fits
<1>6. Groups!Width(m, ToSet(g.layers) \cap h[w]) <= Groups!Limit(m, h[w])
  BY <1>1, <1>2, <1>3, <1>4, <1>5 DEF From, g
<1>7. QED
  BY <1>6 DEF g

\* No check of refine_owner_state_groups fails: it returns these groups.
LEMMA RefineIs ==
  ASSUME NEW m \in Models, NEW h \in Placements
  PROVE  Groups!Refine(m, h) = Output(m, h)
<1> DEFINE out == Output(m, h)
<1>1. Regroups(m, out)
  BY OutputRegroups
<1>2. Groups!Refine(m, h) = IF \/ \E g \in ToSet(out) : g.layers = <<>> \/ ~Groups!Uniform(m, ToSet(g.layers))
                               \/ ~Groups!Distinct(out) \/ Groups!Names(out) # Groups!Names(m.groups)
                            THEN Groups!Raised ELSE out
  BY DEF Groups!Refine, Output, Kept, Extras, ToSet
<1> HIDE DEF out
<1>3. Groups!Distinct(out)
  BY <1>1, RegroupsIsDistinct
<1>4. Groups!Names(out) = Groups!Names(m.groups)
  BY <1>1, ModelIs DEF Regroups
<1>5. \A g \in ToSet(out) : g.layers # <<>> /\ Groups!Uniform(m, ToSet(g.layers))
  <2>1. ASSUME NEW g \in ToSet(out) PROVE \E x \in DOMAIN out : g = out[x]
    BY <1>1 DEF ToSet, Groups!ToSet, Regroups
  <2>2. QED
    BY <1>1, <2>1 DEF Regroups
<1>6. QED
  BY <1>2, <1>3, <1>4, <1>5 DEF out

\* A set of one member has one.
LEMMA OneIsOne == ASSUME NEW x PROVE Groups!Cardinality({x}) = 1
BY FS_Singleton DEF Groups!Cardinality, Cardinality

\* Groups that regroup the model's lose nothing.
Whole(m, out) ==
  /\ out # Groups!Raised
  /\ \A z \in Layer : Groups!Cardinality({i \in DOMAIN out : z \in ToSet(out[i].layers)}) = 1
  /\ \A i \in DOMAIN m.groups :
       /\ ToSet(out[i].layers) \subseteq ToSet(m.groups[i].layers)
       /\ out[i].eagle = m.groups[i].eagle
       /\ ~Groups!IsState(m, m.groups[i]) => out[i] = m.groups[i]
  /\ \A i \in DOMAIN out : \A z \in ToSet(out[i].layers) : \E j \in DOMAIN m.groups :
       z \in ToSet(m.groups[j].layers) /\ m.groups[j].eagle = out[i].eagle

\* Whole is what Regrouped says, of groups of any model.
LEMMA RegroupsIsWhole ==
  ASSUME NEW m \in Models, NEW out, Regroups(m, out)
  PROVE  Whole(m, out)
<1>1. ASSUME NEW z \in Layer
      PROVE  Groups!Cardinality({i \in DOMAIN out : z \in ToSet(out[i].layers)}) = 1
  <2>1. PICK i \in DOMAIN out : z \in ToSet(out[i].layers)
    BY NamesIs DEF Regroups
  <2>2. {j \in DOMAIN out : z \in ToSet(out[j].layers)} = {i}
    BY SMTT(40), <2>1 DEF Regroups, Apart
  <2>3. QED
    BY <2>2, OneIsOne
<1>2. QED
  BY <1>1 DEF Regroups, Whole, Groups!Raised

-----------------------------------------------------------------------------
(* Blocks: how wide they are, and how many fit.                            *)

\* Blocks of d bytes in n bytes: as many as fit.
LEMMA QuotientIs ==
  ASSUME NEW n \in Nat, NEW d \in Nat, d > 0
  PROVE  n \div d \in Nat /\ (n \div d) * d <= n /\ n < ((n \div d) + 1) * d
OBVIOUS

\* There are fewer of larger blocks,
LEMMA FewerBlocks ==
  ASSUME NEW n \in Nat, NEW d \in Nat, d > 0, NEW e \in Nat, d <= e
  PROVE  n \div e <= n \div d
<1> DEFINE p == n \div e
           q == n \div d
<1>1. p \in Nat /\ q \in Nat /\ p * e <= n /\ n < (q + 1) * d /\ e > 0
  BY QuotientIs
<1> HIDE DEF p, q
<1>2. p * d <= p * e
  BY <1>1
<1>3. p * d < (q + 1) * d
  BY <1>1, <1>2
<1>4. p < q + 1
  BY <1>1, <1>3
<1>5. p <= q
  BY <1>1, <1>4
<1>6. QED
  BY <1>5 DEF p, q

\* and more in more bytes.
LEMMA MoreBytes ==
  ASSUME NEW n \in Nat, NEW more \in Nat, n <= more, NEW d \in Nat, d > 0
  PROVE  n \div d <= more \div d
<1> DEFINE p == n \div d
           q == more \div d
<1>1. p \in Nat /\ q \in Nat /\ p * d <= n /\ more < (q + 1) * d
  BY QuotientIs
<1> HIDE DEF p, q
<1>2. p * d < (q + 1) * d
  BY <1>1
<1>3. p < q + 1
  BY <1>1, <1>2
<1>4. p <= q
  BY <1>1, <1>3
<1>5. QED
  BY <1>4 DEF p, q

\* A wider group takes no narrower block, and none is empty.
LEMMA AlignedIs ==
  ASSUME NEW n \in Nat, NEW more \in Nat, n <= more
  PROVE  /\ Groups!Aligned(n) \in Nat /\ Groups!Aligned(more) \in Nat
         /\ Groups!Aligned(n) <= Groups!Aligned(more)
         /\ n <= Groups!Aligned(n)
<1> DEFINE p == (n + Align - 1) \div Align
           q == (more + Align - 1) \div Align
<1>1. Align \in Nat /\ Align > 0
  BY CacheAndServing DEF Groups!PlacementAssumption
<1>2. n + Align - 1 \in Nat /\ more + Align - 1 \in Nat /\ n + Align - 1 <= more + Align - 1
  BY <1>1
<1>3. p \in Nat /\ q \in Nat /\ n + Align - 1 < (p + 1) * Align
  BY <1>1, <1>2, QuotientIs
<1>4. p <= q
  BY <1>1, <1>2, MoreBytes
<1>5. Groups!Aligned(n) = p * Align /\ Groups!Aligned(more) = q * Align
  BY DEF Groups!Aligned
<1> HIDE DEF p, q
<1>6. p * Align \in Nat /\ q * Align \in Nat /\ p * Align <= q * Align
  BY <1>1, <1>3, <1>4
<1>7. (p + 1) * Align = p * Align + Align
  BY <1>1, <1>3
<1>8. n <= p * Align
  BY <1>1, <1>3, <1>6, <1>7
<1>9. QED
  BY <1>5, <1>6, <1>8

\* The groups of a worker are as wide as the limit at least.
LEMMA LimitIsMet ==
  ASSUME NEW m \in Models, NEW on \in SUBSET Layer, NEW out, Regroups(m, out)
  PROVE  /\ Widest(m, ToSet(out), on) \in Nat
         /\ Groups!Limit(m, on) <= Widest(m, ToSet(out), on)
         /\ \A z \in on : m.page[z] <= Widest(m, ToSet(out), on)
<1> DEFINE top == Widest(m, ToSet(out), on)
<1>1. ToSet(out) \in SUBSET Groups!CacheGroup
  BY DEF Regroups, ToSet, Groups!ToSet
<1>2. top \in Nat /\ \A g \in ToSet(out) : Groups!Width(m, ToSet(g.layers) \cap on) <= top
  BY <1>1, WidestIs
<1> HIDE DEF top
<1>3. ASSUME NEW z \in on PROVE m.page[z] <= top
  <2>1. PICK x \in DOMAIN out : z \in ToSet(out[x].layers)
    BY NamesIs DEF Regroups
  <2>2. out[x] \in ToSet(out) /\ out[x] \in Groups!CacheGroup
    BY <2>1 DEF Regroups, ToSet, Groups!ToSet
  <2> DEFINE names == ToSet(out[x].layers) \cap on
  <2>3. names \in SUBSET Layer /\ z \in names
    BY <2>1
  <2>4. Groups!Width(m, names) <= top
    BY <1>2, <2>2
  <2> HIDE DEF names
  <2>5. m.page[z] \in Nat /\ Groups!Width(m, names) \in Nat /\ m.page[z] <= Groups!Width(m, names)
    BY <2>3, WidthIsBounded, ModelIs
  <2>6. QED
    BY <1>2, <2>4, <2>5
<1>4. ASSUME NEW g \in History(m), Groups!Limit(m, on) = Groups!Width(m, ToSet(g.layers) \cap on)
      PROVE  Groups!Limit(m, on) <= top
  <2>1. g \in ToSet(m.groups) /\ ~Groups!IsState(m, g)
    BY DEF History
  <2>2. PICK i \in DOMAIN m.groups : g = m.groups[i]
    BY <2>1, ModelIs DEF ToSet, Groups!ToSet
  <2>3. i \in DOMAIN out /\ out[i] = g
    BY <2>1, <2>2 DEF Regroups
  <2>4. g \in ToSet(out)
    BY <2>3 DEF Regroups, ToSet, Groups!ToSet
  <2>5. QED
    BY <1>2, <1>4, <2>4
<1>5. \/ Groups!Limit(m, on) = 0
      \/ \E g \in History(m) : Groups!Limit(m, on) = Groups!Width(m, ToSet(g.layers) \cap on)
      \/ \E z \in Groups!StateLayers(m) \cap on : Groups!Limit(m, on) = m.page[z]
  BY LimitIs
<1>6. Groups!Limit(m, on) <= top
  <2>1. CASE Groups!Limit(m, on) = 0
    BY <1>2, <2>1
  <2>2. CASE \E g \in History(m) : Groups!Limit(m, on) = Groups!Width(m, ToSet(g.layers) \cap on)
    BY <1>4, <2>2
  <2>3. CASE \E z \in Groups!StateLayers(m) \cap on : Groups!Limit(m, on) = m.page[z]
    BY <1>3, <2>3
  <2>4. QED
    BY <1>5, <2>1, <2>2, <2>3
<1>7. QED
  BY <1>2, <1>3, <1>6 DEF top

\* Refined groups are no wider.
LEMMA OutputIsNarrow ==
  ASSUME NEW m \in Models, NEW h \in Placements, NEW w \in Groups!Workers
  PROVE  Widest(m, ToSet(Output(m, h)), h[w]) = Groups!Limit(m, h[w])
<1> DEFINE out == Output(m, h)
           top == Widest(m, ToSet(out), h[w])
<1>1. h[w] \in SUBSET Layer
  BY DEF Placements
<1>2. Regroups(m, out)
  BY OutputRegroups
<1>3. ASSUME NEW g \in ToSet(out) PROVE Groups!Width(m, ToSet(g.layers) \cap h[w]) <= Groups!Limit(m, h[w])
  <2>1. PICK x \in DOMAIN out : g = out[x]
    BY <1>2 DEF ToSet, Groups!ToSet, Regroups
  <2>2. QED
    BY <2>1, OutputFits
<1> HIDE DEF out
<1>4. top \in Nat /\ Groups!Limit(m, h[w]) <= top /\ Groups!Limit(m, h[w]) \in Nat
  BY <1>1, <1>2, LimitIsMet, LimitIs
<1>5. \/ \E g \in ToSet(out) : top = Groups!Width(m, ToSet(g.layers) \cap h[w])
      \/ top = 0
  <2>1. ToSet(out) \in SUBSET Groups!CacheGroup
    BY <1>2 DEF Regroups, ToSet, Groups!ToSet
  <2>2. QED
    BY <1>1, <2>1, WidestIs
<1>6. top <= Groups!Limit(m, h[w])
  <2>1. CASE top = 0
    BY <1>4, <2>1
  <2>2. ASSUME NEW g \in ToSet(out), top = Groups!Width(m, ToSet(g.layers) \cap h[w])
        PROVE  top <= Groups!Limit(m, h[w])
    BY <1>3, <2>2
  <2>3. QED
    BY <1>5, <2>1, <2>2
<1>7. top = Groups!Limit(m, h[w])
  <2> HIDE DEF top
  <2>1. QED
    BY <1>4, <1>6
<1>8. QED
  BY <1>7 DEF top, out

\* A block is as wide as the widest group, aligned.
LEMMA StrideIs == ASSUME NEW m, NEW out, NEW on PROVE Groups!Stride(m, out, on) = Groups!Aligned(Widest(m, ToSet(out), on))
BY DEF Groups!Stride, Widest, ToSet

\* Every cut is a placement that leaves each worker a layer.
Cuts == 1..(LayerCount - 1)

\* Each cut is a placement in which no worker is without layers.
LEMMA CutIs ==
  /\ Groups!Replicated \in Placements
  /\ \A cut \in Cuts : /\ Groups!CutAt(cut) \in Placements
                       /\ \A w \in Groups!Workers : \E z \in Layer : z \in Groups!CutAt(cut)[w]
<1>1. LayerCount \in Nat /\ LayerCount > 1
  BY CacheAndServing DEF Groups!PlacementAssumption
<1>2. Groups!Replicated \in Placements
  BY DEF Groups!Replicated, Placements, Layer
<1>3. ASSUME NEW cut \in Cuts
      PROVE  /\ Groups!CutAt(cut) \in Placements
             /\ \A w \in Groups!Workers : \E z \in Layer : z \in Groups!CutAt(cut)[w]
  <2>1. cut \in Nat /\ 0 < cut /\ cut < LayerCount
    BY <1>1 DEF Cuts
  <2>2. /\ Groups!CutAt(cut) \in [Groups!Workers -> SUBSET Layer]
        /\ \A w \in Groups!Workers : \A z \in Layer :
             z \in Groups!CutAt(cut)[w] <=> ((z < cut) = (w = 0))
    BY DEF Groups!CutAt, Layer
  <2>3. 0 \in Layer /\ LayerCount \in Layer /\ 0 < cut /\ ~ (LayerCount < cut)
    BY <1>1, <2>1 DEF Layer, Groups!Layers
  <2>4. ASSUME NEW w \in Groups!Workers PROVE \E z \in Layer : z \in Groups!CutAt(cut)[w]
    <3>1. CASE w = 0
      BY <2>2, <2>3, <3>1
    <3>2. CASE w # 0
      BY <2>2, <2>3, <3>2
    <3>3. QED
      BY <3>1, <3>2
  <2>5. QED
    BY <2>2, <2>4 DEF Placements
<1>4. QED
  BY <1>2, <1>3

\* A block is not empty, and refining makes none wider.
LEMMA StridesAre ==
  ASSUME NEW m \in Models, NEW cut \in Cuts, NEW w \in Groups!Workers, NEW out, Regroups(m, out)
  PROVE  /\ Groups!Stride(m, out, Groups!CutAt(cut)[w]) \in Nat
         /\ Groups!Stride(m, out, Groups!CutAt(cut)[w]) > 0
         /\ Groups!Stride(m, Output(m, Groups!CutAt(cut)), Groups!CutAt(cut)[w])
              <= Groups!Stride(m, out, Groups!CutAt(cut)[w])
<1> DEFINE h == Groups!CutAt(cut)
           on == h[w]
           top == Widest(m, ToSet(out), on)
           lim == Groups!Limit(m, on)
<1>1. h \in Placements /\ on \in SUBSET Layer
  BY CutIs DEF Placements
<1>2. PICK z \in Layer : z \in on
  BY CutIs
<1>3. /\ Groups!Stride(m, out, on) = Groups!Aligned(top)
      /\ Groups!Stride(m, Output(m, h), on) = Groups!Aligned(Widest(m, ToSet(Output(m, h)), on))
  BY StrideIs
<1>4. Widest(m, ToSet(Output(m, h)), on) = lim
  <2> HIDE DEF h
  <2>1. QED
    BY <1>1, OutputIsNarrow
<1> HIDE DEF on
<1>5. top \in Nat /\ lim <= top /\ m.page[z] <= top /\ lim \in Nat
  BY <1>1, <1>2, LimitIsMet, LimitIs
<1>6. m.page[z] \in Nat /\ m.page[z] # 0
  BY ModelIs
<1> HIDE DEF top, lim
<1>7. Groups!Aligned(lim) \in Nat /\ Groups!Aligned(top) \in Nat /\ Groups!Aligned(lim) <= Groups!Aligned(top)
  BY <1>5, AlignedIs
<1>8. top <= Groups!Aligned(top)
  BY <1>5, AlignedIs
<1>9. top > 0
  BY <1>5, <1>6
<1>10. Groups!Aligned(top) > 0
  BY <1>5, <1>7, <1>8, <1>9
<1>11. QED
  BY <1>3, <1>4, <1>7, <1>10 DEF on, h

\* The pools of the common size are the most that fit on both workers.
PoolsFit(pools, budget) ==
  /\ pools.feasible /\ pools.common \in Nat
  /\ \A w \in Groups!Workers : /\ pools.stride[w] \in Nat /\ pools.stride[w] > 0
                               /\ pools.common <= budget[w] \div pools.stride[w]
  /\ \E w \in Groups!Workers : pools.common = budget[w] \div pools.stride[w]

\* A row of the planner has such pools.
LEMMA PoolsAre ==
  ASSUME NEW m \in Models, NEW cut \in Cuts, NEW out, Regroups(m, out),
         NEW budget, \A w \in Groups!Workers : budget[w] \in Int /\ budget[w] > 0
  PROVE  /\ PoolsFit(Groups!Pools(m, out, cut, budget), budget)
         /\ \A w \in Groups!Workers : Groups!Pools(m, out, cut, budget).stride[w]
              = Groups!Stride(m, out, Groups!CutAt(cut)[w])
<1> DEFINE stride == [w \in Groups!Workers |-> Groups!Stride(m, out, Groups!CutAt(cut)[w])]
           S == {budget[w] \div stride[w] : w \in Groups!Workers}
           pools == Groups!Pools(m, out, cut, budget)
<1>1. \A w \in Groups!Workers : stride[w] \in Nat /\ stride[w] > 0
  BY StridesAre
<1>2. \A w \in Groups!Workers : ~ (budget[w] <= 0) /\ budget[w] \in Nat
  OBVIOUS
<1>3. pools = [feasible |-> TRUE, stride |-> stride, common |-> Groups!Min(S)]
  BY <1>2 DEF Groups!Pools
<1>4. \A w \in Groups!Workers : stride[w] = Groups!Stride(m, out, Groups!CutAt(cut)[w])
  OBVIOUS
<1> HIDE DEF stride, pools
<1>5. S \in SUBSET Nat
  BY <1>1, <1>2, QuotientIs
<1>6. S # {} /\ (\A w \in Groups!Workers : budget[w] \div stride[w] \in S)
      /\ (\A x \in S : \E w \in Groups!Workers : x = budget[w] \div stride[w])
  BY DEF Groups!Workers
<1> HIDE DEF S
<1>7. Groups!Min(S) \in S /\ \A x \in S : Groups!Min(S) <= x
  BY <1>5, <1>6, LeastIs
<1>8. PoolsFit(pools, budget) /\ pools.stride = stride
  BY <1>1, <1>3, <1>5, <1>6, <1>7 DEF PoolsFit
<1>9. QED
  BY <1>4, <1>8 DEF pools

\* They fit, and one block more does not.
LEMMA PoolsFill ==
  ASSUME NEW budget, \A w \in Groups!Workers : budget[w] \in Int /\ budget[w] > 0,
         NEW pools, PoolsFit(pools, budget)
  PROVE  /\ \A w \in Groups!Workers : pools.common * pools.stride[w] <= budget[w]
         /\ \E w \in Groups!Workers : (pools.common + 1) * pools.stride[w] > budget[w]
<1>1. ASSUME NEW w \in Groups!Workers
      PROVE  /\ pools.common * pools.stride[w] <= budget[w]
             /\ pools.common = budget[w] \div pools.stride[w]
                  => (pools.common + 1) * pools.stride[w] > budget[w]
  <2> DEFINE c == pools.common
             s == pools.stride[w]
             d == budget[w]
             q == d \div s
  <2>1. c \in Nat /\ s \in Nat /\ s > 0 /\ c <= q /\ d \in Nat
    BY DEF PoolsFit
  <2> HIDE DEF c, s, d
  <2>2. q \in Nat /\ q * s <= d /\ d < (q + 1) * s
    BY <2>1, QuotientIs
  <2> HIDE DEF q
  <2>3. c * s <= q * s /\ c * s \in Nat /\ q * s \in Nat
    BY <2>1, <2>2
  <2>4. c * s <= d
    BY <2>1, <2>2, <2>3
  <2>5. c = q => (c + 1) * s > d
    BY <2>1, <2>2
  <2>6. QED
    BY <2>4, <2>5 DEF c, s, d, q
<1>2. QED
  BY <1>1 DEF PoolsFit

\* Refining for the owners of a cut costs no blocks, whatever the workers' memory
\* (the choice of balance_kv_groups in apply_real_cache_planner).
THEOREM RefiningPays ==
  ASSUME NEW m \in Models, NEW cut \in Cuts, NEW out, Regroups(m, out),
         NEW budget, \A w \in Groups!Workers : budget[w] \in Int /\ budget[w] > 0
  PROVE  Groups!Pools(m, out, cut, budget).common
           <= Groups!Pools(m, Output(m, Groups!CutAt(cut)), cut, budget).common
<1> DEFINE new == Output(m, Groups!CutAt(cut))
           p == Groups!Pools(m, out, cut, budget)
           q == Groups!Pools(m, new, cut, budget)
<1>1. Groups!CutAt(cut) \in Placements
  BY CutIs
<1>2. Regroups(m, new)
  BY <1>1, OutputRegroups
<1>3. \A w \in Groups!Workers :
        Groups!Stride(m, new, Groups!CutAt(cut)[w]) <= Groups!Stride(m, out, Groups!CutAt(cut)[w])
  BY StridesAre
<1> HIDE DEF new
<1>4. PoolsFit(p, budget) /\ PoolsFit(q, budget)
  BY <1>2, PoolsAre
<1>5. \A w \in Groups!Workers : q.stride[w] <= p.stride[w]
  <2>1. \A w \in Groups!Workers : p.stride[w] = Groups!Stride(m, out, Groups!CutAt(cut)[w])
    BY PoolsAre
  <2>2. \A w \in Groups!Workers : q.stride[w] = Groups!Stride(m, new, Groups!CutAt(cut)[w])
    BY <1>2, PoolsAre
  <2>3. QED
    BY <1>3, <2>1, <2>2
<1> HIDE DEF p, q
<1>6. PICK w \in Groups!Workers : q.common = budget[w] \div q.stride[w]
  BY <1>4 DEF PoolsFit
<1>7. /\ p.common \in Nat /\ q.common \in Nat /\ p.common <= budget[w] \div p.stride[w]
      /\ p.stride[w] \in Nat /\ q.stride[w] \in Nat /\ q.stride[w] > 0 /\ p.stride[w] > 0
      /\ q.stride[w] <= p.stride[w] /\ budget[w] \in Nat
  BY <1>4, <1>5 DEF PoolsFit
<1>8. budget[w] \div p.stride[w] <= budget[w] \div q.stride[w]
  BY <1>7, FewerBlocks
<1>9. budget[w] \div p.stride[w] \in Nat
  BY <1>7, QuotientIs
<1>10. p.common <= q.common
  BY <1>6, <1>7, <1>8, <1>9
<1>11. QED
  BY <1>10 DEF p, q, new

\* What a tower takes on a worker.
LEMMA TowerIs ==
  ASSUME NEW m \in Models, NEW r \in Receipts, Groups!ValidReceipt(m, r),
         NEW t \in Groups!Towers, NEW w \in Groups!Workers
  PROVE  /\ r.tower[t][w] \in Nat
         /\ Groups!Max(Groups!Present(r, t)) \in Nat
         /\ r.tower[t][w] # 0 /\ (\A v \in Groups!Workers : v # w => r.tower[t][v] = 0)
              => Groups!Max(Groups!Present(r, t)) = r.tower[t][w]
<1> DEFINE S == Groups!Present(r, t)
           top == r.tower[t][0] + r.tower[t][1]
<1>1. \A v \in Groups!Workers : r.tower[t][v] \in Nat
  <2>1. r \in Groups!Attestations
    BY CacheAndServing DEF Groups!PlacementAssumption
  <2>2. r.tower \in [Groups!Towers -> [Groups!Workers -> Nat]]
    BY <2>1 DEF Groups!Attestations
  <2>3. QED
    BY <2>2
<1>2. /\ \A v \in Groups!Workers : r.tower[t][v] # 0 => r.tower[t][v] \in S
      /\ \A x \in S : \E v \in Groups!Workers : x = r.tower[t][v] /\ r.tower[t][v] # 0
  BY DEF Groups!Present
<1>3. S \in SUBSET Nat /\ top \in Nat /\ \A x \in S : x <= top
  BY <1>1, <1>2 DEF Groups!Workers
<1>4. S # {}
  <2>1. Groups!Cardinality(S) = 1
    BY DEF Groups!ValidReceipt
  <2>2. Groups!Cardinality({}) = 0
    BY FS_EmptySet DEF Groups!Cardinality, Cardinality
  <2>3. QED
    BY <2>1, <2>2
<1> HIDE DEF S, top
<1>5. Groups!Largest(S) \in Nat /\ Groups!Largest(S) \in S
  BY <1>3, <1>4, LargestIs
<1>6. Groups!Max(S) = Groups!Largest(S)
  BY <1>4 DEF Groups!Largest
<1>7. ASSUME r.tower[t][w] # 0, \A v \in Groups!Workers : v # w => r.tower[t][v] = 0
      PROVE  Groups!Max(S) = r.tower[t][w]
  BY <1>2, <1>5, <1>6, <1>7
<1>8. QED
  BY <1>1, <1>5, <1>6, <1>7 DEF S

\* A worker's budget, and what it is for the placement that was measured.
LEMMA BudgetIs ==
  ASSUME NEW m \in Models, NEW r \in Receipts, Groups!ValidReceipt(m, r), NEW cut \in Cuts,
         NEW owner \in [Groups!Towers -> Groups!Workers], NEW w \in Groups!Workers
  PROVE  /\ Groups!Budget(r, cut, owner, w) \in Int
         /\ /\ Groups!CutAt(cut)[0] = r.owns[0]
            /\ \A t \in Groups!Towers, v \in Groups!Workers : (r.tower[t][v] # 0) = (owner[t] = v)
            => Groups!Budget(r, cut, owner, w) = r.kv[w] - Reserve
<1> DEFINE own == r.owns[w]
           new == Groups!CutAt(cut)[w] \cap Groups!Target
           c == Groups!Total(r.dense, own)
           d == Groups!Total(r.dense, new)
           p == Groups!OldTowers(r, w)
           q == Groups!NewTowers(r, owner, w)
           kv == r.kv[w]
<1>1. r \in Groups!Attestations /\ Reserve \in Nat /\ LayerCount \in Nat /\ LayerCount > 1
  BY CacheAndServing DEF Groups!PlacementAssumption
<1>2. /\ r.dense \in [Groups!Target -> Nat] /\ own \in SUBSET Groups!Target /\ kv \in Int
      /\ new \in SUBSET Groups!Target
  BY <1>1 DEF Groups!Attestations
<1>3. Groups!Target \in SUBSET Groups!Layers
  BY <1>1 DEF Groups!Target, Groups!Layers
<1>4. c \in Nat /\ d \in Nat
  <2>1. \A names \in SUBSET Groups!Target : Groups!Total(r.dense, names) \in Nat
    <3>1. SUFFICES ASSUME NEW names \in SUBSET Groups!Target PROVE Groups!Total(r.dense, names) \in Nat
      OBVIOUS
    <3>2. names \in SUBSET Groups!Layers /\ \A z \in names : r.dense[z] \in Nat
      BY <1>2, <1>3
    <3>3. QED
      BY <3>2, TotalOfMore
  <2>2. QED
    BY <1>2, <2>1
<1>5. "visual" \in Groups!Towers /\ "audio_tower" \in Groups!Towers
  BY DEF Groups!Towers
<1>6. /\ p = r.tower["visual"][w] + r.tower["audio_tower"][w]
      /\ q = Groups!Moved(r, owner, w, "visual") + Groups!Moved(r, owner, w, "audio_tower")
  BY DEF Groups!OldTowers, Groups!NewTowers
<1>7. ASSUME NEW t \in Groups!Towers
      PROVE  /\ r.tower[t][w] \in Nat /\ Groups!Moved(r, owner, w, t) \in Nat
             /\ (\A v \in Groups!Workers : (r.tower[t][v] # 0) = (owner[t] = v))
                  => Groups!Moved(r, owner, w, t) = r.tower[t][w]
  <2>1. r.tower[t][w] \in Nat /\ Groups!Max(Groups!Present(r, t)) \in Nat
    BY TowerIs
  <2>2. ASSUME \A v \in Groups!Workers : (r.tower[t][v] # 0) = (owner[t] = v)
        PROVE  Groups!Moved(r, owner, w, t) = r.tower[t][w]
    <3>1. CASE owner[t] = w
      <4>1. r.tower[t][w] # 0 /\ \A v \in Groups!Workers : v # w => r.tower[t][v] = 0
        BY <2>2, <3>1
      <4>2. Groups!Max(Groups!Present(r, t)) = r.tower[t][w]
        BY <4>1, TowerIs
      <4>3. QED
        BY <3>1, <4>2 DEF Groups!Moved
    <3>2. CASE owner[t] # w
      BY <2>2, <3>2 DEF Groups!Moved
    <3>3. QED
      BY <3>1, <3>2
  <2>3. QED
    BY <2>1, <2>2 DEF Groups!Moved
<1>8. p \in Nat /\ q \in Nat
  BY <1>5, <1>6, <1>7
<1>9. Groups!Budget(r, cut, owner, w) = kv + c + p - d - q - Reserve
  BY DEF Groups!Budget
<1>10. ASSUME Groups!CutAt(cut)[0] = r.owns[0],
              \A t \in Groups!Towers, v \in Groups!Workers : (r.tower[t][v] # 0) = (owner[t] = v)
       PROVE  c = d /\ p = q
  <2>1. new = own
    <3>1. r.owns[0] \cap r.owns[1] = {} /\ r.owns[0] \cup r.owns[1] = Groups!Target
      BY DEF Groups!ValidReceipt
    <3>2. \A z \in Groups!Layers : z \in Groups!CutAt(cut)[1] <=> z \notin Groups!CutAt(cut)[0]
      BY DEF Groups!CutAt, Groups!Workers
    <3>3. CASE w = 0
      BY <1>10, <3>1, <3>3
    <3>4. CASE w = 1
      BY <1>3, <1>10, <3>1, <3>2, <3>4
    <3>5. QED
      BY <3>3, <3>4 DEF Groups!Workers
  <2>2. \A t \in Groups!Towers : Groups!Moved(r, owner, w, t) = r.tower[t][w]
    BY <1>7, <1>10
  <2>3. QED
    BY <1>5, <1>6, <2>1, <2>2
<1> HIDE DEF c, d, p, q, kv
<1>11. kv \in Int
  BY <1>2 DEF kv
<1>12. QED
  BY <1>1, <1>4, <1>8, <1>9, <1>10, <1>11 DEF kv

-----------------------------------------------------------------------------
(* The invariant of the stage.                                             *)

PlacementInv ==
  /\ model \in Models /\ receipt \in Receipts
  /\ Whole(model, refined)
  /\ estimate.kind = "none" => Groups!Narrow
  /\ estimate.kind = "row" =>
       Groups!Consistent /\ (estimate.refine /\ estimate.pools.feasible => Groups!Narrow)

\* The invariant contains the property.
LEMMA PlacementInvIsSound == PlacementInv => Groups!PlacementSound
BY DEF PlacementInv, Whole, Groups!PlacementSound, Groups!Regrouped, Groups!Was, ToSet, Layer

\* Whatever layers two workers hold, with or without an owner each, no check of
\* refine_owner_state_groups fails; what it returns has each layer once, each group of
\* the model in its place and history untouched, and blocks no wider than a worker's
\* history or its widest single state layer.
THEOREM RefinementIsLossless ==
  ASSUME NEW m \in Models, NEW h \in Placements
  PROVE  /\ Regroups(m, Groups!Refine(m, h)) /\ Whole(m, Groups!Refine(m, h))
         /\ \A w \in Groups!Workers :
              Groups!Stride(m, Groups!Refine(m, h), h[w]) = Groups!Aligned(Groups!Limit(m, h[w]))
<1> DEFINE out == Groups!Refine(m, h)
<1>1. out = Output(m, h)
  BY RefineIs
<1>2. Regroups(m, out)
  BY <1>1, OutputRegroups
<1>3. \A w \in Groups!Workers : Widest(m, ToSet(out), h[w]) = Groups!Limit(m, h[w])
  BY <1>1, OutputIsNarrow
<1> HIDE DEF out
<1>4. Whole(m, out)
  BY <1>2, RegroupsIsWhole
<1>5. QED
  BY <1>2, <1>3, <1>4, StrideIs DEF out

\* The first start keeps it.
LEMMA PlacementInitially == Groups!Init => PlacementInv
<1> SUFFICES ASSUME Groups!Init PROVE PlacementInv
  OBVIOUS
<1>1. /\ model \in Models /\ receipt \in Receipts /\ held = Groups!CutAt(1)
      /\ refined = Groups!Refine(model, held) /\ estimate.kind = "none"
  BY DEF Groups!Init, Groups!None
<1>2. held \in Placements
  <2>1. 1 \in Cuts
    BY CacheAndServing DEF Groups!PlacementAssumption, Cuts
  <2>2. QED
    BY <1>1, <2>1, CutIs
<1>3. /\ Whole(model, refined)
      /\ \A w \in Groups!Workers :
           Groups!Stride(model, refined, held[w]) = Groups!Aligned(Groups!Limit(model, held[w]))
  BY <1>1, <1>2, RefinementIsLossless
<1>4. QED
  BY <1>1, <1>3 DEF PlacementInv, Groups!Narrow

\* Every step of the planner and each start keep that.
LEMMA PlacementStep ==
  ASSUME PlacementInv, Groups!Next
  PROVE  PlacementInv'
<1>1. CASE Groups!Serve
  <2>1. /\ model' \in Models /\ receipt' \in Receipts /\ refined' = Groups!Refine(model', held')
        /\ estimate'.kind = "none"
    BY <1>1 DEF Groups!Serve, PlacementInv, Groups!None
  <2>2. held' \in Placements
    BY <1>1, CutIs DEF Groups!Serve, Cuts
  <2>3. /\ Whole(model', refined')
        /\ \A w \in Groups!Workers :
             Groups!Stride(model', refined', held'[w]) = Groups!Aligned(Groups!Limit(model', held'[w]))
    BY <2>1, <2>2, RefinementIsLossless
  <2>4. Groups!Narrow'
    BY <2>3 DEF Groups!Narrow
  <2>5. QED
    BY <2>1, <2>3, <2>4 DEF PlacementInv
<1>2. CASE Groups!Refuse
  <2>1. estimate'.kind = "refused" /\ UNCHANGED <<model, receipt, refined>>
    BY <1>2 DEF Groups!Refuse, Groups!Refused
  <2>2. QED
    BY <2>1 DEF PlacementInv
<1>3. CASE Groups!Estimate
  <2>1. PICK cut \in Cuts, owner \in [Groups!Towers -> Groups!Workers], refine \in BOOLEAN :
          LET budget == [w \in Groups!Workers |-> Groups!Budget(receipt, cut, owner, w)]
          IN /\ Groups!ValidReceipt(model, receipt)
             /\ held' = Groups!CutAt(cut)
             /\ refined' = IF refine /\ (\A w \in Groups!Workers : budget[w] > 0)
                             THEN Groups!Refine(model, held') ELSE model.groups
             /\ refined' # Groups!Raised
             /\ estimate' = [kind |-> "row", cut |-> cut, owner |-> owner, refine |-> refine,
                             budget |-> budget, pools |-> Groups!Pools(model, refined', cut, budget)]
             /\ UNCHANGED <<model, receipt>>
    BY <1>3 DEF Groups!Estimate, Groups!Candidate, Cuts
  <2> DEFINE budget == [w \in Groups!Workers |-> Groups!Budget(receipt, cut, owner, w)]
             pools == Groups!Pools(model, refined', cut, budget)
             all == \A w \in Groups!Workers : budget[w] > 0
  <2>2. /\ model \in Models /\ receipt \in Receipts /\ Groups!ValidReceipt(model, receipt)
        /\ held' = Groups!CutAt(cut) /\ held' \in Placements
        /\ model' = model /\ receipt' = receipt
    BY <2>1, CutIs DEF PlacementInv
  <2>3. /\ estimate'.kind = "row" /\ estimate'.cut = cut /\ estimate'.owner = owner
        /\ estimate'.refine = refine /\ estimate'.budget = budget /\ estimate'.pools = pools
    BY <2>1
  <2>4. \A w \in Groups!Workers : budget[w] \in Int
    BY <2>2, BudgetIs
  <2>5. /\ Groups!CutAt(cut)[0] = receipt.owns[0]
        /\ \A t \in Groups!Towers, v \in Groups!Workers : (receipt.tower[t][v] # 0) = (owner[t] = v)
        => \A w \in Groups!Workers : budget[w] = receipt.kv[w] - Reserve
    BY <2>2, BudgetIs
  <2>6. refine /\ all => refined' = Groups!Refine(model, held')
    BY <2>1
  <2>7. ~ (refine /\ all) => refined' = model.groups
    BY <2>1
  <2>8. Regroups(model, refined') /\ Whole(model, refined')
    BY <2>2, <2>6, <2>7, RefinementIsLossless, WasRegroups, RegroupsIsWhole
  <2>9. ~all => ~pools.feasible
    <3>1. ASSUME ~all PROVE \E w \in Groups!Workers : budget[w] <= 0
      BY <2>4, <3>1
    <3> HIDE DEF budget, all
    <3>2. QED
      BY <3>1 DEF Groups!Pools
  <2> HIDE DEF budget
  <2>10. all => PoolsFit(pools, budget)
    BY <2>2, <2>4, <2>8, PoolsAre
  <2>11. refine /\ all => Groups!Pools(model, model.groups, cut, budget).common <= pools.common
    <3>1. ASSUME refine, all
          PROVE  Groups!Pools(model, model.groups, cut, budget).common <= pools.common
      <4>1. refined' = Output(model, Groups!CutAt(cut))
        BY <2>2, <2>6, <3>1, RefineIs
      <4>2. Regroups(model, model.groups)
        BY <2>2, WasRegroups
      <4>3. QED
        BY <2>2, <2>4, <3>1, <4>1, <4>2, RefiningPays
    <3>2. QED
      BY <3>1
  <2>12. refine /\ all => Groups!Narrow'
    BY <2>2, <2>6, RefinementIsLossless DEF Groups!Narrow
  <2> HIDE DEF pools
  <2>13. all => /\ \A w \in Groups!Workers : pools.common * pools.stride[w] <= budget[w]
                /\ \E w \in Groups!Workers : (pools.common + 1) * pools.stride[w] > budget[w]
    BY <2>4, <2>10, PoolsFill
  <2> HIDE DEF all
  <2>14. Groups!Consistent'
    BY <2>2, <2>3, <2>5, <2>9, <2>11, <2>13 DEF Groups!Consistent, Groups!Was
  <2>15. QED
    BY <2>2, <2>3, <2>8, <2>9, <2>12, <2>14 DEF PlacementInv
<1>4. QED
  BY <1>1, <1>2, <1>3 DEF Groups!Next

\* Refining groups for the owners of the layers loses and duplicates none, leaves
\* history alone, makes no block wider than it need be and never costs blocks; the
\* planner's rows fill each worker's budget and give back what was measured
\* (refine_owner_state_groups, storage_plan and apply_real_cache_planner).
THEOREM CachesAreRegrouped == ArtifactsSpec => []PlacementSound
<1> DEFINE Inv == stage = "placement" => PlacementInv
<1>1. ArtifactsInit => Inv
  BY PlacementInitially DEF ArtifactsInit
<1>2. ASSUME Inv, [ArtifactsNext]_<<stage, remoteVars, publicationVars, cacheVars, placementVars, servingVars>>
      PROVE  Inv'
  <2>1. CASE stage = "placement" /\ Groups!Next
    BY <1>2, <2>1, PlacementStep DEF ArtifactsNext
  <2>2. CASE stage' = stage /\ (stage = "placement" => UNCHANGED placementVars)
    BY <1>2, <2>2 DEF placementVars, PlacementInv, Groups!Narrow, Groups!Consistent, Groups!Was
  <2>3. QED
    BY <1>2, <2>1, <2>2 DEF ArtifactsNext
<1>3. Inv => PlacementSound
  BY PlacementInvIsSound DEF PlacementSound
<1>4. QED
  BY <1>1, <1>2, <1>3, PTL DEF ArtifactsSpec
=============================================================================
