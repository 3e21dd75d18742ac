----------------------------- MODULE MCArtifacts -----------------------------
(***************************************************************************)
(* What becomes of a quantization, one stage at a time: projections        *)
(* quantized remotely, the export's acceptance, publication and            *)
(* installation, the compiled caches, and the containers run.py serves.    *)
(* A behaviour is one stage, chosen at first.  Stages hand over finished   *)
(* files (the checkpoints, the snapshot, the image), which each module     *)
(* receives as any of the contents they may have; they share no state      *)
(* while they run, so the others stay where they are.                      *)
(***************************************************************************)
EXTENDS Naturals, Sequences, Functions, FiniteSets, TLC

CONSTANTS
  Stages,              \* the stages to check
  a, b,                \* scripts, containers, the worker's projections
  k, l,                \* ranks, the worker's images
  Exports, Sound, Projections, Scripts, Hosts,
  MaxExports, MaxRuns, MaxKills, MaxCommits, MaxDamage,
  Ranks, Objects, Graphs, Temps, Builds, Runtimes, Containers, MaxStarts,
  WorkerProjections, WorkerImages, MaxAttempts, MaxPrepares, MaxSends, MaxDeaths,
  LayerCount, Align, Reserve, Models, Receipts,
  Platform, Images, Labelled, Profiles, Reports, SettingsFiles

VARIABLES
  stage,
  \* RemoteWorker
  config, secret, token, preparing, worker, coord, sent, thread, result, holder,
  awaiting, tries, store, accepted, prepares, sends, deaths,
  \* Publication
  quant, journal, export, recipeCard, reports, manifest, hub, hubrev, script, chain,
  rev, snapshot, host, exports, runs, kills, damage,
  \* CacheBundle
  cache, bundle, image, cpc, where, runtime, todo, file, temp, starts, spoils,
  \* CacheGroups
  model, receipt, held, refined, estimate,
  \* ReleaseRun
  settings, report, pulled, container, restarting

Remote == INSTANCE RemoteWorker
            WITH Projections <- WorkerProjections, Images <- WorkerImages, journal <- accepted
Pub == INSTANCE Publication WITH pc <- script
Cache == INSTANCE CacheBundle
Groups == INSTANCE CacheGroups
Run == INSTANCE ReleaseRun

ASSUME RemoteAndPublication == Remote!RemoteAssumption /\ Pub!PublicationAssumption
ASSUME CacheAndServing == Cache!CacheAssumption /\ Groups!PlacementAssumption /\ Run!RunAssumption

remoteVars == <<config, secret, token, preparing, worker, coord, sent, thread, result,
                holder, awaiting, tries, store, accepted, prepares, sends, deaths>>
publicationVars == <<quant, journal, export, recipeCard, reports, manifest, hub, hubrev,
                     script, chain, rev, snapshot, host, exports, runs, kills, damage>>
cacheVars == <<cache, bundle, image, cpc, where, runtime, todo, file, temp, starts, spoils>>
placementVars == <<model, receipt, held, refined, estimate>>
servingVars == <<settings, report, pulled, container, restarting>>

-----------------------------------------------------------------------------
(* The contents the stages are given.                                      *)

\* Exports: two sound ones, and one of each kind the acceptance must refuse.
JournalRow(p) == [of |-> p, valid |-> TRUE]
Shard(has) == [has |-> has, k4 |-> TRUE, core |-> "source"]
OneShard == [journal |-> <<JournalRow("w1"), JournalRow("w2")>>,
             files |-> "index" :> ("core" :> "s1" @@ "routed" :> "s1") @@ "s1" :> Shard({"core", "routed"})]
TwoShards == [journal |-> <<JournalRow("w2"), JournalRow("w1")>>,
              files |-> "index" :> ("core" :> "s1" @@ "routed" :> "s2") @@ "s1" :> Shard({"core"})
                        @@ "s2" :> Shard({"routed"}) @@ "asset" :> "source"]
Gappy == [OneShard EXCEPT !.journal = <<JournalRow("w1"), JournalRow("w1")>>]
Unindexed == [OneShard EXCEPT !.files = "index" :> ("core" :> "s1" @@ "routed" :> "s2") @@ "s1" :> Shard({"core"})]
Lossy == [OneShard EXCEPT !.files["s1"].core = "other"]
Mixed == [OneShard EXCEPT !.files["s1"].k4 = FALSE]
MCExports == {OneShard, TwoShards, Gappy, Unindexed, Lossy, Mixed}
MCSound == {OneShard, TwoShards}
MCProjections == {"w1", "w2"}

\* Profiles: the released one, and others that differ where the code branches.
Hybrid == [common |-> "c1", native |-> TRUE, parser |-> "dots3", attention |-> FALSE,
           fraction |-> "0.9", partition |-> "17,29", packed |-> TRUE, fused |-> TRUE,
           pcie |-> FALSE, exact |-> TRUE, exactRows |-> <<<<4, 4>>, <<16, 16>>>>, roce |-> TRUE,
           eager |-> FALSE, roceRows |-> <<<<1, 64>>>>, mtp |-> 3]
OtherRows == [Hybrid EXCEPT !.exactRows = <<<<4, 4>>, <<8, 8>>>>]
SplitRows == [Hybrid EXCEPT !.roceRows = <<<<33, 64>>, <<1, 32>>>>]
Eager == [Hybrid EXCEPT !.eager = TRUE]
Plain == [Hybrid EXCEPT !.native = FALSE, !.fraction = "none", !.partition = "none",
                        !.packed = FALSE, !.fused = FALSE, !.roce = FALSE, !.exact = FALSE]
UnusedRows == [Plain EXCEPT !.exactRows = <<<<1, 1>>>>]
Packed == [Plain EXCEPT !.packed = TRUE]
NoDrafts == [Plain EXCEPT !.mtp = 0]
NoParser == [Plain EXCEPT !.parser = "none"]
MCProfiles == {Hybrid, OtherRows, SplitRows, Eager, Plain, UnusedRows, Packed, NoDrafts, NoParser}

\* Reports of the two Sparks, of two other hosts, and of one host only.
Measured(i, head, other, tools) ==
  [measured |-> TRUE, completed |-> TRUE, image |-> i,
   profiles |-> "rhea" :> head @@ "moa" :> other, tools |-> tools]
HybridReport == Measured("i1", Hybrid, Hybrid, "complete")
PlainReport == Measured("i1", Plain, Plain, "short")
MCReports ==
  {HybridReport, PlainReport, Measured("i1", Hybrid, Hybrid, "short"),
   Measured("i1", Eager, Hybrid, "complete"), Measured("i1", NoDrafts, NoDrafts, "short"),
   Measured("i2", Packed, Packed, "short"),
   [PlainReport EXCEPT !.profiles = "rhea" :> Plain @@ "zeus" :> Plain],
   [PlainReport EXCEPT !.profiles = "rhea" :> Plain],
   [Measured("i1", Plain, Plain, "complete") EXCEPT !.measured = FALSE],
   [HybridReport EXCEPT !.completed = FALSE]}
Recorded(rep, p) == [status |-> "qualified", guard |-> TRUE, image |-> rep.image, report |-> rep, profile |-> p]
MCSettings ==
  {Recorded(rep, rep.profiles["rhea"]) : rep \in {s \in MCReports : s.measured}}
  \cup {Recorded(HybridReport, OtherRows), Recorded(HybridReport, Eager),
        [Recorded(PlainReport, Plain) EXCEPT !.image = "i2"],
        [Recorded(PlainReport, Plain) EXCEPT !.guard = FALSE],
        [Recorded(PlainReport, Plain) EXCEPT !.status = "pending"]}

\* Placement: five target layers and the draft layer, one or two of history and one
\* of wider state; state layers in groups of two or four, the last two in the same
\* groups or apart, for their window or as the draft's (an eagle group).
Model(history, page, wide, size, apart) ==
  LET state == SelectSeq(<<2, 1, 3, 4, 5>>, LAMBDA z : z \notin history)
      split == IF apart = "no" THEN Len(state) ELSE Len(state) - 2
      Group(eagle, names) == [eagle |-> eagle, layers |-> names]
      Chunk(i) == Group(FALSE, SubSeq(state, size * (i - 1) + 1, IF size * i < split THEN size * i ELSE split))
  IN [page |-> [z \in 0..5 |-> IF z \in history THEN page ELSE IF z = 2 THEN wide ELSE 1],
      window |-> [z \in 0..5 |-> IF z \in history THEN 0 ELSE IF apart = "window" /\ z > 3 THEN 2 ELSE 1],
      groups |-> <<Group(FALSE, SelectSeq(<<0, 3>>, LAMBDA z : z \in history))>>
                 \o [i \in 1..((split + size - 1) \div size) |-> Chunk(i)]
                 \o (IF apart = "no" THEN <<>> ELSE <<Group(apart = "draft", SubSeq(state, split + 1, split + 2))>>)]
MCModels == {Model({0, 3}, 2, wide, 2, apart) : wide \in {1, 3}, apart \in {"no", "window", "draft"}}
            \cup {Model({0}, 1, 1, size, apart) : size \in {2, 4}, apart \in {"no", "window", "draft"}}
Started == [passed |-> TRUE, workerPassed |-> [w \in {0, 1} |-> TRUE],
            owns |-> 0 :> {0, 1} @@ 1 :> {2, 3, 4}, full |-> {0, 3}, dense |-> [z \in 0..4 |-> 1 + z],
            tower |-> "visual" :> (0 :> 2 @@ 1 :> 0) @@ "audio_tower" :> (0 :> 0 @@ 1 :> 1),
            kv |-> 0 :> 6 @@ 1 :> 9]
MCReceipts ==
  {Started, [Started EXCEPT !.passed = FALSE], [Started EXCEPT !.workerPassed[1] = FALSE],
   [Started EXCEPT !.full = {0}, !.tower["visual"][1] = 2],
   [Started EXCEPT !.tower["visual"][1] = 1], [Started EXCEPT !.tower["visual"][0] = 0],
   [Started EXCEPT !.owns[1] = {3, 4}], [Started EXCEPT !.owns[1] = {1, 2, 3, 4}]}

Symmetry == Permutations({a, b}) \cup Permutations({k, l})

-----------------------------------------------------------------------------

\* A stage that is not chosen takes no part.
RemoteIdle ==
  /\ config = "idle" /\ secret = "idle" /\ token = "idle" /\ preparing = "idle"
  /\ worker = "idle" /\ coord = "idle" /\ sent = "idle" /\ thread = "idle" /\ result = "idle"
  /\ holder = "idle" /\ awaiting = "idle" /\ tries = "idle" /\ store = "idle"
  /\ accepted = "idle" /\ prepares = "idle" /\ sends = "idle" /\ deaths = "idle"

PublicationIdle ==
  /\ quant = "idle" /\ journal = "idle" /\ export = "idle" /\ recipeCard = "idle"
  /\ reports = "idle" /\ manifest = "idle" /\ hub = "idle" /\ hubrev = "idle"
  /\ script = "idle" /\ chain = "idle" /\ rev = "idle" /\ snapshot = "idle" /\ host = "idle"
  /\ exports = "idle" /\ runs = "idle" /\ kills = "idle" /\ damage = "idle"

CacheIdle ==
  /\ cache = "idle" /\ bundle = "idle" /\ image = "idle" /\ cpc = "idle" /\ where = "idle"
  /\ runtime = "idle" /\ todo = "idle" /\ file = "idle" /\ temp = "idle" /\ starts = "idle"
  /\ spoils = "idle"

PlacementIdle ==
  /\ model = "idle" /\ receipt = "idle" /\ held = "idle" /\ refined = "idle"
  /\ estimate = "idle"

ServingIdle ==
  /\ settings = "idle" /\ report = "idle" /\ pulled = "idle" /\ container = "idle"
  /\ restarting = "idle"

ArtifactsInit ==
  /\ stage \in Stages
  /\ IF stage = "remote" THEN Remote!Init ELSE RemoteIdle
  /\ IF stage = "publication" THEN Pub!Init ELSE PublicationIdle
  /\ IF stage = "cache" THEN Cache!Init ELSE CacheIdle
  /\ IF stage = "placement" THEN Groups!Init ELSE PlacementIdle
  /\ IF stage = "serving" THEN Run!Init ELSE ServingIdle

ArtifactsNext ==
  \/ /\ stage = "remote" /\ Remote!Next
     /\ UNCHANGED <<stage, publicationVars, cacheVars, placementVars, servingVars>>
  \/ /\ stage = "publication" /\ Pub!Next
     /\ UNCHANGED <<stage, remoteVars, cacheVars, placementVars, servingVars>>
  \/ /\ stage = "cache" /\ Cache!Next
     /\ UNCHANGED <<stage, remoteVars, publicationVars, placementVars, servingVars>>
  \/ /\ stage = "placement" /\ Groups!Next
     /\ UNCHANGED <<stage, remoteVars, publicationVars, cacheVars, servingVars>>
  \/ /\ stage = "serving" /\ Run!Next
     /\ UNCHANGED <<stage, remoteVars, publicationVars, cacheVars, placementVars>>

ArtifactsSpec ==
  ArtifactsInit /\ [][ArtifactsNext]_<<stage, remoteVars, publicationVars, cacheVars, placementVars, servingVars>>

\* What the worker answers is what it holds: RemoteWorker.
JournalIsStored == stage = "remote" => Remote!JournalIsStored

\* What is published or installed was accepted: Publication.
InstalledIsAccepted == stage = "publication" => Pub!InstalledIsAccepted

\* An interrupted copy of an asset is not restored: Publication.
AssetsRestored == Pub!AssetsRestored

\* A seed adds whole files and replaces none: CacheBundle.
SeedAddsOnly == [][stage = "cache" => Cache!SeedStep]_cacheVars

\* Caches are regrouped without loss and estimated consistently: CacheGroups.
PlacementSound == stage = "placement" => Groups!PlacementSound

\* What run.py serves is qualified: ReleaseRun.
ServedIsQualified == stage = "serving" => Run!ServedIsQualified

\* A restart serves what it has verified: ReleaseRun.
RestartedIsQualified == stage = "serving" => Run!RestartedIsQualified
=============================================================================
