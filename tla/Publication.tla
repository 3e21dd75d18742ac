---------------------------- MODULE Publication ----------------------------
(***************************************************************************)
(* From a finished quantization to installed snapshots: accept_export.sh,  *)
(* publish_export.sh, wait_accept_publish.sh and install_snapshot.sh with  *)
(* the five Python programs they call.                                     *)
(*                                                                         *)
(* A directory is a function from file names to contents.  A shard's       *)
(* content is the tensors its header lists, whether the routed ones are    *)
(* uniform K4, and the bytes of the preserved core.  Scripts run under     *)
(* set -e: the first failing step ends them.  They may be run at any time, *)
(* two at once, and may be killed; the quantization is not started again   *)
(* while one of them is past its wait.                                     *)
(***************************************************************************)
EXTENDS Naturals, Sequences

CONSTANTS
  Exports,       \* what a quantization may leave: [journal, files]
  Sound,         \* those of them that are complete and correct
  Projections,   \* routed projections of the model
  Scripts,       \* shells on rhea in which the scripts are run
  Hosts,         \* hosts that install
  MaxExports, MaxRuns, MaxKills, MaxCommits, MaxDamage   \* bounds

VARIABLES
  quant,     \* docker's state of dots3-quant-rhea
  journal,   \* errors.jsonl
  export,    \* the export directory
  recipeCard, \* which model_card.md the recipe holds
  reports,   \* acceptance reports that exist and are not empty
  manifest,  \* artifact-files.json, NoFiles when it was cut short
  hub,       \* the repository's commits
  hubrev,    \* hub-revision.txt
  pc, chain, rev, snapshot,  \* each script: its place, whether the watcher runs
             \* it, the revision it read, the snapshot it downloaded
  host,      \* each installing host: state, snapshot, copied manifest
  exports, runs, kills, damage   \* counters of the bounds

scripts == <<pc, chain, rev, snapshot>>
rhea == <<quant, journal, export, recipeCard, reports, manifest, hubrev>>
bounds == <<exports, runs, kills, damage>>
vars == <<rhea, hub, scripts, host, bounds>>

NoFiles == [f \in {} |-> 0]
Over(d, e) == [f \in DOMAIN d \cup DOMAIN e |-> IF f \in DOMAIN d THEN d[f] ELSE e[f]]
OneFile(f, x) == [g \in {f} |-> x]
Attributes == OneFile(".gitattributes", "hub")
Blank == [state |-> "idle", snapshot |-> NoFiles, manifest |-> NoFiles]

Init ==
  /\ quant = "running" /\ journal = <<>> /\ export = NoFiles /\ recipeCard = "first"
  /\ reports = {} /\ manifest = NoFiles /\ hubrev = 0
  /\ hub = <<Attributes>>
  /\ pc = [s \in Scripts |-> "idle"] /\ chain = [s \in Scripts |-> FALSE]
  /\ rev = [s \in Scripts |-> 0] /\ snapshot = [s \in Scripts |-> NoFiles]
  /\ host = [h \in Hosts |-> Blank]
  /\ exports = 0 /\ runs = 0 /\ kills = 0 /\ damage = 0

-----------------------------------------------------------------------------
(* What the programs check.                                                *)

\* summarize_errors.py --complete: one valid row for every projection
Complete(rows) ==
  /\ \A i \in DOMAIN rows :
       /\ rows[i].valid
       /\ \A j \in DOMAIN rows : rows[i].of = rows[j].of => i = j
  /\ {rows[i].of : i \in DOMAIN rows} = Projections
Summarized == Complete(journal)

\* checkpoint(): the index and the shards' headers agree
Indexed(d) ==
  /\ "index" \in DOMAIN d
  /\ \A t \in DOMAIN d["index"] : d["index"][t] \in DOMAIN d
  /\ \A t \in DOMAIN d["index"] :
       d[d["index"][t]].has = {u \in DOMAIN d["index"] : d["index"][u] = d["index"][t]}

\* routed_names: the fields of every routed projection
Routed == {"routed"}

\* the tensor namespace is the expected one: no routed FP8 weight or scale is left
Namespace(d) == DOMAIN d["index"] = {"core"} \cup Routed

\* check_shape: every routed tensor has the uniform K4 form
Uniform(d) == d[d["index"]["routed"]].k4

\* region_sha256: the bytes of the preserved tensors
CoreBytes(d) == d[d["index"]["core"]].core

\* they are the source's
CoreKept(d) == CoreBytes(d) = "source"

Audited(d) == Indexed(d) /\ Namespace(d) /\ Uniform(d) /\ CoreKept(d)

\* Files that hold no tensors; a checkpoint's index names none of them.
Others == {"asset", "card", ".gitattributes"}

\* Correct is what the programs can see to be: the rows and the tensors of one run.
PublicationAssumption ==
  /\ Sound \subseteq Exports
  /\ \A e \in Exports : "index" \in DOMAIN e.files =>
       /\ \A t \in DOMAIN e.files["index"] : e.files["index"][t] \notin Others
       /\ Complete(e.journal) /\ Audited(e.files) => e \in Sound
  /\ {MaxExports, MaxRuns, MaxKills, MaxCommits, MaxDamage} \subseteq Nat

\* Mutant: verify() compares the names and no contents.
VerifiedNames(root, expected, extra) ==
  /\ expected # NoFiles
  /\ DOMAIN expected \subseteq DOMAIN root
  /\ DOMAIN root \ DOMAIN expected \subseteq extra

\* verify_artifact_files.verify
Verified(root, expected, extra) ==
  /\ expected # NoFiles
  /\ DOMAIN expected \subseteq DOMAIN root
  /\ DOMAIN root \ DOMAIN expected \subseteq extra
  /\ \A f \in DOMAIN expected : root[f] = expected[f]

-----------------------------------------------------------------------------
(* Steps of the scripts.                                                   *)

Goto(s, place) == pc' = [pc EXCEPT ![s] = place]

\* set -e
GateAt(s, ok, place) == Goto(s, IF ok THEN place ELSE "idle")

\* Operator: run accept_export.sh, publish_export.sh or the watcher.
Run(s) ==
  /\ pc[s] \in {"idle", "published"} /\ runs < MaxRuns
  /\ runs' = runs + 1
  /\ \/ Goto(s, "state") /\ chain' = [chain EXCEPT ![s] = FALSE]
     \/ Goto(s, "trust") /\ chain' = [chain EXCEPT ![s] = FALSE]
     \/ Goto(s, "wait") /\ chain' = [chain EXCEPT ![s] = TRUE]
  /\ snapshot' = [snapshot EXCEPT ![s] = NoFiles]
  /\ UNCHANGED <<rhea, hub, rev, host, exports, kills, damage>>

\* wait_accept_publish.sh polls while the container is under way
Watch(s) ==
  /\ pc[s] = "wait" /\ quant # "running"
  /\ GateAt(s, quant = "exited", "state")
  /\ UNCHANGED <<rhea, hub, chain, rev, snapshot, host, bounds>>

CheckState(s) ==
  /\ pc[s] = "state"
  /\ GateAt(s, quant = "exited" /\ "index" \in DOMAIN export, "summary")
  /\ UNCHANGED <<rhea, hub, chain, rev, snapshot, host, bounds>>

Summarize(s) ==
  /\ pc[s] = "summary"
  /\ GateAt(s, Summarized, "assets")
  /\ reports' = IF Summarized THEN reports \cup {"summary"} ELSE reports
  /\ UNCHANGED <<quant, journal, export, recipeCard, manifest, hubrev, hub, chain, rev,
                 snapshot, host, bounds>>

\* finalize: a missing asset is copied, which takes time; one that exists is kept
Finalize(s) ==
  /\ pc[s] = "assets"
  /\ IF "asset" \in DOMAIN export
       THEN Goto(s, "audit") /\ UNCHANGED export
       ELSE Goto(s, "copy") /\ export' = Over(export, OneFile("asset", "torn"))
  /\ UNCHANGED <<quant, journal, recipeCard, reports, manifest, hubrev, hub, chain, rev,
                 snapshot, host, bounds>>

FinishCopy(s) ==
  /\ pc[s] = "copy"
  /\ Goto(s, "audit")
  /\ export' = [export EXCEPT !["asset"] = "source"]
  /\ UNCHANGED <<quant, journal, recipeCard, reports, manifest, hubrev, hub, chain, rev,
                 snapshot, host, bounds>>

Audit(s) ==
  /\ pc[s] = "audit"
  /\ GateAt(s, Audited(export), "card")
  /\ reports' = IF Audited(export) THEN reports \cup {"tensors"} ELSE reports
  /\ UNCHANGED <<quant, journal, export, recipeCard, manifest, hubrev, hub, chain, rev,
                 snapshot, host, bounds>>

InstallCard(s) ==
  /\ pc[s] = "card"
  /\ Goto(s, "hash")
  /\ export' = Over(OneFile("card", recipeCard), export)
  /\ UNCHANGED <<quant, journal, recipeCard, reports, manifest, hubrev, hub, chain, rev,
                 snapshot, host, bounds>>

\* hash_artifact.py: every file of the export, whatever it is
Hash(s) ==
  /\ pc[s] = "hash"
  /\ Goto(s, IF chain[s] THEN "trust" ELSE "idle")
  /\ reports' = reports \cup {"hashes"} /\ manifest' = export
  /\ UNCHANGED <<quant, journal, export, recipeCard, hubrev, hub, chain, rev, snapshot,
                 host, bounds>>

\* publish_export.sh: the reports of some acceptance exist
Trust(s) ==
  /\ pc[s] = "trust"
  /\ GateAt(s, reports = {"summary", "tensors", "hashes"}, "local")
  /\ UNCHANGED <<rhea, hub, chain, rev, snapshot, host, bounds>>

VerifyLocal(s) ==
  /\ pc[s] = "local"
  /\ GateAt(s, Verified(export, manifest, {}), "upload")
  /\ UNCHANGED <<rhea, hub, chain, rev, snapshot, host, bounds>>

\* hf upload (external): one commit that adds and replaces, and deletes nothing
Upload(s) ==
  /\ pc[s] = "upload" /\ Len(hub) < MaxCommits
  /\ Goto(s, "revision")
  /\ hub' = Append(hub, Over(export, hub[Len(hub)]))
  /\ UNCHANGED <<rhea, chain, rev, snapshot, host, bounds>>

\* model_info().sha is the head by now, recorded before it is verified
ReadRevision(s) ==
  /\ pc[s] = "revision"
  /\ Goto(s, "fetch")
  /\ rev' = [rev EXCEPT ![s] = Len(hub)] /\ hubrev' = Len(hub)
  /\ UNCHANGED <<quant, journal, export, recipeCard, reports, manifest, hub, chain,
                 snapshot, host, bounds>>

\* hf download (external): the revision, or a local copy of it gone bad
Download(r, spoilt) == IF spoilt THEN [hub[r] EXCEPT !["index"] = NoFiles] ELSE hub[r]
Spoil(spoilt) ==
  /\ spoilt => damage < MaxDamage
  /\ damage' = IF spoilt THEN damage + 1 ELSE damage

Fetch(s) ==
  /\ pc[s] = "fetch"
  /\ Goto(s, "verify")
  /\ \E spoilt \in BOOLEAN :
       Spoil(spoilt) /\ snapshot' = [snapshot EXCEPT ![s] = Download(rev[s], spoilt)]
  /\ rev' = [rev EXCEPT ![s] = 0]
  /\ UNCHANGED <<rhea, hub, chain, host, exports, runs, kills>>

\* rhea's own cache is the first installation
VerifySnapshot(s) ==
  /\ pc[s] = "verify"
  /\ GateAt(s, Verified(snapshot[s], manifest, {".gitattributes"}), "published")
  /\ snapshot' = IF pc'[s] = "published" THEN snapshot ELSE [snapshot EXCEPT ![s] = NoFiles]
  /\ UNCHANGED <<rhea, hub, chain, rev, host, bounds>>

\* Killed anywhere; a manifest being written is cut short.
Kill(s) ==
  /\ pc[s] \notin {"idle", "published"} /\ kills < MaxKills
  /\ kills' = kills + 1
  /\ Goto(s, "idle")
  /\ rev' = [rev EXCEPT ![s] = 0] /\ snapshot' = [snapshot EXCEPT ![s] = NoFiles]
  /\ \/ UNCHANGED <<reports, manifest>>
     \/ pc[s] = "hash" /\ reports' = reports \cup {"hashes"} /\ manifest' = NoFiles
  /\ UNCHANGED <<quant, journal, export, recipeCard, hubrev, hub, chain, host, exports,
                 runs, damage>>

ScriptStep(s) ==
  \/ Run(s) \/ Watch(s) \/ CheckState(s) \/ Summarize(s) \/ Finalize(s) \/ FinishCopy(s)
  \/ Audit(s) \/ InstallCard(s) \/ Hash(s) \/ Trust(s) \/ VerifyLocal(s) \/ Upload(s)
  \/ ReadRevision(s) \/ Fetch(s) \/ VerifySnapshot(s) \/ Kill(s)

-----------------------------------------------------------------------------
(* install_snapshot.sh on another host, with the revision and the manifest *)
(* rhea holds when the operator copies them.                               *)

InstallFetch(h) ==
  /\ host[h].state = "idle"
  /\ hubrev # 0 /\ "hashes" \in reports
  /\ \E spoilt \in BOOLEAN :
       /\ Spoil(spoilt)
       /\ host' = [host EXCEPT ![h] = [state |-> "fetched", manifest |-> manifest,
                                       snapshot |-> Download(hubrev, spoilt)]]
  /\ UNCHANGED <<rhea, hub, scripts, exports, runs, kills>>

InstallVerify(h) ==
  /\ host[h].state = "fetched"
  /\ host' = [host EXCEPT ![h] =
       IF Verified(host[h].snapshot, host[h].manifest, {".gitattributes"})
         THEN [host[h] EXCEPT !.state = "installed", !.manifest = NoFiles] ELSE Blank]
  /\ UNCHANGED <<rhea, hub, scripts, bounds>>

-----------------------------------------------------------------------------
(* Around them.                                                            *)

\* The quantization ends, with an export or without.
QuantizationEnds ==
  /\ quant = "running"
  /\ \/ quant' = "failed" /\ UNCHANGED <<journal, export>>
     \/ \E e \in Exports : quant' = "exited" /\ journal' = e.journal /\ export' = e.files
  /\ UNCHANGED <<recipeCard, reports, manifest, hubrev, hub, scripts, host, bounds>>

\* The operator clears the output and starts the quantization once more.
QuantizeAgain ==
  /\ quant # "running" /\ exports < MaxExports
  /\ \A s \in Scripts : pc[s] \in {"idle", "wait", "published"}
  /\ exports' = exports + 1
  /\ quant' = "running" /\ journal' = <<>> /\ export' = NoFiles
  /\ UNCHANGED <<recipeCard, reports, manifest, hubrev, hub, scripts, host, runs, kills, damage>>

UpdateCard ==
  /\ recipeCard = "first"
  /\ recipeCard' = "second"
  /\ UNCHANGED <<quant, journal, export, reports, manifest, hubrev, hub, scripts, host,
                 bounds>>

\* Somebody edits the model card on the Hub.
EditOnHub ==
  /\ Len(hub) < MaxCommits
  /\ hub' = Append(hub, Over(OneFile("card", "edited"), hub[Len(hub)]))
  /\ UNCHANGED <<rhea, scripts, host, bounds>>

Next ==
  \/ \E s \in Scripts : ScriptStep(s)
  \/ \E h \in Hosts : InstallFetch(h) \/ InstallVerify(h)
  \/ QuantizationEnds \/ QuantizeAgain \/ UpdateCard \/ EditOnHub

Spec == Init /\ [][Next]_vars

-----------------------------------------------------------------------------

TensorsOf(d) == [f \in DOMAIN d \ Others |-> d[f]]

Published == {snapshot[s] : s \in {x \in Scripts : pc[x] = "published"}}
Installed == {host[h].snapshot : h \in {x \in Hosts : host[x].state = "installed"}}

\* "Publish only the accepted artifact ... Install that exact Hub revision"
\* (quantization/README.md, Acceptance before publication): whatever reports an
\* earlier acceptance left, whatever the Hub's head holds by the time it is read
\* and whichever script was cut short, a snapshot that was verified on rhea or
\* on an installing host holds the tensors of one complete, correct
\* quantization, no file of another one, and a model card of the recipe's.
InstalledIsAccepted ==
  \A d \in Published \cup Installed :
    /\ \E e \in Sound : TensorsOf(d) = TensorsOf(e.files)
    /\ {"asset", "card"} \subseteq DOMAIN d /\ d["card"] # "edited"

\* The acceptance gate "restores tokenizer and multimodal assets"
\* (quantization/README.md:84): no verified snapshot holds part of one.
AssetsRestored == \A d \in Published \cup Installed : d["asset"] # "torn"
=============================================================================
