# Formal model of the Dots3 Note EXL3 quantization and serving recipes

This directory is a TLA+ development kept beside the code in `src/`. It models
the parts of the repository whose correctness depends on the order of events:
what survives a crash, what a restarted process trusts, which rank waits for
which, and what a supervisor may leave unguarded. The modules are checked with
TLC on small instances, and the results that matter most are proved with TLAPS
for every value of the constants.

Files are named here relative to `src/`.

## 1. The system

The repository quantizes one large mixture-of-experts model (EXL3 routed
experts, exact FP8 for the rest) on a DGX Spark, publishes the result, and
serves it with a patched vLLM on two Sparks or two RTX cards. It has no central
process: it is a set of recipes around GPTQModel and vLLM, neither of which is
in the tree (both are pinned submodules or images).

### 1.1 Inventory

**Rolling layer-boundary store** (`quantization/dots3_layer_boundary_store.py`,
`Dots3LayerBoundaryStore`). *State*: a root directory with committed boundary
directories `layer-NNN-<digest>`, staging directories `.layer-*.tmp`, and what
of each has reached the medium. *Operations*: `load_latest` (prune staging,
take the newest name, validate, refuse if incomplete) and `commit` (stage,
write and fsync shards, manifest, fsync staging, rename, fsync root, discard
older generations). *Hard*: process death or power failure between any two
calls, a failing call, no fallback when the newest boundary is incomplete.
*Correct when*: the newest boundary is always loadable, nothing behind the
durability barrier is lost, and successive boundaries extend one another.

**Layer-boundary controller and quantization run** (same file,
`Dots3LayerBoundaryController`; `quantization/quantize_spark.py`). *State*:
catch-up entries, deferred prefix, live inputs and where they are mapped from,
plus checkpoints, error journal and output directory on disk. *Operations*:
`restore`, `prepare_layer`, `finalize_layer`, `commit_layer`,
`materialize_deferred_prefix` and the tail of `main`. It calls the store;
GPTQModel's layer loop calls it. *Hard*: a restart combines a boundary, newer
checkpoints and new work. *Correct when*: no interruption leaves state a later
run refuses, the activations of a layer always come from the weights that were
committed, and the export holds exactly those.

**Spark memory guard and node launchers** (`serving/watch_spark_memory.py`,
`serving/start_spark_node.sh`, `serving/release/run.py`). *State*: docker's
container, guard processes with their sample counters, readiness markers and
`memory-watch.pid` in the runtime cache. *Operations*: start, restart, stop,
remove; bind, inspect, sample, kill. Launcher and guard communicate by the
marker file and the pid alone. *Hard*: docker commands that time out or fail,
guards that outlive a restart, a killed launcher, a reboot. *Correct when*: a
container reported started is watched, success means a sample was taken (but
for a marker that an earlier boot has left), a failed launch leaves nothing
running, lasting pressure stops the container.

**Layer-ownership forward step** (`serving/hybrid_parallel.py`,
`dots3_hybrid_parallel.py`, `dots3_hybrid_boundary.py`,
`dots3_hybrid_multimodal.py`, `hybrid_shared_overlap.py`). *State*: per worker,
the tensors of a step and its position in the program; the calls it made.
*Operations*: encoder, embedding, boundary transfer, attention, activation and
routing broadcasts, routed experts and reduction, shared expert on a side
stream, final hidden states, logits, draft passes. *Hard*: collectives match by
order only; peers hold placeholders; the encoder fails on one rank. *Correct
when*: all ranks call the same collectives, placeholders are never consumed,
the step ends on every worker, errors reach all of them.

**B12x RoCE and PCIe all-reduce adapters** (`serving/b12x_roce_all_reduce.py`,
`b12x_pcie_all_reduce.py`, placed into vLLM by `port_roce.py`, `port_pcie.py`).
*State*: session, runtime, watchdog thread, poison of the transport, outputs not
yet published. *Operations*: negotiated construction, choice of a backend per
reduction, health reads, publication, close. *Hard*: construction that fails on
one rank, poison that only one rank sees, replayed graphs that run no Python,
close racing the watchdog. *Correct when*: both ranks take one backend for each
call, no output that the output rank's own poisoned transport had a part in is
published, poison ends both ranks, the RoCE adapter releases nothing in use.

**Release qualification and continuations**
(`serving/release/qualify_spark.py`, `qualify_rtx.py`, `continue_rtx.py`,
`restart_continuation.py`, `continue_spark_timeout.py`, `evidence_lineage.py`,
and what `report.py` accepts). *State*: manifest, stage artifacts, receipts,
ledger of a continuation, completion; the identity of the server. *Hard*: a
stop between artifact and receipt, inside a write, a server replaced during a
stage, several continuations in one directory. *Correct when*: a receipt names
the one server that answered, a report discloses every interruption, finished
work is kept, and a qualification can be completed.

**Calibration corpus builder** (`quantization/build_calibration_corpus.py`).
*State*: the prompts selected per corpus, what their rows used up, the output
directory. *Operations*: split by group, excerpt search, sixteen rounds of
`take_round_robin`, screening, writing. *Hard*: selections that share what was
taken before them, a binary search over a length that need not grow, a crash
between files. *Correct when*: no row or group is used twice where it may not
be, strata are served fairly, budgets are met.

**Export acceptance, publication and installation**
(`quantization/accept_export.sh`, `publish_export.sh`, `wait_accept_publish.sh`,
`install_snapshot.sh`, `summarize_errors.py`, `finalize_export.py`,
`audit_export.py`, `hash_artifact.py`, `verify_artifact_files.py`). *State*: the
export, report files, the file manifest, the Hub's commits, hosts' snapshots.
*Hard*: scripts that trust the existence of report files, killed and repeated
at will, other writers on the Hub. *Correct when*: what a script calls verified
or installed is an export that was accepted.

**Runtime cache bundles and release images** (`serving/release/cache_bundle.py`,
`build.py`, `entrypoint.sh`). *State*: each host's compiled caches, bundles, the
image. *Hard*: exports and seedings beside compiling servers, killed seedings,
damaged payloads. *Correct when*: a seeding adds whole files and replaces none.

**Release start-up** (`serving/release/run.py`). *State*: settings, the
qualification report, docker's images and the container. *Hard*: each of them
changes by itself between two calls, also between the inspection and the
restart of a container, both by name. *Correct when*: what it starts, and what
it restarts of what it has inspected, is what a report vouches for.

**Remote projection worker** (`quantization/remote_exl3_worker.py`,
`prepare_remote.py`). *State*: token, configuration, request threads and the
lock, the worker's projection store. *Hard*: a timeout abandons an answer and
not the work; retries, deaths and new tokens. *Correct when*: what the
coordinator journals is what the worker holds.

**KV cache grouping and placement** (`serving/hybrid_cache_groups.py`,
`plan_hybrid_placement.py`). Functions of groups of layers and of a start's
attestation. *Hard*: three constraints at once (page budget of every worker,
attention type, eagle flag) over many cuts. *Correct when*: no layer is lost and
no block is wider than it must be.

Numeric adapters and kernels, read-only attestation, the reasoning parser, the
source patchers, the source audit, report rendering and benchmarks have no state
whose order of change matters; `PROJECT.json` lists each with its reason.

### 1.2 How the parts meet

The corpus is a finished file when the run starts. The run drives the store
through the controller, shares the disk with it, and sends projections to the
remote worker through GPTQModel's client. Its export goes through acceptance to
publication and installation, by files. On the serving side a launcher starts
one container and one guard; the container holds a vLLM worker per rank, and the
workers meet only in collectives (the forward step above, over the RoCE or PCIe
adapter or NCCL); their cache groups are refined at each start. Qualification
observes container and guard by identity; its report, with the image that
carries the cache bundle, is what `run.py` checks before it starts anything.

## 2. Modules

| Module | Models | Proofs |
| --- | --- | --- |
| `StableLog` | abstract specification of the store: an append-only log with a stable prefix | |
| `LayerBoundaryStore` | the store, one file-system call per action | `LayerBoundaryStoreProofs` |
| `QuantizationRun` | controller and `main`, over an instance of the store | `QuantizationRunProofs` |
| `SparkGuard` | guard processes, launchers, docker, reboots | `SparkGuardProofs` |
| `HybridForward` | one model step of every worker | `HybridForwardProofs` |
| `AllReduceAdapter` | both all-reduce adapters on a pair of ranks | `AllReduceAdapterProofs` |
| `Qualification` | both runners, both continuations, inherited evidence | `QualificationProofs` |
| `CalibrationCorpus` | the corpus builder | `CalibrationCorpusProofs` |
| `RemoteWorker` | preparation, worker threads, coordinator | `ArtifactsProofs` |
| `Publication` | the four scripts and the programs they call | `ArtifactsProofs` |
| `CacheBundle` | export, merge, build and seed | `ArtifactsProofs` |
| `CacheGroups` | regrouping of caches, placement estimates | `ArtifactsProofs` |
| `ReleaseRun` | what `run.py` starts and restarts | `ArtifactsProofs` |

`MCLayerBoundaryStore` and `MCQuantizationRun` only declare the model values of
their configurations; `MCAllReduceAdapter` and `MCCalibrationCorpus` give the
settings and rows of theirs. `MCArtifacts` composes the last five modules as the
stages of what becomes of a quantization: a behaviour is one stage, chosen at
first. The stages share no state while they run, since they hand over finished
files, so checking their product would add interleavings and no behaviour.
`MCRecipe` composes the two ends of the recipe in the same way: the
`CalibrationCorpus` before the quantization and the `SparkGuard` of a node that
serves its result. A definition whose comment says *Mutant* is a
plausible bug that no specification uses: substituted for the definition it
imitates, it makes some property fail, which shows that the property depends on
the code. The `map` of `PROJECT.json` names the source lines of every
definition.

### 2.1 LayerBoundaryStore

`disk` holds pieces `<<boundary, "payload" | "manifest" | "name">>` that a
process sees; `durable` holds those a power failure spares. `tmp` and `dtmp`
are the same for the staging directory. A boundary is a record of its layer,
its cumulative projection index and the activations it stands for.

| Action | Code |
| --- | --- |
| `LoadLatest` | `load_latest`: prune, pick the newest, validate or raise |
| `BeginCommit`, `RefuseCommit` | the checks of `commit` and the chaining of the index |
| `WritePayload`, `FlushPayload` | shards saved or linked, then synced |
| `WriteManifest`, `SealStaging` | manifest, then fsync of it and of the staging directory |
| `Promote`, `SyncPromotion` | `os.replace`, fsync of the root (the barrier) |
| `Discard`, `FinishCommit` | `shutil.rmtree` piece by piece, final fsync |
| `AbortCommit`, `Crash`, `PowerLoss` | a call raises; the process dies; the medium keeps what was synced and any part of what was not |

`PowerLoss` keeps all of `durable`, any subset of the rest, and what is
reachable by name. Shards of a post-quant replay are hard-linked and not synced
by `commit`; `ReplayDurable` says whether their producer, GPTQModel, synced
them.

### 2.2 QuantizationRun

`Store` is an instance of the module above, its entries being assignments of
projections to records. A record is named by the process life that made it, so
two quantizations of one projection differ, and `inputs` is the lineage of the
live activations: the record of each earlier layer they were computed with.
`Restore` is `restore`; `FinishLayer`, `PrepareCatchup` and `FinalizeCatchup`
are the two ways a layer gets its outputs; `Begin`, `Commit`, `AdoptBoundary`
and `RetireLayer` are `commit_layer` in its order; `BindLayer`, `BeginSave`,
`FinishSave` and `RefuseOutput` are the tail of `main`. `step = "rejected"`
stands for every exception raised by a validation of persistent state.
`AppendJournal` and `CommitCheckpoint` are external.

### 2.3 SparkGuard

A guard is a process id with a program counter. `Bind` is the lookup of the
container id, `Inspect`, `Sample` and `Kill` one round of the loop, `Abort` the
end of a guard whose first sample is already too low. The launcher's steps
(`RunContainer`, `Restart`, `Restarted`, `Spawn`, `Record`, `Poll`, `Look`,
`StopUnready`, `Stop`, `RemoveContainer`) follow both launchers, which share the
protocol. The environment moves memory, ends containers and kills the launcher;
`Reboot` ends every process of the host. Three behaviours of the code are kept
that one might abstract away: a guard of before `docker restart` may survive it
and run beside its successor, since the container id is the same; it may then
deliver a kill it decided on before; and a guard is bound by name, so it may
follow a container that replaced the one it was started for. Process ids are not
reused within a boot and are given out again from the first after a reboot,
which `markers` and `pidfile` survive: `GuardSpec` has reboots, `BootSpec` is
one boot. `left` is a history variable, the markers that an earlier boot has
left and no launcher has taken.

### 2.4 HybridForward

A step is a sequence of passes (decoder layers, then draft passes), each of
thirteen phases; `layer[r]`, `phase[r]` say where worker `r` is. `Init` chooses
the partition of layers among owners, the packed, overlap and boundary
switches, the owners of embedding, head and encoder, and what the encoder does.
A tensor is `<<kind, layer>>`, what the undistributed model holds there, or
`Junk`; `Kernel` gives `Junk` whenever an input is not what it should be.
`calls[r]` is every collective `r` has called: the n-th calls of two workers
are matched, as PyNccl does, whatever they are. `Send*` actions are the owner's
calls, `Receive*` the returns on every rank; `SharedExpert` runs on the side
stream; `Skip` passes a phase that does not apply to a worker.

### 2.5 AllReduceAdapter

`env` holds the transport, the flags and settings each rank was started with and
what its devices can do. `pc[r]` walks through construction (open, exchange,
create, prime, agree), serving and close. A reduction is a turn of the rank's
GPU stream: `round[r]` were issued, `done[r]` finished, `used[r]` is the backend
each took, `bad` the ranks whose transport is poisoned. `tainted[r][q]` is
history, the results of `r` that hold garbage of `q`'s transport: garbage goes
on into every later result of both ranks, whichever backend brings it
(`Origins`). `TakeOutput` and `Publish` are the two halves of the patched output
path: the copy's event, the health check, the data. The watchdog reads health at
intervals and calls `os._exit`; `Close` sets its flag, joins it with a timeout
and releases session and runtime even if the join expired, which `late` records.
The PCIe adapter is the same protocol without a watchdog and without poison
checks at the outputs, and its `close()` waits for nothing.

### 2.6 Qualification

Files are `manifest`, `receipt[s]`, `ledger` and `complete`: absent, `Torn`
(killed inside `save()`) or written. A server is its life and its profile.
`Runner` is the sequence of one runner: check identity, run the child of a
stage, check again, write. `PrepareRestart` and `PrepareTimeout` are the audits
with which a continuation begins. `Reportable` translates what `report.py`
demands of the directory.

### 2.7 CalibrationCorpus

A row carries what its bank says and `counts`, the rendered length of each cut of
its text; `Fit` is the binary search over them, one `Probe` a round. `Draws` is
the list of calls of `take_round_robin` a corpus is selected with, and `draw` the
one that is next or running; `selected` is what earlier calls took, by axis,
`queues`, `pass` and `got` belong to the running call. A queue is the set of
places its rows have in the order of their digests; digests are such an order
and a set of held-out groups, chosen at the start. What `select_` functions carry
in `selected_identities` and `selected_groups` is `Taken`, read off `selected`.

### 2.8 The stages of MCArtifacts

*RemoteWorker*: a request is a thread with a program counter, numbered as sent;
`Send` checks token and image, `Acquire` is the lock, `Hit`/`Miss` the worker's
store, `Reply` and `GiveUp` race. *Publication*: a script is a program counter
in one of the shells; every program it calls is an action that succeeds, or ends
the script under `set -e`, by the content of the files as they are then.
*CacheBundle*: a seeding is `CheckSeed`, then `SeedLook` and `SeedLink` per
name; a server compiles and renames at any time. *CacheGroups*: the loops of
`refine_owner_state_groups` are recursive functions (`Split` over the layers of
a group, `Overflow` over the groups, `Extra` over the overflow, `Total` over the
bytes of some layers); the planner's budgets and rows are operators, and the
actions only vary their inputs. The planner ends without a result on an invalid
receipt and, by a division, on a budget of less than one block (`NoBlock`).
`PlacementAssumption` says what vLLM's grouping and an attestation bring: every
layer has a page and one place in one group, the layers of a group have one
window, sizes are naturals. *ReleaseRun*: settings, report, images and the
container change by themselves; `Start` and `Inspect` are guarded by the
validations of `run.py`. A restart is two steps, as in the code: `Inspect` looks
at the container that has the name, and `Restart` or `RestartFails` is `docker
restart` by name, whatever has the name by then; `restarting` is history in so
far as it tells whether that is still the container inspected. The hosts of a
report are counted and not named, as in `validate_report`.

## 3. Runs

| Run | Instance | Shows |
| --- | --- | --- |
| `store_crash` | 3 layers, 2 index entries, 1 activation | the store's safety and that it implements `StableLog` |
| `run_resume` | 3 layers, 2 modules, 2 faults | no refused restart, provenance, complete export, which is reached |
| `guard_launch` | 2 containers, 2 pids, one boot | a started container is guarded, lasting pressure stops it |
| `hybrid_forward` | 2 workers, 3 layers, 1 draft pass | collectives agree, placeholders unread, no deadlock, termination |
| `adapter` | 2 ranks, 2 steps, 3 settings, 2 calls | one backend per call, no output with garbage of the own transport, clean RoCE release, poison ends both |
| `qualification` | 3 stages, 3 lives, 1 edit, 2 faults | honest receipts and reports, finished work kept, completion |
| `artifacts` | five stages, see below | what is journaled, installed, placed, seeded and served is what was checked |
| `recipe_ends` | corpus: 30 rows, 2 orders, 3 splits; guard: 1 container, 2 pids, 1 reboot, inspect may fail | fair strata, sound corpora, exact excerpts; a failed launch leaves nothing running; success follows the own guard's sample, or a marker left by an earlier boot |
| `store_generations` | 2 layers | finding: two generations stay |
| `guard_inspect_error` | 1 container, 1 pid, inspect may fail | finding: the guard ends under a running container |
| `guard_stale_marker` | 1 container, 1 pid, 1 reboot | finding: success on a marker of an earlier boot |
| `export_torn_asset` | publication stage | finding: a torn asset is accepted |

### 3.1 Why these bounds

*Store.* Three layers give a boundary with an older and a newer one, the most
that can coexist before discarding; two index entries tell a commit that was
lost and redone from the first one. The number of crashes is not bounded.

*Run.* Two faults allow an interruption during recovery from another; three
layers give one restored from the boundary, one caught up from checkpoints and
one quantized anew; two modules make half-finished layers. `MaxFaults` bounds
crashes, power failures and I/O errors together.

*Guard.* Two containers and two pids are what a replaced container and an
overlapping guard need. With reboots, one container and two pids let a guard and
the marker of an earlier boot, of the same pid or another, meet.
`MaxContainers`, `MaxPids` and `MaxReboots` stop `RunContainer`, `Spawn` and `Reboot` at
their bounds; low samples saturate at the three that trigger a kill.

*Forward step.* With two workers and three layers there is a partition where an
owner holds two layers in a row and one where it holds one, both change owners
once, layer 0 is dense (`FirstMoE = 1`) and the others are not, and a draft
pass follows. The deployed system has two workers. Deadlock is checked in this
run: a finished step stutters in `Terminated`, so that a state without a
successor is one where every worker waits.

*Adapter.* The pair is the deployed size. Two steps (`MaxSteps`) let a poisoned
reduction be followed by another before its output is looked at; one call goes
to the adapter and one to the native backend; the second rank may differ in its
rows or its eager setting.

*Qualification.* Of three stages one is inherited or interrupted, one follows it
and the last is the long retrieval a timeout continuation is for. Three lives
(`MaxLives`) are a server, its replacement and the replacement of that; two
faults (`MaxFaults`) interrupt a continuation too; one edit (`MaxEdits`) makes
sources stale.

*Corpus.* The rows were chosen so that every axis can be filled for both
corpora, some strata run out, some rows fit at no cut, excerpt lengths jump and
stall, and one row is in its bank twice. Budgets are 28 and 9 units.

*Artifacts.* Two requests for one projection and one more (`MaxSends`), one
death and a second preparation for the remote worker. Two scripts at once, two script
starts (`MaxRuns`), one kill, one further quantization of another content, three
commits on the Hub and one damaged download; three script starts were checked
once, by themselves (2.6 million states). Two hosts, two containers, two starts
and one damaged payload for the caches; all containers have one runtime
fingerprint, since an export of another is refused by the comparison alone. Five
target layers and a draft layer, twelve groupings, all four cuts. Nine profiles,
ten reports (two of them of other hosts than the platform's, or of one host) and
fourteen settings, each different where `run.py` branches. Deadlock is not
checked where a system may stop: `artifacts`, `export_torn_asset`,
`recipe_ends`, `adapter` and `qualification` end by design.

### 3.2 Fairness

*`run_resume`*: `WF(Progress)` says an operator restarts an interrupted run and
that the run does not stop between two calls; `WF(ClearOutput)` that the
operator empties a partially written output directory, as the error message of
`quantize_spark.py` asks. Nothing forces a fault to happen or not to.

*Guard runs*: `WF(GuardStep(p))` since a guard is a loop of its own process
whose docker calls have timeouts; `SF` of a successful kill since `docker kill`
is retried in every round and is not assumed to succeed at any particular time,
only not to fail for ever. Launcher and environment have no fairness.

*`hybrid_forward`*: `WF` of each worker's own steps and of its side stream.
Neither waits on a scheduler that could starve it: a CUDA stream executes what
is queued, and a collective all ranks have called completes.

*`adapter`*: `WF` of each rank's construction, GPU stream, watchdog and close,
and of the output path. Steps of the engine are not fair: it may be idle.

*`qualification`*: `WF` of a runner that is running; `SF` of the operator's
starting a qualification or a continuation again. The property itself asks for
the server and the sources to stay what they are from some time on and for no
torn file, since nothing in the code ensures either.

## 4. What the checks show

`NewestIsLoadable` and `BarrierKept` hold under any interleaving of calls and
failures provided replay shards are durable. `OneGenerationPerLayer` excludes
the collision at `os.replace` and answers what the comparison of names there is
for. `DiscardAfterBarrier` is the comment on the barrier, as a step property.
`NeverRejected` is the strongest statement about the run: every check that
raises on persistent state passes after any interruption. `ProvenanceKept`,
`BoundaryMatchesCheckpoints` and `LiveInputsReadable` say that the combination
of boundary, catch-up and new work is one run.

`Guarded` holds while guards overlap and kills are stale, within a boot.
`PressureRelieved` holds as long as `docker inspect` fails only for containers
that are not running. `ReadyUnlessLeftOver` is what holds of readiness across
reboots; that success always follows a sample does not (4.1).

`SourcesSequential` says that whatever a call takes from a worker is what the
undistributed model computes there, `SamplersAgree` that all workers sample the
same right logits. `FailsTogether` and `StepEnds` together say that an encoder
error on one rank ends the step on all. The deadlock check
of the run is the small instance of `NobodyHangs` (section 5): no state has every
running worker inside a collective that some other worker has not come to.

`SameBackend` holds because every rank sees every rank's settings before it
builds anything. `NothingTaintedPublished` speaks of the transport of the output
rank's own process, the only one its health check reads, and needs that check to
come after the copy's event and before the data; what a peer's transport spoils
may be published (4.1). `PoisonIsFatal` needs the watchdog on both
ranks: the rank whose outputs nobody unwraps meets no check of its own.
`CleanRelease` is about the RoCE adapter alone, since PCIe's close synchronizes
nothing (4.2), and excepts what the code excepts: a thread that could not be
started, and a health read that outlives the join's timeout.

`ReceiptsHonest` and `ReportTruthful` hold for any number of restarts within the
bounds: a report of two servers always has the ledger that says so.
`FinishedKept` is about all three runners. `CorpusSound` includes that the check
for a shared group, which runs when the files are written, never fires.

`JournalIsStored` rests on the lock in the worker together with its store: a
retry that arrives while the first request still computes gets the same result.
`InstalledIsAccepted` says that stale reports, repeated runs and foreign commits
can make scripts fail but cannot make them call something verified that no
acceptance accepted. `SeedAddsOnly` needs the hard link, which fails on an
existing name, where a rename would not. `PlacementSound` extends what
`check_hybrid_cache_groups.py` asserts of seven cuts of one model; the theorem
`RefinementIsLossless` says it of every assignment of layers to the two workers.
`ServedIsQualified` compares what a container effectively runs with, not its
flags, with the report, which has to cover as many hosts as the platform has; it
speaks of containers that `run.py` has started, or has inspected before it
restarted them, and without flags outside the comparison (4.1, 4.2).

### 4.1 Disagreements met

1. `Dots3LayerBoundaryStore` is documented to retain only the latest boundary;
   an interruption after the last promotion leaves two for good, since loading
   never discards.
2. A `docker inspect` that fails is taken for a stopped container and ends the
   guard, while one that times out does not.
3. `finalize_export.py` copies an asset without a temporary name and only if the
   target does not exist. An acceptance killed in the copy leaves a torn file
   that the next one keeps, hashes and publishes.
4. A readiness marker is trusted by name, and a reboot leaves it behind. If it
   interrupts a launch and the next boot gives a guard the same process id, that
   launch succeeds before its guard has sampled
   (`serving/release/README.md:12` requires the sample).
5. The health check before the publication reads the output rank's own transport.
   Garbage from a peer's poisoned transport reaches it through a later reduction
   and can be published before the peer's watchdog has looked, while
   `serving/roce-integration.md:68` says "No post-poison fallback can return
   untrusted data." No run stands for this one; `adapter` with `Calls <-
   CapturedCalls` and `NoUntrustedFallback` in place of its properties shows it:
   poison on the peer in the second reduction, the third one native, its result
   published.
6. `run.py restart` inspects by name and restarts by name. A container replaced in
   between is restarted without having been verified, while
   `serving/release/README.md:265` says that `restart` verifies it "against the
   qualified profile". No run stands for this one either; `artifacts` with
   `RestartedIsQualified` for `ServedIsQualified` shows it.

### 4.2 Observations

These came up while modelling. No run refutes a document by them: none speaks of
the case, the case is not modelled, or it rests on code outside the tree.

- Shards of a post-quant replay are hard-linked and not synced by `commit`. With
  `ReplayDurable = FALSE` TLC violates `BarrierKept`; whether their producer
  syncs them is not decided here.
- The PCIe adapter's `close()` releases session and runtime without a
  synchronize of its own; nothing in the tree says that its caller has waited for
  the GPU. No property is stated of it.
- A `docker run -d` that fails after the container has started
  (`start_spark_node.sh:93`) ends the launcher without a kill; the model's failing
  `RunContainer` leaves a container that does not run.
- A partial `.seed-` file that a killed seeding has left in a cache can be carried
  into a bundle by an export; `SeedAddsOnly` speaks of the files of a compiler.
- The container check of `run.py` (line 223) requires a speculative
  configuration, so a profile with `mtp_tokens` 0 is accepted by the settings
  and never by the report, although `serving/release/README.md:334` speaks of
  disabling MTP.
- Flags that are in no comparison of `run.py` do not keep a container from being
  restarted.
- `prepare_remote.py` killed between creating `remote.env` and writing the token
  keeps the empty file for ever.
- A torn manifest, ledger or receipt stops every later qualification in its
  directory. A timeout continuation begun a second time repeats a measurement.
- A file left in a Hub snapshot by another upload blocks its verification until
  somebody removes it.
- A comment at `dots3_layer_boundary_store.py:1297` speaks of dense layers 0 to 2
  while the run is started with `first_target_layer=1`.

## 5. Proofs

The properties below are theorems for every value of the constants that the
modules' `ASSUME`s admit; TLC evaluates those assumptions in the runs. Each
proof follows one pattern: an invariant made of named parts, a lemma per kind of
step that says it keeps the invariant, and theorems that read the properties off
it. `PROJECT.json` lists them.

**Store** (`LayerBoundaryStoreProofs`, under `ReplayDurable` except for type
correctness). `NewestIsLoadable` is not inductive: it says nothing of the older
boundaries, and a power failure that undoes a promotion makes one of them the
newest again. The invariant `IInv` adds `Covered`, that a boundary that may lack
content is older than one that can lose nothing; `AckedFirm`, that such a one
exists at or past the barrier; `Unique` and `Rooted` about names; and what each
program point has synced (`StagingInv`, `PromotedInv`). `PromoteSafe`,
`DiscardSafe` and `PowerLossSafe` are the hard steps. `DiscardIsSafe` is the
step property, from the same invariant.

`StoreImplementsLog` is the refinement. The abstract log is what the newest
boundary tells of its layers, the stable prefix what the newest boundary that
can lose nothing tells. That successive boundaries extend one another is one
more invariant, `Chain`: of any two boundaries on disk or in staging the older
one's index is a prefix of the newer one's. With it `Promote` is `Extend`,
`SyncPromotion` is `Settle`, `PowerLoss` is `Lose`, and every other step is a
stutter or settles.

**Run** (`QuantizationRunProofs`, under `ReplayDurable`). `RunDrivesStore` shows
that every step of the run is a step of its store, so the store's invariant
holds inside the run. What an index tells of checkpoints stays true, since a
checkpoint is written once and after its journal record (`TellsKept`); so every
boundary stays faithful to the checkpoints (`FaithfulKept`); and the layer in
hand is always the one after the newest boundary that a restart could find
(`PlaceOK`). `RunInv` is the conjunction. That a restart is never refused
(`NothingIsRejected`) then follows at `Restore`, where the boundary's index and
the checkpoints past it must be contiguous (`RestoreAccepts`); provenance,
export, readable inputs and the barrier are corollaries. The faults are
unbounded here: `MaxFaults` is any number.

**Guard** (`SparkGuardProofs`). `GuardInv` relates the launcher's knowledge to
the guard's state: `MarkersEarned` (a marker was written by its own bound
guard), `LauncherInv` and `WatchInv`. `GuardSafety` and `StartedIsGuarded`
assume one boot (`BootSpec`) and an inspect that fails only for stopped containers;
`guard_inspect_error` and `guard_stale_marker` show what becomes of them without.
`ReadyIsSampled` assumes neither and has an invariant of its own, `ReportInv`: a
marker is of a guard that has sampled in this boot, or was left by an earlier one;
and the guard a launcher waits for, once bound, is bound to the container in use,
which nobody replaces under the launcher. `FailedLaunchLeavesNothing` and type
correctness assume nothing either.

**Forward step** (`HybridForwardProofs`). `SameCalls` compares two workers and
is not inductive. Where the collectives of a step lie depends on the
configuration alone (`CallSite`); `HybridInv` says each worker has called
exactly the sites behind it, once, in order, with the operation and root the
site prescribes (`Recorded`, `Increasing`, `Behind`, `Complete`). So the calls
of one worker are a prefix of another's. The one data-dependent site, the
encoder payload, needs `Informed` and `Announced`: a worker decides on it from
the metadata it received. The proof sorts the actions into five kinds (a call, a
return, a failure, a local step, a step that touches none of this) and treats
each kind once. It holds for any number of workers, layers and draft passes and
any partition.

What flows through the step rests on it (the module's second half). `DataInv` says, for
each place in a pass, which of a worker's tensors hold what the undistributed
model computes there: the encoder batch and the sample before a pass
(`EncoderOK`, `SampleOK`), the two tensors of the residual stream on whoever
holds them before attention (`HoldsHidden`, `HoldsResidual`) and on the owner
after it, the routed inputs as they arrive, and the two halves of a layer's
output, one of which the side stream may still have to compute. Peers'
placeholders are left unconstrained. A collective delivers what its sources put
in, since by `HybridInv` the calls it matches are of one site (`ResultRight`); a
source puts in the right tensor, since `DataInv` says it holds it there. No
placeholder is consumed (`SourcesAreSequential`), all workers sample from the
same right logits (`SamplersGetTheSame`), and a failed encoder, or one whose
outputs have no width, stops all of them at the metadata
(`ErrorsStopEverybody`), for any partition and setting of the switches.

No worker is left waiting for its peers (`WorkersNeverHang`). If each running
worker were inside a collective to which some worker has not come, take one with
fewest calls (`LeastOf`): the worker it waits for has fewer, so it is not
running. But one that went through its program has called that site, by
`Complete`, and by `SameCalls` and `Increasing` at the same place
(`FinishedArrived`); and one whose forward raised did so in the first collective
of the step (`Raised`), which by `FailsTogether` nobody has left
(`RaisedArrived`). What is left of `StepEnds` to TLC is that the step, of which
something can always go on, does go on.

**Adapter** (`AllReduceAdapterProofs`). `RanksTakeOneBackend`: what a rank
builds is a function of what it read of both ranks, and construction ends with
the agreement of both; from then on the backend of a call depends on the call
alone (`Agreement`). `NoTaintedOutput`: what the output rank's own transport
has tainted was so after the outputs already out, and the snapshot taken with the
copy holds the adapter, so that the check before the next output sees the poison
(`Guarded`). `ReleaseIsClean`: at each place of the RoCE adapter's `close()` the
watchdog is over or given up, the stream drained, and each resource held or
released (`WatchEnded`, `Drained`, `Held`).

**Qualification** (`QualificationProofs`). Server lives only grow, so an
identity that equals the running server's at the end of a stage was the running
server's all along; and a runner past its first write is bound to the identity
the manifest or the ledger names (`ManifestBinds`, `LedgerBinds`). That gives
honest receipts, kept evidence (`FinishedKept`, a step property) and truthful
reports.

**Stages of `MCArtifacts`** (`ArtifactsProofs`). One invariant per stage; a
stage that was not chosen stands still. *Remote worker*: the lock has one
holder, and no checkpoint appears between the look for one and its quantization.
*Publication*: what an acceptance has seen stays so until it is hashed, whatever
other scripts add to the export (`Accepting`), and a manifest or a snapshot that
is trusted is an accepted one (`RecordsAccepted`); that the programs tell an
unsound export from a sound one is `PublicationAssumption`, which says what
`Sound` means. *Caches*: every compiled name in a cache, a bundle or the image
holds a compiler's bytes, a seeding takes what it writes from an image that was
compared with its manifest, and it removes only its temporary file
(`SeedingInv`). *Start-up*: profiles that run alike are vouched for alike
(`SameRunsAlike`); what `run.py` has started keeps its report's word while it
runs, and so does what a restart has inspected until something takes its place
(`WouldServe`, `ServingInv`).

*Placement* is a calculation, so the proof goes through its loops: that each
recursive function exists (`PassExists`), and what holds after each of its rounds
(`StepByStep`, again from the least member of a set of naturals). `InHalves` says
what the first pass has made of a group: each of its layers is kept or spilt,
once, and what is kept fits every worker. `Spill` says that what has overflowed
is what the groups so far have spilt; `Filled`, that the extra groups hold each
of the layers placed so far, that no two share a layer, and that each is of one
window, of its layers' eagle flag, and fits (`Tidy`). That a group always keeps a
layer and a layer always has a place is `OneFits`: the limit of a worker is no
less than any state layer's page. Kept and extra groups together regroup the
model's (`OutputRegroups`), so none of the checks at the end of
`refine_owner_state_groups` fails (`RefinementIsLossless`), for any two sets of
layers. Their widest is exactly the limit (`OutputIsNarrow`), since history stays
in its place and every layer somewhere (`LimitIsMet`); the global groups are no
narrower, blocks of no more bytes are no fewer (`FewerBlocks`), and refining costs
no blocks (`RefiningPays`). A budget gives back what was measured because the
measured ownership is then the cut's (`BudgetIs`). `PlacementInv` carries this
over starts and estimates to `CachesAreRegrouped`.

**Corpus** (`CalibrationCorpusProofs`). For any bank of rows, orders of digests,
held-out groups, budgets and bounds of a prompt, on the assumptions that a row
has at least one cut, that an order of digests holds all rows, and that
1 <= min <= target <= max. `Bookkeeping` says where the builder is in its list of
calls, and that a queue holds rows of its stratum that the call is about. Fair
turns follow from counting a stratum's turn together with its rows (`InTurn`):
`FairRounds` itself is not inductive, since it says nothing of who has had a turn
in this pass. `Drawn` puts `DrawnOnce` together with what it needs: what is drawn
is of its axis' bank and its corpus' groups (`AllFit`), the running call's rows
are new (`AllNew`), and an axis is empty ahead of its first call (`Pending`), so
that the general axis, which looks at groups, comes after the reasoning axis,
which does not. The two corpora then share no group, since a group has one bucket
(`CorporaShareNothing`). The budgets rest on arithmetic of the roundings:
the rounded shares leave something for the fifth axis (`LeftOver`), the quotas of
the languages add up (`QuotasAre`), a fifth of the math budget is no more than
all of it (`ShareIs`); a call is short of its limit until its last row
(`Within`), and `AllMet` says what each axis holds after each call.

What the recursive functions compute, the search for an excerpt and a sum of
tokens, is proved by a least counterexample: a set of naturals that is not empty
has a least member (`LeastExists`), and it is neither 0 nor the successor of a
good one. So no induction theorem with an operator parameter is needed.
`ExcerptsAreBest` is the search's invariant (`Searching`: cuts left of `low` are
short, cuts right of `high` long, and the best so far is the best of those
outside) carried through its rounds (`RoundsSearch`).

**Only model-checked.** All liveness (`EventuallyExported`, `PressureRelieved`,
`StepEnds`, `PoisonIsFatal`, `Completes`): the proof system does not treat
fairness. Every invariant and every action
property that a passing run checks is a theorem.

## 6. What is not modelled

- Hashes, shapes and schema checks of a shard are one predicate, `Complete`;
  bit rot and foreign files are not failures there.
- A single process uses a store root, as the recipes run it, and the root's own
  entry in its parent is durable.
- GPTQModel appends a journal record before it commits a checkpoint, and both
  are durable. A torn line of the journal is not modelled, since the writer is
  outside the tree. The remote client's retries are modelled from its settings.
- `stop_after_layer` and `inline_mixed` are options `main` never sets;
  `defer_publication_materialization` is always set.
- Graph capture, buffer sizes and weight filtering of the forward step; the
  inside of the RoCE and PCIe transports; numeric results.
- What a qualification measures and a report prints; the corpus's provenance
  fields and the order of its lines; the platform checks of a cache bundle; the
  request arithmetic of a placement row.
- How long a RoCE reduction spins before it is poisoned is left open. An output
  that is taken while the adapter is being closed meets no health check, in the
  code as in the model; `NothingTaintedPublished` speaks of serving.
- The kernels and numeric adapters, the vendored vLLM method, attestation, the
  reasoning parser, the source patchers, the source audit and the renderer of
  the release page: functions of their inputs, or reads only. Each has its reason
  in `PROJECT.json`.

## 7. Plan

Done: every component with state of its own is modelled and checked, and all
their safety properties are proved. What is left is liveness, which TLC checks
under the fairness stated in section 3, and whatever a change of the code brings:
the map in `PROJECT.json` names the definitions that a changed line concerns.
