------------------------ MODULE LayerBoundaryStore ------------------------
(***************************************************************************)
(* Dots3LayerBoundaryStore (quantization/dots3_layer_boundary_store.py):   *)
(* a directory that retains the newest complete decoder-layer boundary of  *)
(* a quantization run.                                                     *)
(*                                                                         *)
(* A committed boundary is a directory layer-<n>-<digest> holding the      *)
(* activation shards ("payload") and manifest.json ("manifest"), with an   *)
(* entry in the store's root ("name").  The digest names the manifest's    *)
(* content, so a boundary is identified here with that content: its layer, *)
(* the cumulative projection index and the activations.                    *)
(*                                                                         *)
(* Every write has two lives: disk is what a running process sees, durable *)
(* what an fsync has put on the medium.  A killed process loses nothing of *)
(* disk; a power failure leaves any state between the two.                 *)
(***************************************************************************)
EXTENDS Integers, FiniteSets, Sequences

CONSTANTS
  FirstLayer,   \* first_target_layer
  LastLayer,    \* last_target_layer
  Entry,        \* possible projection indexes of one layer
  Acts,         \* possible activations of one layer's output
  ReplayDurable \* GPTQModel has synced the replay shards it hands to commit

ASSUME LayersAssumption ==
  /\ FirstLayer \in Nat
  /\ LastLayer \in Nat
  /\ FirstLayer <= LastLayer
  /\ ReplayDurable \in BOOLEAN

VARIABLES
  disk,      \* committed boundaries as visible: a set of <<boundary, piece>>
  durable,   \* the pieces an fsync has made permanent
  tmp,       \* pieces of the staging directory .layer-*.tmp, visible
  dtmp,      \* its pieces on the medium (its "name" counts from mkdtemp on:
             \* the kernel may write a directory entry at any time)
  dest,      \* boundary being committed; <<>> before the first commit
  pc,        \* where the process is
  resume,    \* layer of the boundary in use, FirstLayer - 1 for none
  acked      \* history: newest layer whose promotion passed the barrier

storeVars == <<disk, durable, tmp, dtmp, dest, pc, resume, acked>>

Layers == FirstLayer..LastLayer
NoLayer == FirstLayer - 1
Contents == {"payload", "manifest"}
Pieces == Contents \cup {"name"}

Boundary ==
  UNION {[layer : {k}, index : [FirstLayer..k -> Entry], acts : Acts] : k \in Layers}

Staging == {"staged", "written", "flushed", "described", "sealed"}
Committing == Staging \cup {"promoted", "discarding"}

Init ==
  /\ disk = {} /\ durable = {}
  /\ tmp = {} /\ dtmp = {}
  /\ dest = <<>>
  /\ pc = "down"
  /\ resume = NoLayer
  /\ acked = NoLayer

-----------------------------------------------------------------------------
(* What the directory listing and the validation of one boundary say.      *)

Present(D) == {b \in {x[1] : x \in D} : <<b, "name">> \in D}

Latest(D) == {b \in Present(D) : \A c \in Present(D) : c.layer <= b.layer}

Complete(D, b) == \A piece \in Pieces : <<b, piece>> \in D

\* fsync of the root makes its entries, and their absence, permanent.
RootSynced(D, V) ==
  {x \in V : <<x[1], "name">> \in D} \cup {x \in D : x[2] = "name"}

\* _prune_incomplete_directories: remove the staging directory, fsync if any.
Prune == durable' = IF tmp = {} THEN durable ELSE RootSynced(disk, durable)

\* A staging directory removed earlier, with no fsync since, may come back.
Leftover == IF tmp = {} THEN dtmp ELSE {}

-----------------------------------------------------------------------------
(* A process starts and loads the newest boundary; an incomplete one is an *)
(* error, not a reason to look further back.                               *)

LoadLatest ==
  /\ pc = "down"
  /\ Prune
  /\ tmp' = {} /\ dtmp' = Leftover
  /\ \/ /\ Present(disk) = {}
        /\ resume' = NoLayer
        /\ pc' = "ready"
     \/ \E b \in Latest(disk) :
          IF Complete(disk, b)
            THEN resume' = b.layer /\ pc' = "ready"
            ELSE resume' = NoLayer /\ pc' = "unloadable"
  /\ UNCHANGED <<disk, dest, acked>>

-----------------------------------------------------------------------------
(* commit(layer k), in the order of its file-system calls.                 *)

\* Mutant: an off-by-one lets the newest layer be committed a second time.
FollowsOrRepeats(k) ==
  IF Present(disk) = {}
    THEN k = FirstLayer
    ELSE \E b \in Latest(disk) : b.layer \in {k - 1, k} /\ <<b, "manifest">> \in disk

\* The newest boundary is the previous layer's and has a readable manifest, or
\* there is no boundary and k is the first target layer.
Follows(k) ==
  IF Present(disk) = {}
    THEN k = FirstLayer
    ELSE \E b \in Latest(disk) : b.layer = k - 1 /\ <<b, "manifest">> \in disk

\* Mutant: only the last layer's entries are carried over.
ExtendsLastOnly(b) == \A c \in Latest(disk) : b.index[c.layer] = c.index[c.layer]

\* The cumulative index is the previous boundary's and the new layer's entries.
Extends(b) ==
  \A c \in Latest(disk) : \A j \in FirstLayer..c.layer : b.index[j] = c.index[j]

BeginCommit(b) ==
  /\ pc = "ready"
  /\ Follows(b.layer)
  /\ Extends(b)
  /\ Prune
  /\ tmp' = {"name"} /\ dtmp' = {"name"}
  /\ dest' = b
  /\ pc' = "staged"
  /\ UNCHANGED <<disk, resume, acked>>

\* A commit that is not contiguous raises after the pruning, with nothing staged.
RefuseCommit(k) ==
  /\ pc = "ready"
  /\ ~Follows(k)
  /\ Prune
  /\ tmp' = {} /\ dtmp' = Leftover
  /\ pc' = "refused"
  /\ UNCHANGED <<disk, dest, resume, acked>>

\* save_file or os.link per batch
WritePayload ==
  /\ pc = "staged"
  /\ tmp' = tmp \cup {"payload"}
  /\ pc' = "written"
  /\ UNCHANGED <<disk, durable, dtmp, dest, resume, acked>>

\* Mutant: no shard is synced.
FlushPayloadSkipped ==
  /\ pc = "written"
  /\ pc' = "flushed"
  /\ UNCHANGED <<disk, durable, tmp, dtmp, dest, resume, acked>>

\* fsync of each saved shard and of the shard directories.  The shards of a
\* post-quant replay are hard-linked and not synced here.
FlushPayload ==
  /\ pc = "written"
  /\ \E synced \in {TRUE, ReplayDurable} :
       dtmp' = IF synced THEN dtmp \cup {"payload"} ELSE dtmp
  /\ pc' = "flushed"
  /\ UNCHANGED <<disk, durable, tmp, dest, resume, acked>>

\* _atomic_json: the bytes are synced, the directory entry not yet
WriteManifest ==
  /\ pc = "flushed"
  /\ tmp' = tmp \cup {"manifest"}
  /\ pc' = "described"
  /\ UNCHANGED <<disk, durable, dtmp, dest, resume, acked>>

\* Mutant: the staging directory is renamed without its fsync.
SealStagingSkipped ==
  /\ pc = "described"
  /\ pc' = "sealed"
  /\ UNCHANGED <<disk, durable, tmp, dtmp, dest, resume, acked>>

\* fsync of the staging directory: its entries, not the data of linked shards
SealStaging ==
  /\ pc = "described"
  /\ dtmp' = dtmp \cup {"manifest"}
  /\ pc' = "sealed"
  /\ UNCHANGED <<disk, durable, tmp, dest, resume, acked>>

\* os.replace(temporary, destination), or the comparison when it exists
Promote ==
  /\ pc = "sealed"
  /\ tmp' = {}
  /\ IF dest \in Present(disk)
       THEN /\ pc' = IF <<dest, "manifest">> \in disk THEN "promoted" ELSE "refused"
            /\ UNCHANGED <<disk, durable, dtmp>>
       ELSE /\ disk' = disk \cup ({dest} \X tmp)
            /\ durable' = durable \cup ({dest} \X (dtmp \cap Contents))
            /\ dtmp' = dtmp \cap {"name"}
            /\ pc' = "promoted"
  /\ UNCHANGED <<dest, resume, acked>>

\* Mutant: older generations are discarded without the fsync of the root.
SyncPromotionSkipped ==
  /\ pc = "promoted"
  /\ acked' = dest.layer
  /\ pc' = "discarding"
  /\ UNCHANGED <<disk, durable, tmp, dtmp, dest, resume>>

\* fsync of the root: the durability barrier
SyncPromotion ==
  /\ pc = "promoted"
  /\ durable' = RootSynced(disk, durable)
  /\ dtmp' = {}
  /\ acked' = dest.layer
  /\ pc' = "discarding"
  /\ UNCHANGED <<disk, tmp, dest, resume>>

\* Mutant: the discarding starts before the barrier.
DiscardEarly(b, piece) ==
  /\ pc \in {"promoted", "discarding"}
  /\ b # dest
  /\ <<b, piece>> \in disk
  /\ piece = "name" => \A c \in Contents : <<b, c>> \notin disk
  /\ disk' = disk \ {<<b, piece>>}
  /\ UNCHANGED <<durable, tmp, dtmp, dest, pc, resume, acked>>

\* shutil.rmtree of every other generation, file by file, the name last
Discard(b, piece) ==
  /\ pc = "discarding"
  /\ b # dest
  /\ <<b, piece>> \in disk
  /\ piece = "name" => \A c \in Contents : <<b, c>> \notin disk
  /\ disk' = disk \ {<<b, piece>>}
  /\ UNCHANGED <<durable, tmp, dtmp, dest, pc, resume, acked>>

FinishCommit ==
  /\ pc = "discarding"
  /\ Present(disk) \subseteq {dest}
  /\ durable' = RootSynced(disk, durable)
  /\ resume' = dest.layer
  /\ pc' = "ready"
  /\ UNCHANGED <<disk, tmp, dtmp, dest, acked>>

-----------------------------------------------------------------------------
(* Failures.                                                               *)

\* An I/O error while staging: rmtree(temporary) and the exception ends the run.
AbortCommit ==
  /\ pc \in Staging
  /\ tmp' = {}
  /\ pc' = "down"
  /\ UNCHANGED <<disk, durable, dtmp, dest, resume, acked>>

\* The process dies, is stopped, or has raised; what it wrote stays visible.
Crash ==
  /\ pc # "down"
  /\ pc' = "down"
  /\ UNCHANGED <<disk, durable, tmp, dtmp, dest, resume, acked>>

\* Entries whose directory name did not survive are gone with it.
Reachable(D) == {x \in D : <<x[1], "name">> \in D}

PowerLoss ==
  /\ \E S \in SUBSET ((disk \ durable) \cup (durable \ disk)) :
       disk' = Reachable((disk \cap durable) \cup S)
  /\ durable' = disk'
  /\ tmp' \in {{}, dtmp}
  /\ dtmp' = tmp'
  /\ pc' = "down"
  /\ UNCHANGED <<dest, resume, acked>>

Fault == Crash \/ PowerLoss

-----------------------------------------------------------------------------

CommitStep ==
  \/ WritePayload \/ FlushPayload \/ WriteManifest \/ SealStaging
  \/ Promote \/ SyncPromotion \/ FinishCommit
  \/ \E x \in disk : Discard(x[1], x[2])

Next ==
  \/ LoadLatest
  \/ \E b \in Boundary : BeginCommit(b)
  \/ \E k \in Layers : RefuseCommit(k)
  \/ CommitStep
  \/ AbortCommit
  \/ Fault

Spec == Init /\ [][Next]_storeVars

-----------------------------------------------------------------------------

TypeOK ==
  /\ disk \subseteq Boundary \X Pieces
  /\ durable \subseteq Boundary \X Pieces
  /\ tmp \subseteq Pieces
  /\ dtmp \subseteq Pieces
  /\ dest \in Boundary \cup {<<>>}
  /\ pc \in Committing => dest \in Boundary
  /\ pc \in Committing \cup {"down", "ready", "unloadable", "refused"}
  /\ resume \in NoLayer..LastLayer
  /\ acked \in NoLayer..LastLayer

\* Whatever was interrupted before, the newest boundary on disk can be loaded:
\* load_latest has no fallback, so an incomplete newest directory would end
\* every later run.
NewestIsLoadable ==
  /\ pc # "unloadable"
  /\ \A b \in Latest(disk) : Complete(disk, b)

\* Once the root's fsync has reported a promotion, no crash or power failure
\* takes the resume point behind it ("Promotion above is the durability
\* barrier", line 1155).
BarrierKept ==
  acked # NoLayer => \E b \in Present(disk) : acked <= b.layer /\ Complete(disk, b)

\* The destination of a commit never exists, even after a lost promotion was
\* redone with other content: the collision branch is dead for one writer and
\* no layer ever has two generations.
OneGenerationPerLayer ==
  /\ \A b, c \in Present(disk) : b.layer = c.layer => b = c
  /\ pc = "sealed" => \A b \in Present(disk) : b.layer < dest.layer

\* A boundary stops being loadable only when a newer one is already permanent,
\* or when a power failure undoes a promotion that had not passed the barrier.
DiscardAfterBarrier ==
  [][\A b \in Present(disk) :
       Complete(disk, b) /\ ~Complete(disk', b) =>
         \/ \E c \in Present(disk') : b.layer < c.layer /\ Complete(disk' \cap durable', c)
         \/ acked < b.layer]_storeVars

\* The class docstring (line 360), "Retain only the latest complete quantized
\* decoder output boundary", read of a run that has committed its last layer:
\* no later commit will discard what an interrupted one left behind.
OnlyLatestRetained ==
  pc = "ready" /\ resume = LastLayer => Cardinality(Present(disk)) = 1

-----------------------------------------------------------------------------
(* The inductive invariant behind these.  A name counts wherever a power   *)
(* failure could leave it.                                                 *)

Anywhere == Present(disk) \cup Present(durable)

Kept(b) == \A c \in Contents : <<b, c>> \in disk \cap durable

Firm(b) == Kept(b) /\ <<b, "name">> \in disk \cap durable

\* A visible file lies in a visible directory: rmtree takes the name last.
Rooted == \A x \in disk : <<x[1], "name">> \in disk

Unique == \A b, c \in Anywhere : b.layer = c.layer => b = c

\* A boundary that may lack content is older than one that can lose nothing.
Covered ==
  \A b \in Anywhere : Kept(b) \/ \E c \in Anywhere : b.layer < c.layer /\ Firm(c)

AckedFirm == acked # NoLayer => \E c \in Anywhere : acked <= c.layer /\ Firm(c)

\* What the staging directory holds, visibly and on the medium, step by step.
StagingInv ==
  pc \in Staging =>
    /\ \A b \in Anywhere : b.layer < dest.layer
    /\ "name" \in tmp
    /\ pc # "staged" => "payload" \in tmp
    /\ pc \in {"flushed", "described", "sealed"} => "payload" \in dtmp
    /\ pc \in {"described", "sealed"} => "manifest" \in tmp
    /\ pc = "sealed" => "manifest" \in dtmp

PromotedInv ==
  pc \in {"promoted", "discarding"} =>
    /\ <<dest, "name">> \in disk
    /\ Kept(dest)
    /\ \A b \in Anywhere : b # dest => b.layer < dest.layer
    /\ pc = "discarding" => Firm(dest)

IInv ==
  /\ TypeOK /\ pc # "unloadable"
  /\ Rooted /\ Unique /\ Covered /\ AckedFirm
  /\ StagingInv /\ PromotedInv

-----------------------------------------------------------------------------
(* The store implements the stable log.                                    *)

FirmBoundaries == {b \in Present(disk) : Firm(b)}

LogOf(B) ==
  UNION {{<<j - NoLayer, b.index[j]>> : j \in FirstLayer..b.layer} : b \in B}

NewestLog ==
  LET pairs == LogOf(Latest(disk))
  IN [n \in 1..Cardinality(pairs) |-> CHOOSE e \in Entry : <<n, e>> \in pairs]

StableLength == Cardinality({x[1] : x \in LogOf(FirmBoundaries)})

Log == INSTANCE StableLog WITH
         log <- NewestLog, stable <- StableLength, Length <- LastLayer - NoLayer

\* Commits, crashes, power failures and restarts read as an append-only log
\* whose stable prefix never shrinks or changes.
ImplementsStableLog == Log!Spec

=============================================================================
