----------------------- MODULE QuantizationRunProofs -----------------------
(***************************************************************************)
(* What a quantization run may rely on when it is interrupted and started  *)
(* again, proved for any number of layers, projections and faults: the     *)
(* newest boundary, the journal and the checkpoints never contradict each  *)
(* other, so a restart is never refused, the activations it goes on from   *)
(* were computed with the committed checkpoints, and what is exported are  *)
(* those checkpoints.                                                      *)
(*                                                                         *)
(* The argument: a checkpoint is written once, after its journal record,   *)
(* so what an index tells of checkpoints stays true (TellsKept); every     *)
(* boundary on the disk is faithful to them (FaithfulKept); and the layer  *)
(* in hand is always the one after the newest boundary (PlaceOK), which    *)
(* the proofs of the store show to survive.  Like those, the theorems      *)
(* assume ReplayDurable.                                                   *)
(***************************************************************************)
EXTENDS QuantizationRun, TLAPS

(* The store's proofs, for the store of the run: what the two instances    *)
(* of LayerBoundaryStore define is the same.  LayersAssumption is part of  *)
(* RunAssumption.                                                          *)
Proved == INSTANCE LayerBoundaryStoreProofs WITH Entry <- Entries, Acts <- Lineage

\* The two invariants are one.
LEMMA SameInv == Store!IInv <=> Proved!IInv
BY DEF Store!IInv, Proved!IInv, Store!TypeOK, Proved!TypeOK, Store!Rooted, Proved!Rooted,
   Store!Unique, Proved!Unique, Store!Covered, Proved!Covered, Store!AckedFirm, Proved!AckedFirm,
   Store!StagingInv, Proved!StagingInv, Store!PromotedInv, Proved!PromotedInv, Store!Boundary,
   Proved!Boundary, Store!Pieces, Proved!Pieces, Store!Contents, Proved!Contents, Store!Committing,
   Proved!Committing, Store!Staging, Proved!Staging, Store!NoLayer, Proved!NoLayer, Store!Layers,
   Proved!Layers, Store!Anywhere, Proved!Anywhere, Store!Present, Proved!Present, Store!Kept,
   Proved!Kept, Store!Firm, Proved!Firm

\* The two initial conditions are one.
LEMMA SameInit == Store!Init <=> Proved!Init
BY DEF Store!Init, Proved!Init, Store!NoLayer, Proved!NoLayer

\* The two next-state relations are one.
LEMMA SameStep == [Store!Next]_(Store!storeVars) <=> [Proved!Next]_(Proved!storeVars)
BY DEF Store!Next, Proved!Next, Store!storeVars, Proved!storeVars, Store!LoadLatest,
   Proved!LoadLatest, Store!BeginCommit, Proved!BeginCommit, Store!RefuseCommit,
   Proved!RefuseCommit, Store!CommitStep, Proved!CommitStep, Store!WritePayload,
   Proved!WritePayload, Store!FlushPayload, Proved!FlushPayload, Store!WriteManifest,
   Proved!WriteManifest, Store!SealStaging, Proved!SealStaging, Store!Promote, Proved!Promote,
   Store!SyncPromotion, Proved!SyncPromotion, Store!FinishCommit, Proved!FinishCommit,
   Store!Discard, Proved!Discard, Store!AbortCommit, Proved!AbortCommit, Store!Fault, Proved!Fault,
   Store!Crash, Proved!Crash, Store!PowerLoss, Proved!PowerLoss, Store!Prune, Proved!Prune,
   Store!Leftover, Proved!Leftover, Store!Follows, Proved!Follows, Store!Extends, Proved!Extends,
   Store!RootSynced, Proved!RootSynced, Store!Latest, Proved!Latest, Store!Complete,
   Proved!Complete, Store!Reachable, Proved!Reachable, Store!Present, Proved!Present,
   Store!Boundary, Proved!Boundary, Store!Pieces, Proved!Pieces, Store!Contents, Proved!Contents,
   Store!Committing, Proved!Committing, Store!Staging, Proved!Staging, Store!NoLayer,
   Proved!NoLayer, Store!Layers, Proved!Layers

\* The store's invariant holds at first.
LEMMA StoreInitially ==
  ASSUME Store!Init
  PROVE  Store!IInv
<1>1. Proved!Init
  BY SameInit
<1>2. Proved!IInv
  BY <1>1, RunAssumption, Proved!SafetyInit
<1> QED BY <1>2, SameInv

\* A step of the store keeps it.
LEMMA StoreStep ==
  ASSUME ReplayDurable, Store!IInv, [Store!Next]_(Store!storeVars)
  PROVE  Store!IInv'
<1>1. Proved!IInv'
  BY RunAssumption, Proved!SafetyStep, SameInv, SameStep
<1> QED BY <1>1, SameInv, PTL

-----------------------------------------------------------------------------
(* The invariant.                                                          *)

\* A function with the record of every projection of layers S.
Tells(f, S) ==
  f = [k \in S |-> f[k]] /\ \A k \in S : HasAll(k) /\ f[k] = EntriesOf(k)

Targets(k) == FirstLayer..k

\* Journal and checkpoints: nothing is committed that is not in the journal, and no
\* layer begun after an incomplete one.
EvidenceOK ==
  /\ DOMAIN ckpt \subseteq Layers \X Modules
  /\ \A x \in DOMAIN ckpt : ckpt[x] \in Lives
  /\ Discoverable
  /\ faults \in 0..MaxFaults

\* A boundary, finished or not, wherever it is.
Faithful(b) == b.layer \in Layers /\ b.acts = b.index /\ Tells(b.index, Targets(b.layer))

BoundariesFaithful ==
  /\ \A x \in disk \cup durable : Faithful(x[1])
  /\ pc \in Store!Committing => Faithful(dest)

\* The newest boundary is layer k's, or there is none before the first target.
NewestIs(k) ==
  IF k < FirstLayer THEN Store!Present(disk) = {} ELSE \E b \in Store!Latest(disk) : b.layer = k

\* Where the run is, against where the store is.
PlaceOK ==
  /\ step \in {"none", "loop", "outputs", "commit", "adopt", "save"}
  /\ step = "none" <=> pc = "down"
  /\ step \in {"loop", "outputs", "adopt", "save"} => pc = "ready"
  /\ step = "commit" => pc \in Store!Committing /\ dest.layer = cur
  /\ cur \in 0..(LastLayer + 1)
  /\ step \in {"outputs", "commit", "adopt"} => cur \in Layers
  /\ step \in {"loop", "outputs"} => NewestIs(cur - 1)
  /\ step = "adopt" => NewestIs(cur)

\* What a running process holds.
Running == step \in {"loop", "outputs", "commit", "adopt"}
LoopOK ==
  /\ Running =>
       /\ Tells(inputs, Targets(IF step = "loop" THEN cur - 1 ELSE cur))
       /\ Tells(deferred, Targets(cur - 1))
       /\ Tells(catchup, DOMAIN catchup)
       /\ prepared \subseteq DOMAIN catchup /\ DOMAIN catchup \subseteq Layers
       /\ \A k \in Layers : k < cur => HasAll(k)
  /\ Tells(installed, DOMAIN installed)
  /\ cur <= LastLayer => installed = Empty
  /\ DOMAIN installed \subseteq Layers
  /\ step = "save" => DOMAIN installed = Layers

\* What the live inputs are read from; a boundary only between its commit and the
\* next layer's outputs.
SourceOK ==
  /\ source \in {"memory", "replay", "boundary"}
  /\ LiveInputsReadable
  /\ step \in {"outputs", "commit"} => source # "boundary"

ExportOK == output = "complete" => Tells(exported, Layers)

RunInv ==
  /\ Store!IInv
  /\ EvidenceOK /\ BoundariesFaithful /\ PlaceOK /\ LoopOK /\ SourceOK /\ ExportOK

-----------------------------------------------------------------------------
(* The store, seen from the run.                                           *)

\* A boundary is present exactly when its name is there.
LEMMA PresentName ==
  ASSUME NEW D, NEW b
  PROVE  b \in Store!Present(D) <=> <<b, "name">> \in D
<1>1. <<b, "name">> \in D => b \in {x[1] : x \in D}
  <2>1. <<b, "name">>[1] = b
    OBVIOUS
  <2>2. QED
    BY <2>1
<1>2. QED
  BY <1>1 DEF Store!Present

\* A present boundary is faithful.
LEMMA PresentFaithful ==
  ASSUME BoundariesFaithful, NEW b \in Store!Present(disk)
  PROVE  Faithful(b) /\ b.layer \in Int
<1>1. <<b, "name">> \in disk /\ <<b, "name">>[1] = b
  BY PresentName
<1>2. QED
  BY <1>1, RunAssumption DEF BoundariesFaithful, Faithful, Layers

\* A layer past the durability barrier has a boundary that is present.
LEMMA FirmSince ==
  ASSUME Store!IInv, acked \in Layers
  PROVE  \E c \in Store!Present(disk) : acked <= c.layer
<1>1. acked # Store!NoLayer
  BY RunAssumption DEF Store!NoLayer, Layers
<1>2. PICK c \in Store!Anywhere : acked <= c.layer /\ Store!Firm(c)
  BY <1>1 DEF Store!IInv, Store!AckedFirm
<1>3. c \in Store!Present(disk)
  BY <1>2, PresentName DEF Store!Firm
<1>4. QED
  BY <1>2, <1>3

\* The newest boundary is complete, and there is one.
LEMMA NewestOK ==
  ASSUME Store!IInv, BoundariesFaithful, NEW b \in Store!Latest(disk)
  PROVE  /\ b \in Store!Present(disk) /\ Faithful(b) /\ b.layer \in Layers
         /\ Store!Complete(disk, b)
         /\ \A c \in Store!Latest(disk) : c = b
<1>1. b \in Store!Present(disk) /\ Faithful(b) /\ b.layer \in Int /\ b.layer \in Layers
  BY PresentFaithful DEF Store!Latest, Faithful
<1>2. <<b, "name">> \in disk
  BY <1>1, PresentName
<1>3. b \in Store!Anywhere
  BY <1>1 DEF Store!Anywhere
<1>4. ~ \E c \in Store!Anywhere : b.layer < c.layer /\ Store!Firm(c)
  <2>1. SUFFICES ASSUME NEW c \in Store!Anywhere, b.layer < c.layer, Store!Firm(c) PROVE FALSE
    OBVIOUS
  <2>2. c \in Store!Present(disk)
    BY <2>1, PresentName DEF Store!Firm
  <2>3. c.layer <= b.layer /\ c.layer \in Int
    BY <2>2, PresentFaithful DEF Store!Latest
  <2>4. QED
    BY <2>1, <2>3, <1>1
<1>5. Store!Kept(b)
  BY <1>3, <1>4 DEF Store!IInv, Store!Covered
<1>6. Store!Complete(disk, b)
  BY <1>2, <1>5 DEF Store!Kept, Store!Complete, Store!Pieces, Store!Contents
<1>7. ASSUME NEW c \in Store!Latest(disk) PROVE c = b
  <2>1. c \in Store!Present(disk) /\ c.layer \in Int
    BY PresentFaithful DEF Store!Latest
  <2>2. c.layer = b.layer
    BY <2>1, <1>1 DEF Store!Latest
  <2>3. QED
    BY <2>1, <2>2, <1>3 DEF Store!IInv, Store!Unique, Store!Anywhere
<1>8. QED
  BY <1>1, <1>6, <1>7

\* Every boundary of a later disk was on the disk or the medium, or is the one that
\* is being committed.
LEMMA NoOtherBoundaries ==
  ASSUME [Store!Next]_(Store!storeVars)
  PROVE  /\ \A x \in disk' \cup durable' : x \in disk \cup durable \/ (pc = "sealed" /\ x[1] = dest)
         /\ dest' # dest => pc = "ready"
         /\ pc' \in Store!Committing => pc \in Store!Committing \/ pc = "ready"
<1> USE DEF Store!Committing, Store!Staging
<1>1. \A D, V : Store!RootSynced(D, V) \subseteq D \cup V
  BY DEF Store!RootSynced
<1>2. ASSUME Store!LoadLatest \/ (\E b \in Store!Boundary : Store!BeginCommit(b))
             \/ (\E k \in Store!Layers : Store!RefuseCommit(k))
      PROVE  /\ disk' = disk /\ durable' \subseteq disk \cup durable
             /\ dest' # dest => pc = "ready"
             /\ pc' \in Store!Committing => pc = "ready"
  BY <1>1, <1>2 DEF Store!LoadLatest, Store!BeginCommit, Store!RefuseCommit, Store!Prune
<1>3. CASE Store!Promote
  <2>1. \A S : \A x \in {dest} \X S : x[1] = dest
    OBVIOUS
  <2>2. QED
    BY <1>3, <2>1 DEF Store!Promote
<1>4. CASE Store!SyncPromotion \/ Store!FinishCommit
  BY <1>1, <1>4 DEF Store!SyncPromotion, Store!FinishCommit
<1>5. CASE Store!PowerLoss
  BY <1>5 DEF Store!PowerLoss, Store!Reachable
<1>6. CASE \/ Store!WritePayload \/ Store!FlushPayload \/ Store!WriteManifest \/ Store!SealStaging
           \/ \E x \in disk : Store!Discard(x[1], x[2])
  BY <1>6 DEF Store!WritePayload, Store!FlushPayload, Store!WriteManifest, Store!SealStaging, Store!Discard
<1>7. CASE Store!AbortCommit \/ Store!Crash \/ UNCHANGED Store!storeVars
  BY <1>7 DEF Store!AbortCommit, Store!Crash, Store!storeVars
<1>8. QED
  BY <1>2, <1>3, <1>4, <1>5, <1>6, <1>7 DEF Store!Next, Store!CommitStep, Store!Fault

-----------------------------------------------------------------------------
(* The evidence.                                                           *)

\* The records of a process are of its life.
LEMMA LifeOK == ASSUME EvidenceOK PROVE life \in Lives
BY RunAssumption DEF EvidenceOK, life, Lives

\* The entries of a layer are records of its projections.
LEMMA EntriesTyped ==
  ASSUME EvidenceOK, NEW k, HasAll(k)
  PROVE  EntriesOf(k) \in Entries /\ Validated(k, EntriesOf(k))
BY DEF EvidenceOK, HasAll, EntriesOf, Entries, Validated, Discoverable

\* Checkpoints are added, never replaced, and only after their record.
LEMMA EvidenceGrows ==
  ASSUME RunInv, Next
  PROVE  /\ EvidenceOK'
         /\ \A x \in DOMAIN ckpt : x \in DOMAIN ckpt' /\ ckpt'[x] = ckpt[x]
<1> USE DEF RunInv
<1>1. ASSUME UNCHANGED evidence, faults' \in 0..MaxFaults
      PROVE  /\ EvidenceOK'
             /\ \A x \in DOMAIN ckpt : x \in DOMAIN ckpt' /\ ckpt'[x] = ckpt[x]
  BY <1>1 DEF EvidenceOK, evidence, Discoverable, HasAll, Journaled
<1>2. CASE Interrupt
  BY <1>1, <1>2, RunAssumption DEF Interrupt, EvidenceOK
<1>3. CASE ClearOutput \/ Restore \/ ReplayDense \/ FinishLayer \/ PrepareCatchup \/ FinalizeCatchup
           \/ Begin \/ Commit \/ AdoptBoundary \/ RetireLayer \/ RefuseOutput
           \/ (\E k \in Layers : BindLayer(k)) \/ BeginSave \/ FinishSave
  BY <1>1, <1>3 DEF ClearOutput, Restore, ReplayDense, FinishLayer, PrepareCatchup, FinalizeCatchup,
     Begin, Commit, AdoptBoundary, RetireLayer, RefuseOutput, BindLayer, BeginSave, FinishSave,
     EvidenceOK, published, evidence
<1>4. ASSUME NEW m \in Modules, AppendJournal(m)
      PROVE  /\ EvidenceOK'
             /\ \A x \in DOMAIN ckpt : x \in DOMAIN ckpt' /\ ckpt'[x] = ckpt[x]
  BY <1>4 DEF AppendJournal, EvidenceOK, Discoverable, HasAll, Journaled
<1>5. ASSUME NEW m \in Modules, CommitCheckpoint(m)
      PROVE  /\ EvidenceOK'
             /\ \A x \in DOMAIN ckpt : x \in DOMAIN ckpt' /\ ckpt'[x] = ckpt[x]
  <2> DEFINE key == <<cur, m>>
  <2>1. /\ cur \in Layers /\ key \notin DOMAIN ckpt /\ <<cur, m, life>> \in journal
        /\ UNCHANGED <<journal, faults>>
        /\ DOMAIN ckpt' = DOMAIN ckpt \cup {key}
        /\ \A x \in DOMAIN ckpt' : ckpt'[x] = IF x = key THEN life ELSE ckpt[x]
    BY <1>5 DEF CommitCheckpoint, Quantizing, With
  <2>2. \A x \in DOMAIN ckpt : x \in DOMAIN ckpt' /\ ckpt'[x] = ckpt[x]
    BY <2>1
  <2>3. \A k : HasAll(k) => HasAll(k)'
    BY <2>2 DEF HasAll
  <2>4. \A k \in Layers : k < cur => HasAll(k)
    BY <1>5 DEF CommitCheckpoint, Quantizing, LoopOK, Running
  <2>5. ASSUME NEW x \in DOMAIN ckpt' PROVE Journaled(x[1], x[2], ckpt[x])' /\ x \in Layers \X Modules
    BY <2>1 DEF EvidenceOK, Discoverable, Journaled
  <2>6. ASSUME NEW x \in DOMAIN ckpt', NEW k \in FirstLayer..(x[1] - 1) PROVE HasAll(k)'
    <3>1. CASE x \in DOMAIN ckpt
      BY <3>1, <2>3 DEF EvidenceOK, Discoverable
    <3>2. CASE x = key
      <4>1. k \in Layers /\ k < cur
        BY <2>1, <3>2, RunAssumption DEF Layers
      <4>2. QED
        BY <4>1, <2>3, <2>4
    <3>3. QED
      BY <3>1, <3>2, <2>1
  <2>7. Discoverable'
    BY <2>5, <2>6 DEF Discoverable
  <2>8. \A x \in DOMAIN ckpt' : ckpt'[x] \in Lives
    BY <2>1, LifeOK DEF EvidenceOK
  <2>9. QED
    BY <2>1, <2>2, <2>5, <2>7, <2>8 DEF EvidenceOK
<1>6. QED
  BY <1>2, <1>3, <1>4, <1>5 DEF Next, Progress

\* So what is told of checkpoints stays true.
LEMMA TellsKept ==
  ASSUME RunInv, Next
  PROVE  /\ \A k : HasAll(k) => HasAll(k)' /\ EntriesOf(k)' = EntriesOf(k)
         /\ \A f, S : Tells(f, S) => Tells(f, S)'
<1>1. \A k : HasAll(k) => HasAll(k)' /\ EntriesOf(k)' = EntriesOf(k)
  BY EvidenceGrows DEF HasAll, EntriesOf
<1>2. QED
  BY <1>1 DEF Tells

\* Two functions that tell of the same layers are the same.
LEMMA TellsSame == ASSUME NEW f, NEW g, NEW S, Tells(f, S), Tells(g, S) PROVE f = g
<1>1. f = [k \in S |-> EntriesOf(k)] /\ g = [k \in S |-> EntriesOf(k)]
  BY DEF Tells
<1>2. QED
  BY <1>1

\* Of no layer nothing is told.
LEMMA TellsEmpty == Tells(Empty, {})
BY DEF Tells, Empty

\* One more layer.
LEMMA TellsWith ==
  ASSUME NEW f, NEW k \in Layers, Tells(f, Targets(k - 1)), HasAll(k)
  PROVE  /\ k \notin Targets(k - 1) /\ Targets(k) = Targets(k - 1) \cup {k}
         /\ Tells(With(f, k, EntriesOf(k)), Targets(k))
<1>1. k \notin Targets(k - 1) /\ Targets(k) = Targets(k - 1) \cup {k}
  BY RunAssumption DEF Targets, Layers
<1>2. DOMAIN f = Targets(k - 1)
  BY DEF Tells
<1>3. With(f, k, EntriesOf(k)) = [j \in Targets(k) |-> EntriesOf(j)]
  BY <1>1, <1>2 DEF With, Tells
<1>4. \A j \in Targets(k) : HasAll(j)
  BY <1>1 DEF Tells
<1>5. QED
  BY <1>1, <1>3, <1>4 DEF Tells

\* Such a function is an index, and a lineage.
LEMMA TellsTyped ==
  ASSUME EvidenceOK, NEW f, NEW k \in Layers, Tells(f, Targets(k))
  PROVE  f \in [FirstLayer..k -> Entries] /\ f \in Lineage
<1>1. \A j \in Targets(k) : f[j] \in Entries
  BY EntriesTyped DEF Tells
<1>2. f \in [FirstLayer..k -> Entries]
  BY <1>1 DEF Tells, Targets
<1>3. QED
  BY <1>2 DEF Lineage, Layers

-----------------------------------------------------------------------------
(* Commits.                                                                *)

\* The index to be extended tells of every layer before cur.
LEMMA PreviousTells ==
  ASSUME RunInv, step = "outputs", NEW previous \in PreviousIndexes
  PROVE  cur \in Layers /\ Tells(previous, Targets(cur - 1))
<1> USE DEF RunInv
<1>1. cur \in Layers /\ NewestIs(cur - 1)
  BY DEF PlaceOK
<1>2. CASE cur - 1 < FirstLayer
  <2>1. Store!Latest(disk) = {}
    BY <1>1, <1>2 DEF NewestIs, Store!Latest
  <2>2. previous = Empty /\ Targets(cur - 1) = {}
    BY <2>1, <1>1, <1>2, RunAssumption DEF PreviousIndexes, Targets, Layers
  <2>3. QED
    BY <1>1, <2>2, TellsEmpty
<1>3. CASE ~ (cur - 1 < FirstLayer)
  <2>1. PICK b \in Store!Latest(disk) : b.layer = cur - 1
    BY <1>1, <1>3 DEF NewestIs
  <2>2. previous = b.index /\ Faithful(b)
    BY <2>1, NewestOK DEF PreviousIndexes
  <2>3. QED
    BY <1>1, <2>1, <2>2 DEF Faithful
<1>4. QED
  BY <1>2, <1>3

\* commit_layer accepts what the loop hands it, and stages a faithful boundary.
LEMMA BeginStages ==
  ASSUME RunInv, Begin
  PROVE  /\ \E b \in Store!Boundary : Store!BeginCommit(b) /\ b.layer = cur /\ Faithful(b)
         /\ step' = "commit"
         /\ UNCHANGED <<cur, inputs, source, replay, catchup, prepared, deferred, installed>>
<1> USE DEF RunInv
<1>1. /\ step = "outputs" /\ cur \in Layers /\ NewestIs(cur - 1)
      /\ Tells(inputs, Targets(cur)) /\ Tells(deferred, Targets(cur - 1))
  BY DEF Begin, PlaceOK, LoopOK, Running
<1>2. HasAll(cur) /\ inputs[cur] = EntriesOf(cur)
  BY <1>1, RunAssumption DEF Tells, Targets, Layers
<1>3. Validated(cur, LayerEntries)
  BY <1>2, EntriesTyped DEF LayerEntries
<1>4. Store!Follows(cur)
  <2>1. CASE cur - 1 < FirstLayer
    BY <1>1, <2>1, RunAssumption DEF NewestIs, Store!Follows, Layers
  <2>2. CASE ~ (cur - 1 < FirstLayer)
    <3>1. PICK b \in Store!Latest(disk) : b.layer = cur - 1
      BY <1>1, <2>2 DEF NewestIs
    <3>2. <<b, "manifest">> \in disk /\ b \in Store!Present(disk)
      BY <3>1, NewestOK DEF Store!Complete, Store!Pieces, Store!Contents
    <3>3. QED
      BY <3>1, <3>2 DEF Store!Follows
  <2>3. QED
    BY <2>1, <2>2
<1>5. ASSUME NEW previous \in PreviousIndexes
      PROVE  /\ Chained(previous) /\ BoundaryOf(previous).layer = cur
             /\ BoundaryOf(previous) \in Store!Boundary /\ Faithful(BoundaryOf(previous))
  <2> DEFINE b == BoundaryOf(previous)
  <2>1. Tells(previous, Targets(cur - 1))
    BY <1>1, <1>5, PreviousTells
  <2>2. b.layer = cur /\ b.acts = inputs /\ b.index = With(previous, cur, EntriesOf(cur))
    BY <1>2 DEF BoundaryOf, LayerEntries
  <2>3. Tells(b.index, Targets(cur))
    BY <1>1, <1>2, <2>1, <2>2, TellsWith
  <2>4. b.acts = b.index
    BY <1>1, <2>2, <2>3, TellsSame
  <2>5. b.index \in [FirstLayer..cur -> Entries] /\ b.acts \in Lineage
    BY <1>1, <2>3, <2>4, TellsTyped
  <2>6. b \in [layer : {cur}, index : [FirstLayer..cur -> Entries], acts : Lineage]
    BY <2>2, <2>5 DEF BoundaryOf
  <2>7. Faithful(b) /\ b \in Store!Boundary
    BY <1>1, <2>2, <2>3, <2>4, <2>6 DEF Faithful, Store!Boundary, Store!Layers, Layers
  <2>8. Chained(previous)
    BY <2>1, <2>2, <2>3 DEF Chained, Cumulative, Tells, Targets
  <2>9. QED
    BY <2>2, <2>7, <2>8
<1>6. QED
  BY <1>3, <1>4, <1>5 DEF Begin

\* A commit ends with its boundary the newest one, and is not refused.
LEMMA CommitGoesOn ==
  ASSUME RunInv, Commit
  PROVE  /\ Store!CommitStep /\ dest' = dest
         /\ \/ pc' \in Store!Committing /\ step' = "commit"
            \/ pc' = "ready" /\ step' = "adopt" /\ disk' = disk /\ NewestIs(cur)
<1> USE DEF RunInv
<1>1. /\ step = "commit" /\ Store!CommitStep /\ pc \in Store!Committing
      /\ Faithful(dest) /\ dest.layer = cur /\ cur \in Layers /\ cur \in Int
  BY RunAssumption DEF Commit, PlaceOK, BoundariesFaithful, Layers
<1> USE DEF Store!Committing, Store!Staging
<1>2. CASE Store!Promote
  <2>1. dest \notin Store!Present(disk)
    <3>1. SUFFICES ASSUME dest \in Store!Anywhere PROVE FALSE
      BY DEF Store!Anywhere
    <3>2. dest.layer < dest.layer
      BY <1>2, <3>1 DEF Store!Promote, Store!IInv, Store!StagingInv
    <3>3. QED
      BY <3>2, <1>1
  <2>2. pc' = "promoted" /\ dest' = dest
    BY <1>2, <2>1 DEF Store!Promote
  <2>3. QED
    BY <1>1, <2>2 DEF Commit
<1>3. CASE Store!FinishCommit
  <2>1. pc = "discarding" /\ pc' = "ready" /\ Store!Present(disk) \subseteq {dest} /\ UNCHANGED <<disk, dest>>
    BY <1>3 DEF Store!FinishCommit
  <2>2. dest \in Store!Present(disk)
    BY <2>1, PresentName DEF Store!IInv, Store!PromotedInv
  <2>3. dest \in Store!Latest(disk)
    BY <1>1, <2>1, <2>2 DEF Store!Latest
  <2>4. NewestIs(cur)
    BY <1>1, <2>3, RunAssumption DEF NewestIs, Layers
  <2>5. QED
    BY <1>1, <2>1, <2>4 DEF Commit
<1>4. CASE \/ Store!WritePayload \/ Store!FlushPayload \/ Store!WriteManifest \/ Store!SealStaging
           \/ Store!SyncPromotion \/ \E x \in disk : Store!Discard(x[1], x[2])
  <2>1. pc' \in Store!Committing /\ pc' # "ready" /\ pc' # "refused" /\ dest' = dest
    BY <1>4, <1>1 DEF Store!WritePayload, Store!FlushPayload, Store!WriteManifest, Store!SealStaging,
              Store!SyncPromotion, Store!Discard
  <2>2. QED
    BY <1>1, <2>1 DEF Commit
<1>5. QED
  BY <1>1, <1>2, <1>3, <1>4 DEF Store!CommitStep

\* Every step is a step of the store, or leaves it alone; only a faithful boundary
\* is being committed.
LEMMA StoreMoves ==
  ASSUME RunInv, Next
  PROVE  /\ [Store!Next]_(Store!storeVars)
         /\ pc' \in Store!Committing => Faithful(dest')
<1> USE DEF RunInv
<1>1. CASE Restore
  <2>1. Store!LoadLatest /\ pc' \notin Store!Committing
    BY <1>1 DEF Restore, Store!LoadLatest, Store!Committing, Store!Staging
  <2>2. QED
    BY <2>1 DEF Store!Next
<1>2. CASE Begin
  <2>1. PICK b \in Store!Boundary : Store!BeginCommit(b) /\ Faithful(b)
    BY <1>2, BeginStages
  <2>2. dest' = b
    BY <2>1 DEF Store!BeginCommit
  <2>3. QED
    BY <2>1, <2>2 DEF Store!Next
<1>3. CASE Commit
  <2>1. Store!CommitStep /\ dest' = dest /\ pc \in Store!Committing
    BY <1>3, CommitGoesOn DEF Commit, PlaceOK
  <2>2. QED
    BY <2>1 DEF Store!Next, BoundariesFaithful
<1>4. CASE RefuseOutput \/ FinishSave \/ Interrupt
  <2>1. Store!Fault \/ Store!AbortCommit
    BY <1>4 DEF RefuseOutput, FinishSave, Interrupt, Store!Fault
  <2>2. pc' = "down"
    BY <2>1 DEF Store!Fault, Store!Crash, Store!PowerLoss, Store!AbortCommit
  <2>3. QED
    BY <2>1, <2>2 DEF Store!Next, Store!Committing, Store!Staging
<1>5. CASE \/ ReplayDense \/ (\E m \in Modules : AppendJournal(m) \/ CommitCheckpoint(m))
           \/ FinishLayer \/ PrepareCatchup \/ FinalizeCatchup \/ AdoptBoundary \/ RetireLayer
           \/ (\E k \in Layers : BindLayer(k)) \/ BeginSave \/ ClearOutput
  <2>1. UNCHANGED storeVars
    BY <1>5 DEF ReplayDense, AppendJournal, CommitCheckpoint, FinishLayer, PrepareCatchup, FinalizeCatchup,
       AdoptBoundary, RetireLayer, BindLayer, BeginSave, ClearOutput
  <2>2. QED
    BY <2>1 DEF storeVars, Store!storeVars, BoundariesFaithful
<1>6. QED
  BY <1>1, <1>2, <1>3, <1>4, <1>5 DEF Next, Progress

\* So boundaries stay faithful, through commits, discards and power failures.
LEMMA FaithfulKept ==
  ASSUME RunInv, Next
  PROVE  BoundariesFaithful'
<1> USE DEF RunInv
<1>1. \A b : Faithful(b) => Faithful(b)'
  BY TellsKept DEF Faithful
<1>2. ASSUME NEW x \in disk' \cup durable' PROVE Faithful(x[1])'
  <2>1. x \in disk \cup durable \/ (pc = "sealed" /\ x[1] = dest)
    BY StoreMoves, NoOtherBoundaries
  <2>2. Faithful(x[1])
    BY <2>1 DEF BoundariesFaithful, Store!Committing, Store!Staging
  <2>3. QED
    BY <1>1, <2>2
<1>3. pc' \in Store!Committing => Faithful(dest)'
  BY <1>1, StoreMoves
<1>4. QED
  BY <1>2, <1>3 DEF BoundariesFaithful, Store!Committing, Store!Staging

-----------------------------------------------------------------------------
(* The run.                                                                *)

LoopInv == PlaceOK /\ LoopOK /\ SourceOK /\ ExportOK

\* A process that has ended holds nothing.
LEMMA EndsClean ==
  ASSUME RunInv, Next, RefuseOutput \/ FinishSave \/ Interrupt
  PROVE  LoopInv'
<1> USE DEF RunInv
<1>1. pc' = "down" /\ Forget("none")
  BY DEF RefuseOutput, FinishSave, Interrupt, PlaceOK, Store!Fault, Store!Crash, Store!PowerLoss, Store!AbortCommit
<1>2. PlaceOK'
  BY <1>1, RunAssumption DEF PlaceOK, Forget
<1>3. LoopOK' /\ SourceOK'
  BY <1>1, RunAssumption DEF LoopOK, SourceOK, LiveInputsReadable, Running, Forget, Tells, Empty
<1>4. ExportOK'
  <2>1. CASE FinishSave
    <3>1. exported' = installed /\ Tells(installed, Layers)
      BY <2>1 DEF FinishSave, LoopOK
    <3>2. QED
      BY <3>1, TellsKept DEF ExportOK
  <2>2. CASE RefuseOutput \/ Interrupt
    <3>1. UNCHANGED <<output, exported>>
      BY <2>2 DEF RefuseOutput, Interrupt, published
    <3>2. QED
      BY <3>1, TellsKept DEF ExportOK
  <2>3. QED
    BY <2>1, <2>2
<1>5. QED
  BY <1>2, <1>3, <1>4 DEF LoopInv

\* A restart accepts what it finds.
LEMMA RestoreAccepts ==
  ASSUME RunInv, Next, Restore
  PROVE  LoopInv'
<1> USE DEF RunInv
<1>1. UNCHANGED <<disk, ckpt, journal, output, exported>>
  BY DEF Restore, Store!LoadLatest, evidence, published
<1>2. \A k : HasAll(k)' = HasAll(k) /\ EntriesOf(k)' = EntriesOf(k)
  BY <1>1 DEF HasAll, EntriesOf
<1>3. pc' = "ready"
  BY NewestOK DEF Restore, Store!LoadLatest
<1>4. ASSUME NEW start, NEW index, NEW from \in {"memory", "boundary"},
             RestoreFrom(start, index, index, from),
             start \in 0..(LastLayer + 1), NewestIs(start - 1), Tells(index, Targets(start - 1)),
             start <= FirstLayer \/ start - 1 \in Layers,
             from = "boundary" => \E b \in Store!Present(disk) : Store!Complete(disk, b) /\ b.acts = index
      PROVE  LoopInv'
  <2>1. \A k \in DOMAIN index : k \in CompletedLayers /\ index[k] = EntriesOf(k)
    <3>1. DOMAIN index = Targets(start - 1)
      BY <1>4 DEF Tells
    <3>2. ASSUME NEW k \in Targets(start - 1) PROVE k \in Layers /\ Targets(k) \subseteq Targets(start - 1)
      BY <1>4, <3>2, RunAssumption DEF Targets, Layers
    <3>3. QED
      BY <1>4, <3>1, <3>2 DEF Tells, CompletedLayers, Targets
  <2>2. /\ step' = "loop" /\ cur' = start /\ inputs' = index /\ source' = from /\ replay' = FALSE
        /\ deferred' = index /\ prepared' = {} /\ installed' = Empty
        /\ catchup' = [k \in {j \in CompletedLayers : j >= start} |-> EntriesOf(k)]
    BY <1>4, <2>1 DEF RestoreFrom, EvidenceOK
  <2>3. PlaceOK'
    BY <1>1, <1>3, <1>4, <2>2 DEF PlaceOK, NewestIs
  <2>4. Tells(inputs, Targets(IF step = "loop" THEN cur - 1 ELSE cur))' /\ Tells(deferred, Targets(cur - 1))'
    BY <1>2, <1>4, <2>2 DEF Tells, Targets
  <2>5. \A k \in CompletedLayers : k \in Layers /\ HasAll(k)
    BY RunAssumption DEF CompletedLayers, Layers
  <2>6. Tells(catchup, DOMAIN catchup)' /\ (DOMAIN catchup \subseteq Layers)' /\ (prepared \subseteq DOMAIN catchup)'
    <3>1. DOMAIN catchup' = {j \in CompletedLayers : j >= start}
          /\ \A k \in DOMAIN catchup' : catchup'[k] = EntriesOf(k)
      BY <2>2
    <3>2. Tells(catchup, DOMAIN catchup)'
      BY <1>2, <2>2, <2>5, <3>1 DEF Tells
    <3>3. QED
      BY <2>2, <2>5, <3>1, <3>2 DEF Layers
  <2>7. ASSUME NEW k \in Layers, k < start PROVE HasAll(k)
    <3>1. k \in Targets(start - 1)
      BY <1>4, <2>7, RunAssumption DEF Targets, Layers
    <3>2. QED
      BY <1>4, <3>1 DEF Tells
  <2>8. LoopOK'
    BY <1>2, <2>2, <2>4, <2>6, <2>7 DEF LoopOK, Tells, Empty
  <2>9. SourceOK'
    BY <1>1, <1>4, <2>2 DEF SourceOK, LiveInputsReadable
  <2>10. ExportOK'
    BY <1>1, TellsKept DEF ExportOK
  <2>11. QED
    BY <2>3, <2>8, <2>9, <2>10 DEF LoopInv
<1>5. CASE Store!Present(disk) = {} /\ RestoreFrom(0, Empty, Empty, "memory")
  <2>1. Targets(0 - 1) = {} /\ 0 - 1 < FirstLayer /\ 0 \in 0..(LastLayer + 1) /\ 0 <= FirstLayer
    BY RunAssumption DEF Targets
  <2>2. QED
    BY <1>4, <1>5, <2>1, TellsEmpty DEF NewestIs
<1>6. ASSUME NEW b \in Store!Latest(disk),
             IF /\ pc' = "ready"
                /\ Validated(b.layer, b.index[b.layer]) /\ Cumulative(b.layer, b.index)
               THEN RestoreFrom(NextLayer(b), b.index, b.acts, "boundary")
               ELSE Forget("rejected")
      PROVE  LoopInv'
  <2>1. /\ b \in Store!Present(disk) /\ Faithful(b) /\ b.layer \in Layers /\ Store!Complete(disk, b)
    BY NewestOK
  <2>2. b.layer \in Int /\ FirstLayer <= b.layer /\ b.layer <= LastLayer /\ FirstLayer >= 0
    BY <2>1, RunAssumption DEF Layers
  <2>3. Tells(b.index, Targets(b.layer)) /\ b.acts = b.index
    BY <2>1 DEF Faithful
  <2>4. Validated(b.layer, b.index[b.layer]) /\ Cumulative(b.layer, b.index)
    <3>1. b.layer \in Targets(b.layer)
      BY <2>2 DEF Targets
    <3>2. HasAll(b.layer) /\ b.index[b.layer] = EntriesOf(b.layer)
      BY <2>3, <3>1 DEF Tells
    <3>3. DOMAIN b.index = Targets(b.layer)
      BY <2>3 DEF Tells
    <3>4. QED
      BY <3>2, <3>3, EntriesTyped DEF Cumulative, Targets
  <2>5. RestoreFrom(b.layer + 1, b.index, b.index, "boundary")
    BY <1>3, <1>6, <2>3, <2>4 DEF NextLayer, RestoreFrom
  <2>6. /\ (b.layer + 1) - 1 = b.layer /\ ~ (b.layer < FirstLayer)
        /\ b.layer + 1 \in 0..(LastLayer + 1)
    BY <2>2, RunAssumption
  <2>7. NewestIs(b.layer)
    BY <2>6 DEF NewestIs
  <2>8. QED
    BY <1>4, <2>1, <2>3, <2>5, <2>6, <2>7
<1>7. QED
  BY <1>5, <1>6 DEF Restore

\* Steps of the loop that change no activation and no file of the store.
LEMMA LoopStep ==
  ASSUME RunInv, Next,
         \/ ReplayDense \/ (\E m \in Modules : AppendJournal(m) \/ CommitCheckpoint(m))
         \/ PrepareCatchup \/ ClearOutput
  PROVE  LoopInv'
<1> USE DEF RunInv
<1>1. /\ UNCHANGED <<disk, pc, dest, step, inputs, source, replay, catchup, deferred, installed, exported>>
      /\ output' = output \/ output' = "empty"
  BY DEF ReplayDense, AppendJournal, CommitCheckpoint, PrepareCatchup, ClearOutput, storeVars, loopVars, published
<1>2. CASE ReplayDense
  <2>1. /\ step = "loop" /\ cur < FirstLayer /\ cur' = cur + 1 /\ cur \in Int /\ UNCHANGED prepared
        /\ NewestIs(cur - 1)
    BY <1>2, RunAssumption DEF ReplayDense, PlaceOK
  <2>2. Targets(cur - 1) = {} /\ Targets(cur) = {} /\ (cur + 1) - 1 = cur
    BY <2>1, RunAssumption DEF Targets
  <2>3. PlaceOK'
    BY <1>1, <2>1, <2>2, RunAssumption DEF PlaceOK, NewestIs
  <2>4. Targets(cur - 1)' = Targets(cur - 1)
    BY <2>1, <2>2, RunAssumption DEF Targets
  <2>5. \A k \in Layers : ~ (k < cur')
    BY <2>1, RunAssumption DEF Layers
  <2>6. LoopOK'
    BY <1>1, <2>1, <2>4, <2>5, TellsKept, RunAssumption DEF LoopOK, Running
  <2>7. QED
    BY <1>1, <2>3, <2>6, TellsKept DEF LoopInv, SourceOK, LiveInputsReadable, ExportOK
<1>3. CASE \/ (\E m \in Modules : AppendJournal(m) \/ CommitCheckpoint(m))
           \/ PrepareCatchup \/ ClearOutput
  <2>1. cur' = cur /\ (prepared \subseteq DOMAIN catchup => prepared' \subseteq DOMAIN catchup)
    BY <1>3 DEF AppendJournal, CommitCheckpoint, PrepareCatchup, ClearOutput, loopVars
  <2>2. PlaceOK'
    BY <1>1, <2>1 DEF PlaceOK, NewestIs
  <2>3. LoopOK'
    BY <1>1, <2>1, TellsKept DEF LoopOK, Running, Targets
  <2>4. QED
    BY <1>1, <2>2, <2>3, TellsKept DEF LoopInv, SourceOK, LiveInputsReadable, ExportOK
<1>4. QED
  BY <1>2, <1>3

\* A layer's outputs take the place of its inputs.
LEMMA ForwardStep ==
  ASSUME RunInv, Next, FinishLayer \/ FinalizeCatchup
  PROVE  LoopInv'
<1> USE DEF RunInv
<1>1. /\ step = "loop" /\ Forward(EntriesOf(cur)) /\ cur \in Layers /\ HasAll(cur)
      /\ UNCHANGED <<disk, pc, dest, cur, catchup, prepared, deferred, installed, output, exported>>
  <2>1. CASE FinishLayer
    BY <2>1 DEF FinishLayer, Quantizing, storeVars, published
  <2>2. CASE FinalizeCatchup
    <3>1. cur \in DOMAIN catchup /\ Tells(catchup, DOMAIN catchup) /\ DOMAIN catchup \subseteq Layers
      BY <2>2 DEF FinalizeCatchup, LoopOK, Running
    <3>2. cur \in Layers /\ HasAll(cur) /\ catchup[cur] = EntriesOf(cur)
      BY <3>1 DEF Tells
    <3>3. QED
      BY <2>2, <3>2 DEF FinalizeCatchup, storeVars, published
  <2>3. QED
    BY <2>1, <2>2
<1>2. /\ step' = "outputs" /\ inputs' = With(inputs, cur, EntriesOf(cur))
      /\ source' \in {"memory", "replay"} /\ (source' = "replay" => replay')
  BY <1>1 DEF Forward
<1>3. PICK outputs : inputs' = outputs /\ Tells(outputs, Targets(cur))
  BY <1>1, <1>2, TellsWith DEF LoopOK, Running
<1>4. PlaceOK'
  BY <1>1, <1>2 DEF PlaceOK, NewestIs
<1>5. LoopOK'
  <2>1. UNCHANGED <<Targets(cur), Targets(cur - 1)>>
    BY <1>1 DEF Targets
  <2>2. Tells(outputs, Targets(cur))' /\ Tells(deferred, Targets(cur - 1))'
    BY <1>1, <1>3, <2>1, TellsKept DEF LoopOK, Running
  <2>3. Tells(catchup, DOMAIN catchup)' /\ Tells(installed, DOMAIN installed)'
    BY <1>1, TellsKept DEF LoopOK, Running
  <2>4. Tells(inputs, Targets(cur))'
    BY <1>3, <2>2
  <2>5. \A k \in Layers : k < cur => HasAll(k)'
    BY <1>1, TellsKept DEF LoopOK, Running
  <2>6. QED
    BY <1>1, <1>2, <2>2, <2>3, <2>4, <2>5 DEF LoopOK, Running
<1>6. QED
  BY <1>1, <1>2, <1>4, <1>5, TellsKept DEF LoopInv, SourceOK, LiveInputsReadable, ExportOK

\* A commit ends with the boundary of its layer, from which the inputs may be read.
LEMMA CommitStep ==
  ASSUME RunInv, Next, Begin \/ Commit
  PROVE  LoopInv'
<1> USE DEF RunInv
<1>1. /\ UNCHANGED <<cur, inputs, source, replay, catchup, prepared, deferred, installed, output, exported>>
      /\ step \in {"outputs", "commit"} /\ step' \in {"commit", "adopt"}
  BY BeginStages, CommitGoesOn DEF Begin, Commit, published
<1>2. PlaceOK'
  <2>1. CASE Begin
    <3>1. PICK b \in Store!Boundary : Store!BeginCommit(b) /\ b.layer = cur /\ step' = "commit"
      BY <2>1, BeginStages
    <3>2. pc' = "staged" /\ dest' = b
      BY <3>1 DEF Store!BeginCommit
    <3>3. QED
      BY <1>1, <2>1, <3>1, <3>2 DEF PlaceOK, Begin, Store!Committing, Store!Staging
  <2>2. CASE Commit
    <3>1. CASE pc' \in Store!Committing /\ step' = "commit"
      <4>1. dest' = dest /\ step = "commit" /\ pc' # "down"
        BY <2>2, <3>1, CommitGoesOn DEF Commit, Store!Committing, Store!Staging
      <4>2. QED
        BY <1>1, <3>1, <4>1 DEF PlaceOK, Store!Committing, Store!Staging
    <3>2. CASE pc' = "ready" /\ step' = "adopt" /\ disk' = disk /\ NewestIs(cur)
      BY <1>1, <2>2, <3>2 DEF PlaceOK, Commit, NewestIs
    <3>3. QED
      BY <2>2, <3>1, <3>2, CommitGoesOn
  <2>3. QED
    BY <2>1, <2>2
<1>3. UNCHANGED <<Targets(cur), Targets(cur - 1)>>
  BY <1>1 DEF Targets
<1>4. LoopOK'
  BY <1>1, <1>3, TellsKept DEF LoopOK, Running
<1>5. source # "boundary"
  BY <1>1 DEF SourceOK
<1>6. QED
  BY <1>1, <1>2, <1>4, <1>5, TellsKept DEF LoopInv, SourceOK, LiveInputsReadable, ExportOK

\* The inputs are read back through the boundary, the layer retires.
LEMMA AdoptStep ==
  ASSUME RunInv, Next, AdoptBoundary \/ RetireLayer
  PROVE  LoopInv'
<1> USE DEF RunInv
<1>1. /\ step = "adopt" /\ cur \in Layers /\ cur \in Int /\ NewestIs(cur) /\ pc = "ready"
      /\ UNCHANGED <<disk, pc, dest, inputs, catchup, prepared, installed, output, exported>>
  BY RunAssumption DEF AdoptBoundary, RetireLayer, PlaceOK, Layers, storeVars, published
<1>2. Tells(inputs, Targets(cur)) /\ Tells(deferred, Targets(cur - 1))
  BY <1>1 DEF LoopOK, Running
<1>3. cur \in Targets(cur) /\ HasAll(cur) /\ inputs[cur] = EntriesOf(cur)
  <2>1. cur \in Targets(cur)
    BY <1>1, RunAssumption DEF Targets, Layers
  <2>2. QED
    BY <2>1, <1>2 DEF Tells
<1>4. CASE AdoptBoundary
  <2>1. PICK b \in Store!Latest(disk) :
           IF Store!Complete(disk, b) /\ b.layer = cur /\ Validated(cur, b.index[cur])
             THEN source' = "boundary" /\ step' = step
             ELSE source' = source /\ step' = "rejected"
    BY <1>4 DEF AdoptBoundary
  <2>2. \E c \in Store!Latest(disk) : c.layer = cur
    BY <1>1, RunAssumption DEF NewestIs, Layers
  <2>3. b \in Store!Present(disk) /\ Faithful(b) /\ Store!Complete(disk, b) /\ b.layer = cur
    BY <2>1, <2>2, NewestOK
  <2>4. b.acts = inputs /\ b.index = inputs
    BY <2>3, <1>2, TellsSame DEF Faithful
  <2>5. source' = "boundary" /\ step' = "adopt"
    BY <1>1, <1>3, <2>1, <2>3, <2>4, EntriesTyped
  <2>6. UNCHANGED <<cur, replay, deferred>>
    BY <1>4 DEF AdoptBoundary
  <2>7. PlaceOK'
    BY <1>1, <2>5, <2>6 DEF PlaceOK, NewestIs
  <2>8. UNCHANGED <<Targets(cur), Targets(cur - 1)>>
    BY <2>6 DEF Targets
  <2>9. LoopOK'
    BY <1>1, <2>5, <2>6, <2>8, TellsKept DEF LoopOK, Running
  <2>10. SourceOK'
    BY <1>1, <2>3, <2>4, <2>5 DEF SourceOK, LiveInputsReadable
  <2>11. QED
    BY <1>1, <2>7, <2>9, <2>10, TellsKept DEF LoopInv, ExportOK
<1>5. CASE RetireLayer
  <2>1. cur \notin DOMAIN deferred
    BY <1>1, <1>2, TellsWith, <1>3 DEF Tells
  <2>2. /\ step' = "loop" /\ cur' = cur + 1 /\ source # "replay" /\ UNCHANGED source
        /\ deferred' = With(deferred, cur, EntriesOf(cur))
    BY <1>3, <1>5, <2>1 DEF RetireLayer, LayerEntries
  <2>3. PICK prefix : deferred' = prefix /\ Tells(prefix, Targets(cur))
    BY <1>1, <1>2, <1>3, <2>2, TellsWith
  <2>4. cur' - 1 = cur /\ cur' \in 0..(LastLayer + 1)
    BY <1>1, <2>2, RunAssumption DEF Layers
  <2>5. PlaceOK'
    <3>1. NewestIs(cur - 1)'
      BY <1>1, <2>4 DEF NewestIs
    <3>2. QED
      BY <1>1, <2>2, <2>4, <3>1 DEF PlaceOK
  <2>6. LoopOK'
    <3>1. Targets(cur - 1)' = Targets(cur)
      BY <2>4 DEF Targets
    <3>2. Tells(inputs, Targets(cur - 1))' /\ Tells(prefix, Targets(cur - 1))'
      BY <1>1, <1>2, <2>3, <3>1, TellsKept
    <3>3. \A k \in Layers : k < cur' => HasAll(k)'
      <4>1. \A k \in Layers : k < cur' => k = cur \/ k < cur
        BY <1>1, <2>2, RunAssumption DEF Layers
      <4>2. \A k \in Layers : k < cur => HasAll(k)
        BY <1>1 DEF LoopOK, Running
      <4>3. QED
        BY <1>3, <4>1, <4>2, TellsKept
    <3>4. cur' <= LastLayer => installed' = Empty
      BY <1>1, <2>2, RunAssumption DEF LoopOK, Layers
    <3>5. QED
      BY <1>1, <2>2, <2>3, <3>2, <3>3, <3>4, TellsKept DEF LoopOK, Running
  <2>7. QED
    BY <1>1, <2>2, <2>5, <2>6, TellsKept DEF LoopInv, SourceOK, LiveInputsReadable, ExportOK
<1>6. QED
  BY <1>4, <1>5

\* The packed layers are bound from the deferred prefix, which is every layer.
LEMMA SaveStep ==
  ASSUME RunInv, Next, (\E k \in Layers : BindLayer(k)) \/ BeginSave
  PROVE  LoopInv'
<1> USE DEF RunInv
<1>1. /\ step = "loop" /\ cur > LastLayer /\ cur \in 0..(LastLayer + 1) /\ output = "empty"
      /\ UNCHANGED <<disk, pc, dest, cur, inputs, source, replay, catchup, prepared, exported>>
  BY DEF BindLayer, BeginSave, PlaceOK, storeVars, published
<1>2. Tells(deferred, Layers) /\ Tells(installed, DOMAIN installed) /\ DOMAIN installed \subseteq Layers
  BY <1>1, RunAssumption DEF LoopOK, Running, Targets, Layers
<1>3. UNCHANGED <<Targets(cur), Targets(cur - 1)>>
  BY <1>1 DEF Targets
<1>4. SourceOK'
  <2>1. step' \in {"loop", "save"}
    BY <1>1, <1>2 DEF BindLayer, BeginSave, Tells
  <2>2. QED
    BY <1>1, <2>1 DEF SourceOK, LiveInputsReadable
<1>5. ASSUME NEW k \in Layers, BindLayer(k)
      PROVE  LoopInv'
  <2>1. /\ step' = "loop" /\ output' = "empty" /\ UNCHANGED deferred
        /\ HasAll(k) /\ installed' = With(installed, k, EntriesOf(k))
    BY <1>1, <1>2, <1>5 DEF BindLayer, published, Tells
  <2>2. PICK bound : installed' = bound /\ Tells(bound, DOMAIN installed \cup {k})
                     /\ DOMAIN bound = DOMAIN installed \cup {k}
    <3>1. With(installed, k, EntriesOf(k)) = [j \in DOMAIN installed \cup {k} |-> EntriesOf(j)]
      BY <1>2 DEF With, Tells
    <3>2. Tells(With(installed, k, EntriesOf(k)), DOMAIN installed \cup {k})
      BY <1>2, <2>1, <3>1 DEF Tells
    <3>3. QED
      BY <2>1, <3>1, <3>2
  <2>3. Tells(bound, DOMAIN bound)'
    BY <2>2, TellsKept
  <2>4. PlaceOK'
    BY <1>1, <2>1 DEF PlaceOK, NewestIs
  <2>5. ~ (cur <= LastLayer) /\ DOMAIN bound \subseteq Layers
    BY <1>1, <1>2, <2>2, RunAssumption
  <2>6. LoopOK'
    BY <1>1, <1>3, <2>1, <2>2, <2>3, <2>5, TellsKept DEF LoopOK, Running
  <2>7. QED
    BY <1>4, <2>1, <2>4, <2>6 DEF LoopInv, ExportOK
<1>6. CASE BeginSave
  <2>1. DOMAIN deferred = Layers
    BY <1>2 DEF Tells
  <2>2. DOMAIN installed = Layers /\ step' = "save" /\ output' = "partial" /\ UNCHANGED installed
    BY <1>2, <1>6, <2>1 DEF BeginSave
  <2>3. PlaceOK'
    BY <1>1, <2>2 DEF PlaceOK
  <2>4. ~ (cur <= LastLayer)
    BY <1>1, RunAssumption
  <2>5. LoopOK'
    BY <1>1, <1>2, <2>2, <2>4, TellsKept DEF LoopOK, Running
  <2>6. QED
    BY <1>4, <2>2, <2>3, <2>5 DEF LoopInv, ExportOK
<1>7. QED
  BY <1>5, <1>6

-----------------------------------------------------------------------------
(* The results.                                                            *)

\* The invariant holds before the first run.
LEMMA Initially == ASSUME Init PROVE RunInv
<1>1. Store!IInv
  BY StoreInitially DEF Init
<1>2. EvidenceOK
  BY RunAssumption DEF Init, EvidenceOK, Discoverable, Empty
<1>3. BoundariesFaithful /\ PlaceOK /\ LoopOK /\ SourceOK /\ ExportOK
  BY RunAssumption DEF Init, Store!Init, BoundariesFaithful, Store!Committing, Store!Staging,
     PlaceOK, LoopOK, Running, Tells, Empty, SourceOK, LiveInputsReadable, ExportOK
<1>4. QED
  BY <1>1, <1>2, <1>3 DEF RunInv

\* Every step keeps the invariant.
LEMMA Step ==
  ASSUME ReplayDurable, RunInv, [Next]_vars
  PROVE  RunInv'
<1>1. CASE Next
  <2>1. Store!IInv'
    BY <1>1, StoreMoves, StoreStep DEF RunInv
  <2>2. EvidenceOK' /\ BoundariesFaithful'
    BY <1>1, EvidenceGrows, FaithfulKept
  <2>3. LoopInv'
    BY <1>1, EndsClean, RestoreAccepts, LoopStep, ForwardStep, CommitStep, AdoptStep, SaveStep
       DEF Next, Progress
  <2>4. QED
    BY <2>1, <2>2, <2>3 DEF RunInv, LoopInv
<1>2. CASE UNCHANGED vars
  <2>1. Store!IInv'
    BY <1>2, StoreStep DEF RunInv, vars, storeVars, Store!storeVars
  <2>2. \A f, S : Tells(f, S)' = Tells(f, S)
    BY <1>2 DEF vars, evidence, Tells, HasAll, EntriesOf
  <2>3. EvidenceOK' /\ BoundariesFaithful'
    BY <1>2, <2>2 DEF RunInv, vars, storeVars, evidence, EvidenceOK, Discoverable, HasAll, Journaled,
       BoundariesFaithful, Faithful, Store!Committing, Store!Staging
  <2>4. \A k : HasAll(k)' = HasAll(k)
    BY <1>2 DEF vars, evidence, HasAll
  <2>5. UNCHANGED <<disk, pc, dest, step, cur, inputs, source, replay, catchup, prepared, deferred,
                    installed, output, exported>>
    BY <1>2 DEF vars, storeVars, loopVars, published
  <2>6. UNCHANGED <<Targets(cur), Targets(cur - 1)>>
    BY <2>5 DEF Targets
  <2>7. PlaceOK' /\ LoopOK' /\ SourceOK' /\ ExportOK'
    BY <2>2, <2>4, <2>5, <2>6
       DEF RunInv, PlaceOK, NewestIs, LoopOK, Running, SourceOK, LiveInputsReadable, ExportOK
  <2>8. QED
    BY <2>1, <2>3, <2>7 DEF RunInv
<1>3. QED
  BY <1>1, <1>2

\* Journal, checkpoints, boundaries, the place of the run and what a process holds
\* agree in every reachable state, whatever interrupted whatever.
THEOREM RunSafety ==
  ASSUME ReplayDurable
  PROVE  Spec => []RunInv
<1>1. RunInv /\ [Next]_vars => RunInv'
  BY Step
<1>2. Init => RunInv
  BY Initially
<1>3. QED
  BY <1>1, <1>2, PTL DEF Spec

\* The run only ever uses the store by its own steps: what is proved of the store holds of
\* the store of the run.
THEOREM RunDrivesStore ==
  ASSUME ReplayDurable
  PROVE  Spec => Store!Spec
<1>1. Init => Store!Init
  BY DEF Init
<1>2. RunInv /\ [Next]_vars => [Store!Next]_(Store!storeVars)
  <2>1. RunInv /\ Next => [Store!Next]_(Store!storeVars)
    BY StoreMoves
  <2>2. UNCHANGED vars => UNCHANGED Store!storeVars
    BY DEF vars, storeVars, Store!storeVars
  <2>3. QED
    BY <2>1, <2>2
<1>3. QED
  BY <1>1, <1>2, RunSafety, PTL DEF Spec, Store!Spec

\* Nothing an interruption leaves makes restore(), commit_layer() or the packed count
\* raise: the run is never rejected.
THEOREM NothingIsRejected ==
  ASSUME ReplayDurable
  PROVE  Spec => []NeverRejected
<1>1. RunInv => NeverRejected
  BY DEF RunInv, PlaceOK, NeverRejected
<1>2. QED
  BY <1>1, RunSafety, PTL

\* A boundary that can be loaded names exactly the committed checkpoints of its layers, and
\* its activations were computed with them.
THEOREM BoundariesMatch ==
  ASSUME ReplayDurable
  PROVE  Spec => []BoundaryMatchesCheckpoints
<1>1. ASSUME RunInv
      PROVE  BoundaryMatchesCheckpoints
  <2>1. ASSUME NEW b \in Store!Latest(disk)
        PROVE  /\ b.acts = b.index
               /\ \A k \in FirstLayer..b.layer : HasAll(k) /\ b.index[k] = EntriesOf(k)
    <3>1. Faithful(b)
      BY <1>1, <2>1, NewestOK DEF RunInv
    <3>2. QED
      BY <3>1 DEF Faithful, Tells, Targets
  <2>2. QED
    BY <2>1 DEF BoundaryMatchesCheckpoints
<1>2. QED
  BY <1>1, RunSafety, PTL

\* The live activations were computed with the committed checkpoints of every earlier layer,
\* after any mix of resume, catch-up and quantization.
THEOREM ProvenanceIsKept ==
  ASSUME ReplayDurable
  PROVE  Spec => []ProvenanceKept
<1>1. ASSUME RunInv, Running
      PROVE  LET S == FirstLayer..(IF step = "loop" THEN cur - 1 ELSE cur) IN
             DOMAIN inputs = S /\ \A k \in S : HasAll(k) /\ inputs[k] = EntriesOf(k)
  <2>1. Tells(inputs, Targets(IF step = "loop" THEN cur - 1 ELSE cur))
    BY <1>1 DEF RunInv, LoopOK
  <2>2. QED
    BY <2>1 DEF Tells, Targets
<1>2. RunInv => ProvenanceKept
  BY <1>1 DEF ProvenanceKept, Running
<1>3. QED
  BY <1>2, RunSafety, PTL

\* What the live inputs are read from is still there, although commits discard older
\* boundaries and the replay directory.
THEOREM InputsStayReadable ==
  ASSUME ReplayDurable
  PROVE  Spec => []LiveInputsReadable
<1>1. RunInv => LiveInputsReadable
  BY DEF RunInv, SourceOK
<1>2. QED
  BY <1>1, RunSafety, PTL

\* A complete output holds every target layer, each as the checkpoint the run used.
THEOREM ExportsAreComplete ==
  ASSUME ReplayDurable
  PROVE  Spec => []ExportIsComplete
<1>1. ASSUME RunInv, output = "complete"
      PROVE  exported = [k \in Layers |-> EntriesOf(k)]
  <2>1. Tells(exported, Layers)
    BY <1>1 DEF RunInv, ExportOK
  <2>2. exported = [k \in Layers |-> exported[k]] /\ \A k \in Layers : exported[k] = EntriesOf(k)
    BY <2>1 DEF Tells
  <2>3. [k \in Layers |-> exported[k]] = [k \in Layers |-> EntriesOf(k)]
    BY <2>2
  <2>4. QED
    BY <2>2, <2>3
<1>2. RunInv => ExportIsComplete
  BY <1>1 DEF ExportIsComplete
<1>3. QED
  BY <1>2, RunSafety, PTL

\* A layer whose boundary passed the durability barrier is never run again.
THEOREM BarrierIsNeverCrossed ==
  ASSUME ReplayDurable
  PROVE  Spec => []ResumesPastBarrier
<1>1. ASSUME RunInv, step \in {"loop", "outputs"}, acked \in Layers
      PROVE  acked < cur
  <2>1. acked \in Int /\ FirstLayer <= acked /\ cur \in Int
    BY <1>1, RunAssumption DEF RunInv, PlaceOK, Layers
  <2>2. PICK c \in Store!Present(disk) : acked <= c.layer
    BY <1>1, FirmSince DEF RunInv
  <2>3. c.layer \in Int /\ c.layer \in Layers
    BY <1>1, <2>2, PresentFaithful DEF RunInv, Faithful
  <2>4. NewestIs(cur - 1)
    BY <1>1 DEF RunInv, PlaceOK
  <2>5. PICK b \in Store!Latest(disk) : b.layer = cur - 1
    BY <2>2, <2>4 DEF NewestIs
  <2>6. c.layer <= b.layer
    BY <2>2, <2>5 DEF Store!Latest
  <2>7. QED
    BY <2>1, <2>2, <2>3, <2>5, <2>6
<1>2. RunInv => ResumesPastBarrier
  BY <1>1 DEF ResumesPastBarrier
<1>3. QED
  BY <1>2, RunSafety, PTL

-----------------------------------------------------------------------------
(* The types.                                                              *)

\* Nothing held, or the records of the layers up to some layer.
Held(f) == f \in {Empty} \cup Lineage

\* What RunTypeOK says and RunInv does not.
TypeRest ==
  /\ journal \subseteq Layers \X Modules \X Lives
  /\ output \in {"empty", "partial", "complete"} /\ Held(exported)
  /\ replay \in BOOLEAN
  /\ Held(inputs) /\ Held(deferred) /\ DOMAIN catchup \subseteq Layers /\ prepared \subseteq DOMAIN catchup

\* What a running process holds has its type.
LEMMA HoldsTyped ==
  RunInv /\ Running => Held(inputs) /\ Held(deferred)
<1>1. ASSUME EvidenceOK, NEW f, NEW k \in (FirstLayer - 1)..LastLayer, Tells(f, Targets(k))
      PROVE  Held(f)
  <2>1. CASE k = FirstLayer - 1
    <3>1. Targets(k) = {}
      BY <2>1, RunAssumption DEF Targets
    <3>2. f = Empty
      BY <1>1, <3>1, TellsEmpty, TellsSame
    <3>3. QED
      BY <3>2 DEF Held
  <2>2. CASE k # FirstLayer - 1
    <3>1. k \in Layers
      BY <1>1, <2>2, RunAssumption DEF Layers
    <3>2. QED
      BY <1>1, <3>1, TellsTyped DEF Held
  <2>3. QED
    BY <2>1, <2>2
<1>2. ASSUME EvidenceOK, NEW f, NEW k \in -1..LastLayer, Tells(f, Targets(k))
      PROVE  Held(f)
  <2>1. CASE k < FirstLayer
    <3>1. Targets(k) = {} /\ Targets(FirstLayer - 1) = {}
      BY <1>2, <2>1, RunAssumption DEF Targets
    <3>2. FirstLayer - 1 \in (FirstLayer - 1)..LastLayer
      BY RunAssumption
    <3>3. QED
      BY <1>1, <1>2, <3>1, <3>2
  <2>2. CASE ~ (k < FirstLayer)
    <3>1. k \in (FirstLayer - 1)..LastLayer
      BY <1>2, <2>2, RunAssumption
    <3>2. QED
      BY <1>1, <1>2, <3>1
  <2>3. QED
    BY <2>1, <2>2
<1>3. ASSUME RunInv, Running
      PROVE  Held(inputs) /\ Held(deferred)
  <2>1. /\ EvidenceOK
        /\ Tells(inputs, Targets(IF step = "loop" THEN cur - 1 ELSE cur))
        /\ Tells(deferred, Targets(cur - 1))
        /\ cur \in 0..(LastLayer + 1) /\ (step # "loop" => cur \in Layers)
    BY <1>3 DEF RunInv, LoopOK, PlaceOK, Running
  <2>2. /\ cur - 1 \in -1..LastLayer
        /\ (IF step = "loop" THEN cur - 1 ELSE cur) \in -1..LastLayer
    BY <2>1, RunAssumption DEF Layers
  <2>3. Held(inputs)
    BY <1>2, <2>1, <2>2
  <2>4. QED
    BY <1>2, <2>1, <2>2, <2>3
<1>4. QED
  BY <1>3

\* A process that ends, or turns to the save, takes up nothing new.
LEMMA LetsGo ==
  ASSUME RunInv, Next, step' \in {"none", "save"}
  PROVE  /\ inputs' \in {inputs, Empty} /\ deferred' \in {deferred, Empty}
         /\ UNCHANGED <<catchup, prepared>> \/ (catchup' = Empty /\ prepared' = {})
<1>1. step \in {"none", "loop", "outputs", "commit", "adopt", "save"}
  BY DEF RunInv, PlaceOK
<1>2. CASE Interrupt \/ RefuseOutput \/ FinishSave
  BY <1>2 DEF Interrupt, RefuseOutput, FinishSave, Forget
<1>3. CASE ClearOutput \/ BeginSave \/ Commit \/ ReplayDense \/ PrepareCatchup \/ AdoptBoundary
           \/ (\E m \in Modules : AppendJournal(m) \/ CommitCheckpoint(m))
           \/ (\E k \in Layers : BindLayer(k))
  BY <1>3 DEF ClearOutput, BeginSave, Commit, ReplayDense, PrepareCatchup, AdoptBoundary, loopVars,
     AppendJournal, CommitCheckpoint, BindLayer
<1>4. CASE Restore \/ FinishLayer \/ FinalizeCatchup \/ Begin \/ RetireLayer
  BY <1>4 DEF Restore, RestoreFrom, FinishLayer, FinalizeCatchup, Forward, Begin, RetireLayer, Forget
<1>5. QED
  BY <1>2, <1>3, <1>4 DEF Next, Progress

\* Every step keeps those types.
LEMMA RestStep ==
  ASSUME RunInv, RunInv', TypeRest, Next, Running' => Held(inputs)' /\ Held(deferred)'
  PROVE  TypeRest'
<1>1. \A f : Held(f)' = Held(f)
  BY DEF Held
<1>2. Held(inputs)' /\ Held(deferred)'
  <2>1. CASE Running'
    BY <2>1
  <2>2. CASE ~ Running'
    <3>1. step' \in {"none", "save"}
      BY <2>2 DEF RunInv, PlaceOK, Running
    <3>2. inputs' \in {inputs, Empty} /\ deferred' \in {deferred, Empty}
      BY <3>1, LetsGo
    <3>3. Held(Empty)
      BY DEF Held
    <3>4. QED
      BY <3>2, <3>3 DEF TypeRest, Held
  <2>3. QED
    BY <2>1, <2>2
<1>3. journal' \subseteq Layers \X Modules \X Lives
  <2>1. CASE journal' = journal
    BY <2>1 DEF TypeRest
  <2>2. ASSUME NEW m \in Modules, AppendJournal(m)
        PROVE  journal' \subseteq Layers \X Modules \X Lives
    <3>1. cur \in Layers /\ journal' = journal \cup {<<cur, m, life>>} /\ life \in Lives
      BY <2>2, LifeOK DEF AppendJournal, Quantizing, RunInv
    <3>2. QED
      BY <3>1 DEF TypeRest
  <2>3. (\E m \in Modules : AppendJournal(m)) \/ journal' = journal
    BY DEF Next, Progress, Restore, ReplayDense, CommitCheckpoint, FinishLayer, PrepareCatchup,
       FinalizeCatchup, Begin, Commit, AdoptBoundary, RetireLayer, RefuseOutput, BindLayer, BeginSave,
       FinishSave, ClearOutput, Interrupt, evidence
  <2>4. QED
    BY <2>1, <2>2, <2>3
<1>4. output' \in {"empty", "partial", "complete"} /\ Held(exported)'
  <2>1. CASE FinishSave
    <3>1. output' = "complete" /\ exported' = installed /\ step = "save"
      BY <2>1 DEF FinishSave
    <3>2. Tells(installed, Targets(LastLayer)) /\ LastLayer \in Layers /\ EvidenceOK
      BY <3>1, RunAssumption DEF RunInv, LoopOK, Targets, Layers
    <3>3. QED
      BY <3>1, <3>2, TellsTyped DEF Held
  <2>2. CASE ~ FinishSave
    <3>1. exported' = exported /\ output' \in {output, "empty", "partial"}
      BY <2>2 DEF Next, Progress, Restore, ReplayDense, AppendJournal, CommitCheckpoint, FinishLayer,
         PrepareCatchup, FinalizeCatchup, Begin, Commit, AdoptBoundary, RetireLayer, RefuseOutput,
         BindLayer, BeginSave, ClearOutput, Interrupt, published
    <3>2. QED
      BY <3>1, <1>1 DEF TypeRest
  <2>3. QED
    BY <2>1, <2>2
<1>5. DOMAIN catchup' \subseteq Layers /\ prepared' \subseteq DOMAIN catchup'
  <2>1. CASE Running'
    BY <2>1 DEF RunInv, LoopOK
  <2>2. CASE ~ Running'
    <3>1. step' \in {"none", "save"}
      BY <2>2 DEF RunInv, PlaceOK, Running
    <3>2. DOMAIN Empty = {}
      BY DEF Empty
    <3>3. QED
      BY <3>1, <3>2, LetsGo DEF TypeRest
  <2>3. QED
    BY <2>1, <2>2
<1>6. replay' \in BOOLEAN
  BY DEF TypeRest, Next, Progress, Restore, RestoreFrom, ReplayDense, AppendJournal, CommitCheckpoint,
     FinishLayer, PrepareCatchup, FinalizeCatchup, Forward, Begin, Commit, AdoptBoundary, RetireLayer,
     RefuseOutput, BindLayer, BeginSave, FinishSave, ClearOutput, Interrupt, Forget, loopVars
<1>7. QED
  BY <1>2, <1>3, <1>4, <1>5, <1>6 DEF TypeRest

\* Type correctness of the run.
THEOREM RunTypes ==
  ASSUME ReplayDurable
  PROVE  Spec => []RunTypeOK
<1>1. Init => TypeRest
  BY DEF Init, TypeRest, Held, Empty
<1>2. RunInv /\ RunInv' /\ TypeRest /\ [Next]_vars => TypeRest'
  <2>1. RunInv' /\ Running' => Held(inputs)' /\ Held(deferred)'
    BY HoldsTyped, PTL
  <2>2. RunInv /\ RunInv' /\ TypeRest /\ Next => TypeRest'
    BY <2>1, RestStep
  <2>3. UNCHANGED vars /\ TypeRest => TypeRest'
    BY DEF vars, evidence, published, loopVars, TypeRest, Held
  <2>4. QED
    BY <2>2, <2>3
<1>3. ASSUME RunInv, TypeRest
      PROVE  RunTypeOK
  <2>1. ASSUME NEW x \in disk \cup durable
        PROVE  /\ x[1].layer \in Layers
               /\ {x[1].index, x[1].acts} \subseteq [FirstLayer..x[1].layer -> Entries]
               /\ x[2] \in Store!Pieces
    <3>1. Faithful(x[1]) /\ EvidenceOK /\ x[2] \in Store!Pieces
      BY <1>3, <2>1 DEF RunInv, BoundariesFaithful, Store!IInv, Store!TypeOK
    <3>2. QED
      BY <3>1, TellsTyped DEF Faithful
  <2>2. {resume, acked} \subseteq (FirstLayer - 1)..LastLayer
    BY <1>3 DEF RunInv, Store!IInv, Store!TypeOK, Store!NoLayer
  <2>3. DOMAIN installed \subseteq Layers
    BY <1>3 DEF RunInv, LoopOK
  <2>4. QED
    BY <1>3, <2>1, <2>2, <2>3 DEF RunTypeOK, TypeRest, Held, RunInv, EvidenceOK, PlaceOK, SourceOK
<1>4. QED
  BY <1>1, <1>2, <1>3, RunSafety, PTL DEF Spec
=============================================================================
