-------------------------- MODULE QuantizationRun --------------------------
(***************************************************************************)
(* A resumable quantization run: quantize_spark.main, the layer loop that  *)
(* calls Dots3LayerBoundaryController's hooks, and the three things it     *)
(* leaves on disk: projection checkpoints, the error journal and the       *)
(* rolling boundary of LayerBoundaryStore.                                 *)
(*                                                                         *)
(* GPTQModel (a submodule outside src/) runs the loop, quantizes, and owns *)
(* the journal and the checkpoint store; those actions are external and    *)
(* model what the hooks and validations here rely on: a record is in the   *)
(* journal before its checkpoint is committed, both are durable, and a     *)
(* committed checkpoint is reused, not replaced.                           *)
(*                                                                         *)
(* A projection record is identified by the process life that made it, so  *)
(* that two quantizations of one projection differ.  inputs is the lineage *)
(* of the live activations: which record of each earlier layer they were   *)
(* computed with.                                                          *)
(***************************************************************************)
EXTENDS Integers

CONSTANTS
  FirstLayer,  \* 1: layer 0 is dense and only replayed
  LastLayer,
  Modules,     \* routed projections of one layer
  MaxFaults,   \* bound on crashes, power failures and I/O errors
  ReplayDurable

ASSUME RunAssumption ==
  /\ FirstLayer \in Nat /\ LastLayer \in Nat /\ FirstLayer <= LastLayer
  /\ MaxFaults \in Nat /\ ReplayDurable \in BOOLEAN
  /\ Modules # {}

VARIABLES
  disk, durable, tmp, dtmp, dest, pc, resume, acked,   \* LayerBoundaryStore
  journal,    \* errors.jsonl: <<layer, module, record>>
  ckpt,       \* committed checkpoints: <<layer, module>> |-> record
  output,     \* output directory
  exported,   \* packed layers of the saved model
  faults,
  step,       \* where the run is between two calls of the store
  cur,        \* layer in hand
  inputs,     \* lineage of the live activations
  source,     \* where they are read from: "memory", "replay" or "boundary"
  replay,     \* the post-quant replay directory of cur exists
  catchup,    \* _catchup_layers
  prepared,   \* _prepared_catchup_layers
  deferred,   \* _deferred_prefix_layers
  installed   \* layers whose packed modules are bound for publication

storeVars == <<disk, durable, tmp, dtmp, dest, pc, resume, acked>>
evidence == <<journal, ckpt>>
published == <<output, exported>>
loopVars == <<step, cur, inputs, source, replay, catchup, prepared, deferred, installed>>
vars == <<storeVars, evidence, published, faults, loopVars>>

Lives == 1..(MaxFaults + 1)
life == faults + 1

Entries == [Modules -> Lives]
Lineage == UNION {[FirstLayer..k -> Entries] : k \in FirstLayer..LastLayer}
Empty == [k \in {} |-> 0]

Store == INSTANCE LayerBoundaryStore WITH Entry <- Entries, Acts <- Lineage

Layers == FirstLayer..LastLayer

Init ==
  /\ Store!Init
  /\ journal = {} /\ ckpt = Empty
  /\ output = "empty" /\ exported = Empty
  /\ faults = 0
  /\ step = "none" /\ cur = 0
  /\ inputs = Empty /\ source = "memory" /\ replay = FALSE
  /\ catchup = Empty /\ prepared = {} /\ deferred = Empty /\ installed = Empty

\* With(f, k, e): f with k |-> e added or replaced.
With(f, k, e) == [x \in DOMAIN f \cup {k} |-> IF x = k THEN e ELSE f[x]]

\* What a process loses when it ends.
Forget(next) ==
  /\ step' = next
  /\ cur' = 0
  /\ inputs' = Empty /\ source' = "memory" /\ replay' = FALSE
  /\ catchup' = Empty /\ prepared' = {} /\ deferred' = Empty /\ installed' = Empty

-----------------------------------------------------------------------------
(* Evidence.                                                               *)

HasAll(k) == \A m \in Modules : <<k, m>> \in DOMAIN ckpt

EntriesOf(k) == [m \in Modules |-> ckpt[<<k, m>>]]

\* _read_error_journal: the record is one of the journal's lines (appended whole)
Journaled(k, m, record) == <<k, m, record>> \in journal

\* _validate_projection_entries: every checkpoint is there, with the record the
\* entries name, and that record is in the journal.
Validated(k, entries) ==
  \A m \in Modules :
    /\ <<k, m>> \in DOMAIN ckpt
    /\ ckpt[<<k, m>>] = entries[m]
    /\ Journaled(k, m, entries[m])

\* _validate_completed_projection_index: every layer up to k, each one once
Cumulative(k, index) == DOMAIN index = FirstLayer..k

\* discover_completed_projection_layers: no stray record, no layer begun after
\* an incomplete one.
Discoverable ==
  /\ \A x \in DOMAIN ckpt : Journaled(x[1], x[2], ckpt[x])
  /\ \A x \in DOMAIN ckpt : \A k \in FirstLayer..(x[1] - 1) : HasAll(k)

CompletedLayers == {k \in Layers : \A j \in FirstLayer..k : HasAll(j)}

-----------------------------------------------------------------------------
(* restore(): load the newest boundary, discover the checkpoints, split    *)
(* them into the deferred prefix and the layers to catch up.               *)

RestoreFrom(start, index, acts, from) ==
  IF /\ Discoverable
     /\ \A k \in DOMAIN index : k \in CompletedLayers /\ index[k] = EntriesOf(k)
    THEN /\ step' = "loop"
         /\ cur' = start
         /\ inputs' = acts /\ source' = from /\ replay' = FALSE
         /\ deferred' = index
         /\ catchup' = [k \in {j \in CompletedLayers : j >= start} |-> EntriesOf(k)]
         /\ prepared' = {} /\ installed' = Empty
    ELSE Forget("rejected")

\* Mutant: the restart runs the committed layer once more.
NextLayerSame(b) == b.layer

\* start_layer_index after a boundary
NextLayer(b) == b.layer + 1

Restore ==
  /\ step = "none"
  /\ Store!LoadLatest
  /\ \/ /\ Store!Present(disk) = {}
        /\ RestoreFrom(0, Empty, Empty, "memory")
     \/ \E b \in Store!Latest(disk) :
          IF /\ pc' = "ready"
             /\ Validated(b.layer, b.index[b.layer]) /\ Cumulative(b.layer, b.index)
            THEN RestoreFrom(NextLayer(b), b.index, b.acts, "boundary")
            ELSE Forget("rejected")
  /\ UNCHANGED <<evidence, published, faults>>

-----------------------------------------------------------------------------
(* The layer loop.                                                         *)

\* commit_layer answers "not-targeted" for a dense prefix layer.
ReplayDense ==
  /\ step = "loop" /\ cur < FirstLayer
  /\ cur' = cur + 1
  /\ UNCHANGED <<storeVars, evidence, published, faults, step, inputs, source, replay,
                 catchup, prepared, deferred, installed>>

Quantizing == step = "loop" /\ cur \in Layers /\ cur \notin DOMAIN catchup

AppendJournal(m) ==
  /\ Quantizing
  /\ <<cur, m>> \notin DOMAIN ckpt
  /\ journal' = journal \cup {<<cur, m, life>>}
  /\ UNCHANGED <<storeVars, ckpt, published, faults, loopVars>>

\* Mutant: the checkpoint is committed before its journal record.
CommitCheckpointFirst(m) ==
  /\ Quantizing
  /\ <<cur, m>> \notin DOMAIN ckpt
  /\ ckpt' = With(ckpt, <<cur, m>>, life)
  /\ UNCHANGED <<storeVars, journal, published, faults, loopVars>>

CommitCheckpoint(m) ==
  /\ Quantizing
  /\ <<cur, m>> \notin DOMAIN ckpt
  /\ <<cur, m, life>> \in journal
  /\ ckpt' = With(ckpt, <<cur, m>>, life)
  /\ UNCHANGED <<storeVars, journal, published, faults, loopVars>>

\* The layer's outputs replace its inputs, in memory or as a replay directory.
Forward(entries) ==
  /\ step' = "outputs"
  /\ inputs' = With(inputs, cur, entries)
  /\ \E direct \in BOOLEAN :
       /\ source' = IF direct THEN "replay" ELSE "memory"
       /\ replay' = direct

FinishLayer ==
  /\ Quantizing
  /\ HasAll(cur)
  /\ Forward(EntriesOf(cur))
  /\ UNCHANGED <<storeVars, evidence, published, faults, cur, catchup, prepared,
                 deferred, installed>>

PrepareCatchup ==
  /\ step = "loop" /\ cur \in DOMAIN catchup
  /\ cur \notin prepared
  /\ prepared' = prepared \cup {cur}
  /\ UNCHANGED <<storeVars, evidence, published, faults, step, cur, inputs, source,
                 replay, catchup, deferred, installed>>

FinalizeCatchup ==
  /\ step = "loop" /\ cur \in prepared
  /\ Forward(catchup[cur])
  /\ UNCHANGED <<storeVars, evidence, published, faults, cur, catchup, prepared,
                 deferred, installed>>

LayerEntries == inputs[cur]

PreviousIndexes ==
  IF Store!Latest(disk) = {} THEN {Empty} ELSE {b.index : b \in Store!Latest(disk)}

\* Mutant: the layer's inputs are committed in place of its outputs.
BoundaryOfInputs(previous) ==
  [layer |-> cur, acts |-> [k \in DOMAIN inputs \ {cur} |-> inputs[k]],
   index |-> With(previous, cur, LayerEntries)]

BoundaryOf(previous) ==
  [layer |-> cur, acts |-> inputs, index |-> With(previous, cur, LayerEntries)]

\* The index of the newest boundary is checked, and so is the new one.
Chained(previous) ==
  /\ Cumulative(cur - 1, previous)
  /\ Cumulative(cur, BoundaryOf(previous).index)

\* commit_layer up to the staging: the entries are validated, then chained to
\* the index of the newest boundary.
Begin ==
  /\ step = "outputs"
  /\ IF /\ Validated(cur, LayerEntries) /\ Store!Follows(cur)
        /\ \A previous \in PreviousIndexes : Chained(previous)
       THEN /\ \E previous \in PreviousIndexes : Store!BeginCommit(BoundaryOf(previous))
            /\ step' = "commit"
            /\ UNCHANGED <<cur, inputs, source, replay, catchup, prepared, deferred,
                           installed>>
       ELSE /\ IF Validated(cur, LayerEntries) /\ ~Store!Follows(cur)
                 THEN Store!RefuseCommit(cur) ELSE UNCHANGED storeVars
            /\ Forget("rejected")
  /\ UNCHANGED <<evidence, published, faults>>

Commit ==
  /\ step = "commit"
  /\ Store!CommitStep
  /\ step' = CASE pc' = "ready"   -> "adopt"
              [] pc' = "refused" -> "rejected"
              [] OTHER           -> step
  /\ UNCHANGED <<evidence, published, faults, cur, inputs, source, replay, catchup,
                 prepared, deferred, installed>>

\* A promoted replay directory is read back through the boundary (load_latest,
\* with nothing left to prune), ...
AdoptBoundary ==
  /\ step = "adopt" /\ source = "replay"
  /\ \E b \in Store!Latest(disk) :
       IF Store!Complete(disk, b) /\ b.layer = cur /\ Validated(cur, b.index[cur])
         THEN source' = "boundary" /\ step' = step
         ELSE source' = source /\ step' = "rejected"
  /\ UNCHANGED <<storeVars, evidence, published, faults, cur, inputs, replay, catchup,
                 prepared, deferred, installed>>

\* Mutant: the replay directory is removed while the inputs are read from it.
RetireUnadopted ==
  /\ step = "adopt"
  /\ replay' = FALSE
  /\ deferred' = With(deferred, cur, LayerEntries)
  /\ cur' = cur + 1
  /\ step' = "loop"
  /\ UNCHANGED <<storeVars, evidence, published, faults, inputs, source, catchup,
                 prepared, installed>>

\* ... then removed; the layer joins the deferred prefix and the loop goes on.
RetireLayer ==
  /\ step = "adopt" /\ source # "replay"
  /\ replay' = FALSE
  /\ deferred' = With(deferred, cur, LayerEntries)
  /\ cur' = cur + 1
  /\ step' = IF cur \in DOMAIN deferred /\ deferred[cur] # LayerEntries
               THEN "rejected" ELSE "loop"
  /\ UNCHANGED <<storeVars, evidence, published, faults, inputs, source, catchup,
                 prepared, installed>>

-----------------------------------------------------------------------------
(* quantize_spark.main after model.quantize.                               *)

\* "output directory must be empty before publication"
RefuseOutput ==
  /\ step = "loop" /\ cur > LastLayer
  /\ output # "empty"
  /\ Store!Crash
  /\ Forget("none")
  /\ UNCHANGED <<evidence, published, faults>>

\* materialize_deferred_prefix(force=True), one layer at a time in order
BindLayer(k) ==
  /\ step = "loop" /\ cur > LastLayer
  /\ output = "empty"
  /\ k \in DOMAIN deferred
  /\ k \notin DOMAIN installed
  /\ \A j \in DOMAIN deferred : j < k => j \in DOMAIN installed
  /\ installed' = With(installed, k, deferred[k])
  /\ UNCHANGED <<storeVars, evidence, published, faults, step, cur, inputs, source,
                 replay, catchup, prepared, deferred>>

\* Mutant: the model is saved without binding or counting the packed layers.
BeginSaveUnbound ==
  /\ step = "loop" /\ cur > LastLayer
  /\ output = "empty"
  /\ deferred' = Empty
  /\ step' = "save" /\ output' = "partial"
  /\ UNCHANGED <<storeVars, evidence, exported, faults, cur, inputs, source, replay,
                 catchup, prepared, installed>>

\* The prefix is cleared; every projection of every layer must be packed.
BeginSave ==
  /\ step = "loop" /\ cur > LastLayer
  /\ output = "empty"
  /\ DOMAIN deferred \subseteq DOMAIN installed
  /\ deferred' = Empty
  /\ IF DOMAIN installed = Layers
       THEN step' = "save" /\ output' = "partial"
       ELSE step' = "rejected" /\ output' = output
  /\ UNCHANGED <<storeVars, evidence, exported, faults, cur, inputs, source, replay,
                 catchup, prepared, installed>>

FinishSave ==
  /\ step = "save"
  /\ output' = "complete"
  /\ exported' = installed
  /\ Store!Crash
  /\ Forget("none")
  /\ UNCHANGED <<evidence, faults>>

\* The operator removes what an interrupted save left.
ClearOutput ==
  /\ output = "partial" /\ step # "save"
  /\ output' = "empty"
  /\ UNCHANGED <<storeVars, evidence, exported, faults, loopVars>>

-----------------------------------------------------------------------------

Interrupt ==
  /\ faults < MaxFaults
  /\ faults' = faults + 1
  /\ Store!Fault \/ Store!AbortCommit
  /\ Forget(IF step = "rejected" THEN step ELSE "none")
  /\ UNCHANGED <<evidence, published>>

Progress ==
  \/ Restore
  \/ ReplayDense
  \/ \E m \in Modules : AppendJournal(m) \/ CommitCheckpoint(m)
  \/ FinishLayer \/ PrepareCatchup \/ FinalizeCatchup
  \/ Begin \/ Commit \/ AdoptBoundary \/ RetireLayer
  \/ RefuseOutput \/ (\E k \in Layers : BindLayer(k)) \/ BeginSave \/ FinishSave

Next == Progress \/ ClearOutput \/ Interrupt

Spec == Init /\ [][Next]_vars

\* A restarted run is never left idle, and the operator clears a partial output.
FairSpec ==
  /\ Spec
  /\ WF_vars(Progress)
  /\ WF_vars(ClearOutput)

-----------------------------------------------------------------------------

RunTypeOK ==
  /\ \A x \in disk \cup durable :
       /\ x[1].layer \in Layers
       /\ {x[1].index, x[1].acts} \subseteq [FirstLayer..x[1].layer -> Entries]
       /\ x[2] \in Store!Pieces
  /\ {resume, acked} \subseteq (FirstLayer - 1)..LastLayer
  /\ journal \subseteq Layers \X Modules \X Lives
  /\ DOMAIN ckpt \subseteq Layers \X Modules
  /\ \A x \in DOMAIN ckpt : ckpt[x] \in Lives
  /\ output \in {"empty", "partial", "complete"}
  /\ exported \in {Empty} \cup Lineage
  /\ faults \in 0..MaxFaults
  /\ step \in {"none", "loop", "outputs", "commit", "adopt", "save", "rejected"}
  /\ cur \in 0..(LastLayer + 1)
  /\ {inputs, deferred} \subseteq {Empty} \cup Lineage
  /\ source \in {"memory", "replay", "boundary"}
  /\ replay \in BOOLEAN
  /\ DOMAIN catchup \subseteq Layers /\ DOMAIN installed \subseteq Layers
  /\ prepared \subseteq DOMAIN catchup

\* No interruption can leave state that a later run refuses: boundary, journal
\* and checkpoints always agree well enough for restore, commit and the packed
\* count to succeed.
NeverRejected == step # "rejected"

\* Every loadable boundary speaks of the checkpoints that exist: its cumulative
\* index names exactly the committed records, and its activations were computed
\* with those same records, whichever process lives produced them.
BoundaryMatchesCheckpoints ==
  \A b \in Store!Latest(disk) :
    /\ b.acts = b.index
    /\ \A k \in FirstLayer..b.layer : HasAll(k) /\ b.index[k] = EntriesOf(k)

\* The activations a run holds were computed with the committed checkpoints of
\* every earlier layer, after any mix of resume, catch-up and quantization.
ProvenanceKept ==
  step \in {"loop", "outputs", "commit", "adopt"} =>
    /\ DOMAIN inputs = FirstLayer..(IF step = "loop" THEN cur - 1 ELSE cur)
    /\ \A k \in DOMAIN inputs : HasAll(k) /\ inputs[k] = EntriesOf(k)

\* Activation shards are mapped lazily, long after they were validated: whatever
\* the live inputs are read from is still on disk and is the data they stand
\* for, although commits discard older boundaries and commit_layer deletes the
\* replay directory.
LiveInputsReadable ==
  /\ source = "replay" => replay
  /\ source = "boundary" =>
       \E b \in Store!Present(disk) : Store!Complete(disk, b) /\ b.acts = inputs

\* A saved model holds every target layer, each as the checkpoint the rest of
\* the run was computed with.
ExportIsComplete ==
  output = "complete" => exported = [k \in Layers |-> EntriesOf(k)]

\* A layer whose boundary passed the durability barrier is never run again, by
\* this process or any later one, whatever was lost in between.
ResumesPastBarrier == step \in {"loop", "outputs"} /\ acked \in Layers => acked < cur

\* With finitely many faults, an operator who restarts the run and clears a
\* partial output gets a complete export.
EventuallyExported == <>(output = "complete")

=============================================================================
