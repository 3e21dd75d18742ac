--------------------------- MODULE HybridForward ---------------------------
(***************************************************************************)
(* One model step of the layer-ownership runtime: serving/                 *)
(* hybrid_parallel.py, dots3_hybrid_parallel.py, dots3_hybrid_boundary.py, *)
(* dots3_hybrid_multimodal.py and hybrid_shared_overlap.py.                *)
(*                                                                         *)
(* Every worker runs the same Python over the same layers, but each layer  *)
(* has one owner: only the owner holds attention, norms, router and shared *)
(* expert, while the routed experts are sharded over all workers.  A peer  *)
(* carries tensors that have the right shape and meaningless contents, and *)
(* they must be replaced before the peer becomes an owner.  Workers only   *)
(* meet in NCCL collectives, which match by the ORDER in which each worker *)
(* calls them and by nothing else, so a worker that skips or adds one call *)
(* takes its peers' data for something else or leaves them waiting.        *)
(*                                                                         *)
(* A tensor's contents are <<kind, l>>: what the undistributed model holds *)
(* in that tensor at layer l; any other contents are Junk.  The passes of  *)
(* the draft model follow the decoder layers, so that pass l >= Layers is  *)
(* a draft pass.                                                           *)
(***************************************************************************)
EXTENDS Integers, Sequences, FiniteSets

CONSTANTS Workers,    \* size of the expert tensor-parallel group
          Layers,     \* decoder layers of the target model
          Drafts,     \* draft passes after the target's
          FirstMoE    \* first_k_dense_replace

ASSUME HybridAssumption ==
    /\ Workers \in Nat /\ Workers >= 2
    /\ Layers \in Nat /\ Layers >= Workers
    /\ Drafts \in Nat
    /\ FirstMoE \in 0..Layers

Ranks == 0..(Workers - 1)
Passes == Layers + Drafts

VARIABLES config,   \* the partition and the feature switches of this process
          layer, phase,   \* where each worker is in its program
          busy,     \* workers inside the collective they last called
          failed,   \* workers whose forward raised
          calls,    \* the collectives it called, in order
          mm,       \* its view of the encoder batch
          emb,      \* the embedding it last looked up
          hid, res, \* hidden_states (a tensor of its own) and residual
          red,      \* arena.reduced_output
          inArena,  \* workers whose hidden_states is a view of that arena
          act, ids, wts,  \* the arena's routed inputs
          side,     \* workers whose side stream has the shared expert to run
          shared,   \* the shared expert's output
          token     \* the logits or token ids of the last pass

position == <<layer, phase, busy, failed>>
routed   == <<act, ids, wts>>
stream   == <<side, shared>>
vars == <<config, position, calls, mm, emb, hid, res, inArena, red, routed,
          stream, token>>

-----------------------------------------------------------------------------
(* Tensor contents.                                                        *)

Kinds == {"embed", "out", "res", "mid", "act", "ids", "weights", "packed",
          "partial", "sum", "shared", "final", "logits", "encoded",
          "ok", "empty", "zero_width", "error"}
Junk  == <<"junk", 0>>
Value == (Kinds \X (0..Passes)) \cup {Junk}

\* f(x, ..) is right when every input is right: a kernel turns Junk to Junk.
Kernel(inputsRight, output) == IF inputsRight THEN output ELSE Junk

(* Phases of a pass, in program order.                                     *)
Metadata == 1
Encoded == 2
Embedding == 3
ToNextHidden == 4
ToNextResidual == 5
Attention == 6
Activation == 7
RouteIds == 8
RouteWeights == 9
Experts == 10
Finish == 11
Final == 12
Logits == 13

-----------------------------------------------------------------------------
(* The partition and the switches, equal on every worker.                  *)

\* owner_plan: contiguous, in rank order, at least one layer for every rank.
Plans == {o \in [0..(Layers - 1) -> Ranks] :
             /\ \A i, j \in 0..(Layers - 1) : i <= j => o[i] <= o[j]
             /\ \A r \in Ranks : \E l \in 0..(Layers - 1) : o[l] = r}

\* The features are the environment's switches; "boundary" stands for owners of
\* the embedding and the head being set, and `encoder` for what the encoder batch
\* of this step holds or becomes.  Owners of what is absent are not looked at.
Configs ==
    {c \in [owners : Plans, features : SUBSET {"packed", "overlap", "boundary"},
            embedOwner : Ranks, headOwner : Ranks, mmOwner : Ranks,
            encoder : {"none", "ok", "empty", "zero_width", "error"}] :
        /\ "boundary" \notin c.features => c.embedOwner = 0 /\ c.headOwner = 0
        /\ c.encoder = "none" => c.mmOwner = 0}

Packed   == "packed" \in config.features
Overlap  == "overlap" \in config.features
Boundary == "boundary" \in config.features

Owner(l)   == config.owners[IF l < Layers THEN l ELSE Layers - 1]
IsDraft(l) == l >= Layers
IsMoE(l)   == FirstMoE <= l /\ l < Layers
Ends(l)    == l >= Layers - 1     \* a pass whose output is sampled

\* embedding(): with boundary owners the target's table is on one worker,
\* which broadcasts, and the draft's on the draft owner, which uses it alone;
\* without them vLLM's embedding sums shards over all workers.
EmbedsTogether(l) == l = 0 \/ (IsDraft(l) /\ ~Boundary)

\* The residual stream moves where the owner changes.
Moves(l) == 0 < l /\ l < Layers /\ Owner(l - 1) # Owner(l)

\* Whether the code before which a worker stands does anything there; m is what
\* the worker was told of the encoder batch.
Meets(l, p, m) ==
    CASE p = Metadata -> l = 0 /\ config.encoder # "none"
      [] p = Encoded -> l = 0 /\ m = <<"ok", 0>>
      [] p = Embedding -> EmbedsTogether(l)
      [] p \in {ToNextHidden, ToNextResidual} -> Moves(l)
      [] p \in {Activation, Experts} -> IsMoE(l)
      [] p \in {RouteIds, RouteWeights} -> IsMoE(l) /\ ~Packed
      [] p \in {Final, Logits} -> Ends(l)
      [] OTHER -> TRUE

\* Mutant: a peer takes part in the broadcast of the route ids only if it owns
\* the next layer.
AppliesForReaders(r) ==
    /\ Meets(layer[r], phase[r], mm[r])
    /\ phase[r] = RouteIds => r \in {Owner(layer[r]), Owner(layer[r] + 1)}

Applies(r) == Meets(layer[r], phase[r], mm[r])

Hidden(r) == IF r \in inArena THEN red[r] ELSE hid[r]

\* A write through hidden_states: a kernel or a collective working in place.
WriteHidden(r, v) ==
    IF r \in inArena
    THEN red' = [red EXCEPT ![r] = v] /\ UNCHANGED hid
    ELSE hid' = [hid EXCEPT ![r] = v] /\ UNCHANGED red

Init ==
    /\ config \in Configs
    /\ layer = [r \in Ranks |-> 0] /\ phase = [r \in Ranks |-> Metadata]
    /\ busy = {} /\ failed = {} /\ inArena = {} /\ side = {}
    /\ calls = [r \in Ranks |-> <<>>]
    /\ mm = [r \in Ranks |-> Junk] /\ emb = mm /\ hid = mm /\ res = mm
    /\ red = mm /\ act = mm /\ ids = mm /\ wts = mm /\ shared = mm /\ token = mm

-----------------------------------------------------------------------------
(* Collectives of PyNccl, matched by their position in each worker's calls *)
(* (external).  A worker calls, its stream waits, the result is delivered. *)

Stands(r, p) == /\ layer[r] < Passes /\ phase[r] = p
                /\ r \notin busy /\ r \notin failed
At(r, p) == Stands(r, p) /\ Applies(r)

Call(r, op, root, v) ==
    /\ calls' = [calls EXCEPT ![r] = Append(@,
          [op |-> op, root |-> root, layer |-> layer[r], phase |-> phase[r], value |-> v])]
    /\ busy' = busy \cup {r}
    /\ UNCHANGED <<config, layer, phase, failed>>

LastCall(r) == calls[r][Len(calls[r])]

\* The workers whose call a worker's own n-th call waits for.
Awaited(r) == LET c == LastCall(r)
              IN CASE c.op = "broadcast" -> {c.root}
                   [] c.op = "reduce" -> IF r = c.root THEN Ranks ELSE {}
                   [] OTHER -> Ranks

Arrived(r) == \A q \in Awaited(r) : Len(calls[q]) >= Len(calls[r])

SameCall(c, d) == /\ c.op = d.op /\ c.root = d.root
                  /\ c.layer = d.layer /\ c.phase = d.phase

\* What the collective leaves in the worker's tensor.  Calls that do not fit
\* together exchange bytes of different tensors.
Result(r) ==
    LET n == Len(calls[r])
        c == LastCall(r)
    IN IF c.op = "broadcast"
       THEN Kernel(SameCall(c, calls[c.root][n]), calls[c.root][n].value)
       ELSE Kernel(\A q \in Ranks : /\ SameCall(c, calls[q][n])
                                   /\ calls[q][n].value = c.value, c.value)

Advance(r) ==
    IF phase[r] = Logits
    THEN /\ phase' = [phase EXCEPT ![r] = Metadata]
         /\ layer' = [layer EXCEPT ![r] = @ + 1]
    ELSE phase' = [phase EXCEPT ![r] = @ + 1] /\ UNCHANGED layer

Returns(r, p) == /\ r \in busy /\ phase[r] = p /\ Arrived(r)
                 /\ busy' = busy \ {r}
                 /\ UNCHANGED <<config, calls>>
Completes(r, p) == Returns(r, p) /\ Advance(r) /\ UNCHANGED failed

-----------------------------------------------------------------------------
(* Encoders and embeddings: the inputs of a pass.                          *)

\* Mutant: the metadata are sent before the encoder has run.
SendMetadataFirst(r) ==
    /\ At(r, Metadata)
    /\ Call(r, "broadcast", config.mmOwner,
            IF r = config.mmOwner THEN <<"ok", 0>> ELSE Junk)
    /\ UNCHANGED <<mm, emb, hid, res, inArena, red, routed, stream, token>>

\* Mutant: an encoder error leaves the owner's forward before the broadcast.
SendMetadataOrRaise(r) ==
    /\ At(r, Metadata)
    /\ IF r = config.mmOwner /\ config.encoder = "error"
       THEN failed' = failed \cup {r} /\ UNCHANGED <<config, layer, phase, busy, calls>>
       ELSE Call(r, "broadcast", config.mmOwner,
                 IF r = config.mmOwner THEN <<config.encoder, 0>> ELSE Junk)
    /\ UNCHANGED <<mm, emb, hid, res, inArena, red, routed, stream, token>>

\* broadcast_embeddings: the owner encodes, catching every error, and tells
\* its peers the lengths, or -1.  A batch with no items makes no call.
SendMetadata(r) ==
    /\ At(r, Metadata)
    /\ Call(r, "broadcast", config.mmOwner,
            IF r = config.mmOwner THEN <<config.encoder, 0>> ELSE Junk)
    /\ UNCHANGED <<mm, emb, hid, res, inArena, red, routed, stream, token>>

\* Mutant: a peer takes the announced failure for a batch without payload.
ReadMetadataLeniently(r) ==
    /\ Returns(r, Metadata)
    /\ IF r # config.mmOwner \/ Result(r) \in {<<"ok", 0>>, <<"empty", 0>>}
       THEN /\ mm' = [mm EXCEPT ![r] = Result(r)]
            /\ Advance(r) /\ UNCHANGED failed
       ELSE failed' = failed \cup {r} /\ UNCHANGED <<mm, layer, phase>>
    /\ UNCHANGED <<emb, hid, res, inArena, red, routed, stream, token>>

\* The owner raises its own error, a peer the one the metadata carry; a width
\* of zero raises on every worker.
ReadMetadata(r) ==
    /\ Returns(r, Metadata)
    /\ IF Result(r) \in {<<"ok", 0>>, <<"empty", 0>>}
       THEN /\ mm' = [mm EXCEPT ![r] = Result(r)]
            /\ Advance(r) /\ UNCHANGED failed
       ELSE failed' = failed \cup {r} /\ UNCHANGED <<mm, layer, phase>>
    /\ UNCHANGED <<emb, hid, res, inArena, red, routed, stream, token>>

\* A batch whose items are all empty has no payload.
SendEncoded(r) ==
    /\ At(r, Encoded)
    /\ Call(r, "broadcast", config.mmOwner,
            IF r = config.mmOwner THEN <<"encoded", 0>> ELSE Junk)
    /\ UNCHANGED <<mm, emb, hid, res, inArena, red, routed, stream, token>>

ReceiveEncoded(r) ==
    /\ Completes(r, Encoded)
    /\ mm' = [mm EXCEPT ![r] = Result(r)]
    /\ UNCHANGED <<emb, hid, res, inArena, red, routed, stream, token>>

\* The lookup of the input tokens, for a draft pass those just sampled.
Embed(r, l) == Kernel(l = 0 \/ token[r] = <<"logits", l - 1>>, <<"embed", l>>)

LookupEmbedding(r) ==
    /\ At(r, Embedding)
    /\ IF Boundary
       THEN Call(r, "broadcast", config.embedOwner,
                 IF r = config.embedOwner THEN Embed(r, layer[r]) ELSE Junk)
       ELSE Call(r, "gather", 0, Embed(r, layer[r]))
    /\ UNCHANGED <<mm, emb, hid, res, inArena, red, routed, stream, token>>

\* The encoder outputs replace the placeholder tokens of the target's input.
Merged(r) == mm[r] = CASE config.encoder = "ok" -> <<"encoded", 0>>
                       [] config.encoder = "empty" -> <<"empty", 0>>
                       [] OTHER -> Junk

ReceiveEmbedding(r) ==
    /\ Completes(r, Embedding)
    /\ emb' = [emb EXCEPT ![r] = Result(r)]
    /\ hid' = IF layer[r] = 0
              THEN [hid EXCEPT ![r] =
                      Kernel(Result(r) = <<"embed", 0>> /\ Merged(r), <<"out", 0>>)]
              ELSE hid
    /\ UNCHANGED <<mm, res, inArena, red, routed, stream, token>>

-----------------------------------------------------------------------------
(* A decoder layer.                                                        *)

\* transfer_owner_state, where the owner changes: both residual-stream tensors
\* of the previous owner replace everybody's.

SendHidden(r) ==
    /\ At(r, ToNextHidden)
    /\ Call(r, "broadcast", Owner(layer[r] - 1), Hidden(r))
    /\ UNCHANGED <<mm, emb, hid, res, inArena, red, routed, stream, token>>

ReceiveHidden(r) ==
    /\ Completes(r, ToNextHidden)
    /\ WriteHidden(r, Result(r))
    /\ UNCHANGED <<mm, emb, res, inArena, routed, stream, token>>

SendResidual(r) ==
    /\ At(r, ToNextResidual)
    /\ Call(r, "broadcast", Owner(layer[r] - 1), res[r])
    /\ UNCHANGED <<mm, emb, hid, res, inArena, red, routed, stream, token>>

ReceiveResidual(r) ==
    /\ Completes(r, ToNextResidual)
    /\ res' = [res EXCEPT ![r] = Result(r)]
    /\ UNCHANGED <<mm, emb, hid, inArena, red, routed, stream, token>>

\* The dense half of a layer.  The owner normalizes and attends, into tensors
\* of its own; a peer passes its placeholders through.  A draft pass starts
\* from the last pass' hidden states and the sampled token's embedding.
DraftEmbedding(r, l) == IF Boundary THEN Embed(r, l) ELSE emb[r]

InputsRight(r, l) ==
    IF IsDraft(l)
    THEN Hidden(r) = <<"final", l - 1>> /\ DraftEmbedding(r, l) = <<"embed", l>>
    ELSE Hidden(r) = <<"out", l>> /\ (l = 0 \/ res[r] = <<"res", l>>)

Attend(r) ==
    /\ At(r, Attention) /\ Advance(r)
    /\ LET l == layer[r] IN
       IF r = Owner(l)
       THEN /\ hid' = [hid EXCEPT ![r] = Kernel(InputsRight(r, l), <<"mid", l>>)]
            /\ res' = [res EXCEPT ![r] = Kernel(InputsRight(r, l), <<"res", l + 1>>)]
            /\ inArena' = inArena \ {r}
       ELSE IF IsDraft(l)
       THEN /\ hid' = [hid EXCEPT ![r] = Junk] /\ res' = [res EXCEPT ![r] = Junk]
            /\ inArena' = inArena \ {r}
       ELSE UNCHANGED <<hid, res, inArena>>
    /\ UNCHANGED <<config, busy, failed, calls, mm, emb, red, routed, stream, token>>

\* execute_routed_layer: the owner routes and packs, starts or runs its shared
\* expert, and broadcasts the routed inputs, as one message or as three.
Prepare(r, l) ==
    LET right == Hidden(r) = <<"mid", l>> IN
    /\ act' = [act EXCEPT ![r] = Kernel(right, <<"act", l>>)]
    /\ ids' = [ids EXCEPT ![r] = Kernel(right, <<"ids", l>>)]
    /\ wts' = [wts EXCEPT ![r] = Kernel(right, <<"weights", l>>)]
    /\ IF Overlap
       THEN side' = side \cup {r} /\ UNCHANGED shared
       ELSE shared' = [shared EXCEPT ![r] = Kernel(right, <<"shared", l>>)]
            /\ UNCHANGED side

SendActivation(r) ==
    /\ At(r, Activation)
    /\ IF r = Owner(layer[r])
       THEN Prepare(r, layer[r])
       ELSE UNCHANGED <<routed, stream>>
    /\ Call(r, "broadcast", Owner(layer[r]),
            IF Packed
            THEN Kernel(act'[r] = <<"act", layer[r]>> /\ ids'[r] = <<"ids", layer[r]>>
                          /\ wts'[r] = <<"weights", layer[r]>>, <<"packed", layer[r]>>)
            ELSE act'[r])
    /\ UNCHANGED <<mm, emb, hid, res, inArena, red, token>>

\* packed_routing_views: the three tensors alias the one message.
ReceiveActivation(r) ==
    /\ Completes(r, Activation)
    /\ LET v == Result(r)
           View(kind) == Kernel(v[1] = "packed", <<kind, v[2]>>)
       IN IF Packed
          THEN /\ act' = [act EXCEPT ![r] = View("act")]
               /\ ids' = [ids EXCEPT ![r] = View("ids")]
               /\ wts' = [wts EXCEPT ![r] = View("weights")]
          ELSE act' = [act EXCEPT ![r] = v] /\ UNCHANGED <<ids, wts>>
    /\ UNCHANGED <<mm, emb, hid, res, inArena, red, stream, token>>

SendRouteIds(r) ==
    /\ At(r, RouteIds)
    /\ Call(r, "broadcast", Owner(layer[r]), ids[r])
    /\ UNCHANGED <<mm, emb, hid, res, inArena, red, routed, stream, token>>

ReceiveRouteIds(r) ==
    /\ Completes(r, RouteIds)
    /\ ids' = [ids EXCEPT ![r] = Result(r)]
    /\ UNCHANGED <<mm, emb, hid, res, inArena, red, act, wts, stream, token>>

SendRouteWeights(r) ==
    /\ At(r, RouteWeights)
    /\ Call(r, "broadcast", Owner(layer[r]), wts[r])
    /\ UNCHANGED <<mm, emb, hid, res, inArena, red, routed, stream, token>>

ReceiveRouteWeights(r) ==
    /\ Completes(r, RouteWeights)
    /\ wts' = [wts EXCEPT ![r] = Result(r)]
    /\ UNCHANGED <<mm, emb, hid, res, inArena, red, act, ids, stream, token>>

\* Every worker runs its shard of the selected experts; the partial outputs are
\* summed into the owner's reduced_output and nobody else's.
RunExperts(r) ==
    /\ At(r, Experts)
    /\ LET l == layer[r] IN
       Call(r, "reduce", Owner(l),
            Kernel(act[r] = <<"act", l>> /\ ids[r] = <<"ids", l>>
                     /\ wts[r] = <<"weights", l>>, <<"partial", l>>))
    /\ UNCHANGED <<mm, emb, hid, res, inArena, red, routed, stream, token>>

ReduceExperts(r) ==
    /\ Completes(r, Experts)
    /\ red' = IF r = Owner(layer[r])
              THEN [red EXCEPT ![r] =
                      Kernel(Result(r) = <<"partial", layer[r]>>, <<"sum", layer[r]>>)]
              ELSE red
    /\ UNCHANGED <<mm, emb, hid, res, inArena, routed, stream, token>>

\* The side stream runs the shared expert on the tensor it was given.
SharedExpert(r) ==
    /\ r \in side
    /\ side' = side \ {r}
    /\ shared' = [shared EXCEPT ![r] =
                    Kernel(hid[r] = <<"mid", layer[r]>>, <<"shared", layer[r]>>)]
    /\ UNCHANGED <<config, position, calls, mm, emb, hid, res, inArena, red, routed, token>>

\* Mutant: the shared output is added without joining the side stream.
FinishWithoutJoin(r) ==
    /\ At(r, Finish) /\ Advance(r)
    /\ LET l == layer[r] IN
       IF r = Owner(l)
       THEN /\ hid' = [hid EXCEPT ![r] =
                 Kernel(IF IsMoE(l)
                        THEN red[r] = <<"sum", l>> /\ shared[r] = <<"shared", l>>
                        ELSE hid[r] = <<"mid", l>>, <<"out", l + 1>>)]
            /\ UNCHANGED inArena
       ELSE inArena' = inArena \cup {r} /\ UNCHANGED hid
    /\ UNCHANGED <<config, busy, failed, calls, mm, emb, res, red, routed, stream, token>>

\* The owner joins the side stream and adds the shared output (or runs its
\* dense MLP).  A peer's hidden states become a view of the arena's output.
FinishLayer(r) ==
    /\ At(r, Finish) /\ Advance(r)
    /\ LET l == layer[r] IN
       IF r = Owner(l)
       THEN /\ r \notin side
            /\ hid' = [hid EXCEPT ![r] =
                 Kernel(IF IsMoE(l)
                        THEN red[r] = <<"sum", l>> /\ shared[r] = <<"shared", l>>
                        ELSE hid[r] = <<"mid", l>>, <<"out", l + 1>>)]
            /\ UNCHANGED inArena
       ELSE inArena' = inArena \cup {r} /\ UNCHANGED hid
    /\ UNCHANGED <<config, busy, failed, calls, mm, emb, res, red, routed, stream, token>>

-----------------------------------------------------------------------------
(* The end of a pass: final norm, hidden states for everybody, sampling.   *)

SendFinal(r) ==
    /\ At(r, Final)
    /\ LET l == layer[r]
           normed == Kernel(Hidden(r) = <<"out", l + 1>> /\ res[r] = <<"res", l + 1>>,
                            <<"final", l>>)
       IN IF r = Owner(l)
          THEN /\ WriteHidden(r, normed)
               /\ Call(r, "broadcast", Owner(l), normed)
          ELSE /\ Call(r, "broadcast", Owner(l), Hidden(r))
               /\ UNCHANGED <<hid, red>>
    /\ UNCHANGED <<mm, emb, res, inArena, routed, stream, token>>

\* Mutant: a peer returns its placeholder, not the tensor it received.
ReceiveFinalInCopy(r) ==
    /\ Completes(r, Final)
    /\ IF r = Owner(layer[r]) THEN WriteHidden(r, Result(r)) ELSE UNCHANGED <<hid, red>>
    /\ UNCHANGED <<mm, emb, res, inArena, routed, stream, token>>

ReceiveFinal(r) ==
    /\ Completes(r, Final)
    /\ WriteHidden(r, Result(r))
    /\ UNCHANGED <<mm, emb, res, inArena, routed, stream, token>>

\* OwnerLogitsProcessor: the head's owner projects onto the whole vocabulary
\* and broadcasts logits or token ids; without boundary owners vLLM gathers
\* one shard of the vocabulary from every worker.
Project(r, l) == Kernel(Hidden(r) = <<"final", l>>, <<"logits", l>>)

SendLogits(r) ==
    /\ At(r, Logits)
    /\ IF Boundary
       THEN Call(r, "broadcast", config.headOwner,
                 IF r = config.headOwner THEN Project(r, layer[r]) ELSE Junk)
       ELSE Call(r, "gather", 0, Project(r, layer[r]))
    /\ UNCHANGED <<mm, emb, hid, res, inArena, red, routed, stream, token>>

ReceiveLogits(r) ==
    /\ Completes(r, Logits)
    /\ token' = [token EXCEPT ![r] = Result(r)]
    /\ UNCHANGED <<mm, emb, hid, res, inArena, red, routed, stream>>

-----------------------------------------------------------------------------
\* A condition that is false: the worker falls through.
Skip(r) ==
    /\ Stands(r, phase[r]) /\ ~Applies(r) /\ Advance(r)
    /\ UNCHANGED <<config, busy, failed, calls, mm, emb, hid, res, inArena, red,
                   routed, stream, token>>

Work(r) ==
    \/ SendMetadata(r) \/ ReadMetadata(r) \/ SendEncoded(r) \/ ReceiveEncoded(r)
    \/ LookupEmbedding(r) \/ ReceiveEmbedding(r)
    \/ SendHidden(r) \/ ReceiveHidden(r) \/ SendResidual(r) \/ ReceiveResidual(r)
    \/ Attend(r) \/ SendActivation(r) \/ ReceiveActivation(r)
    \/ SendRouteIds(r) \/ ReceiveRouteIds(r)
    \/ SendRouteWeights(r) \/ ReceiveRouteWeights(r)
    \/ RunExperts(r) \/ ReduceExperts(r) \/ FinishLayer(r)
    \/ SendFinal(r) \/ ReceiveFinal(r) \/ SendLogits(r) \/ ReceiveLogits(r)
    \/ Skip(r)

Done(r) == layer[r] = Passes

\* The step is over on every worker, or its engine is.
Terminated == /\ \A r \in Ranks : Done(r) \/ r \in failed
              /\ UNCHANGED vars

Next == (\E r \in Ranks : Work(r) \/ SharedExpert(r)) \/ Terminated

\* Streams execute what is queued on them, and a collective whose workers have
\* all arrived completes.
Fairness == \A r \in Ranks : WF_vars(Work(r)) /\ WF_vars(SharedExpert(r))

Spec == Init /\ [][Next]_vars /\ Fairness

-----------------------------------------------------------------------------
(* Properties.                                                             *)

CallRecord == [op : {"broadcast", "reduce", "gather"}, root : Ranks,
               layer : 0..(Passes - 1), phase : Metadata..Logits, value : Value]

\* Type invariant of the model's variables.
TypeOK ==
    /\ config \in Configs
    /\ layer \in [Ranks -> 0..Passes] /\ phase \in [Ranks -> Metadata..Logits]
    /\ busy \subseteq Ranks /\ failed \subseteq Ranks
    /\ inArena \subseteq Ranks /\ side \subseteq Ranks
    /\ calls \in [Ranks -> Seq(CallRecord)]
    /\ mm \in [Ranks -> Value] /\ emb \in [Ranks -> Value]
    /\ hid \in [Ranks -> Value] /\ res \in [Ranks -> Value]
    /\ red \in [Ranks -> Value] /\ act \in [Ranks -> Value]
    /\ ids \in [Ranks -> Value] /\ wts \in [Ranks -> Value]
    /\ shared \in [Ranks -> Value] /\ token \in [Ranks -> Value]

\* hybrid_parallel.py:5, "All ranks execute identical collective sequences":
\* whatever each worker has called so far, the n-th calls of any two workers
\* are the same operation, with the same root, on the same tensor.
SameCalls ==
    \A r, q \in Ranks : \A n \in DOMAIN calls[r] \cap DOMAIN calls[q] :
        SameCall(calls[r][n], calls[q][n])

\* The workers whose data a call distributes.
Sources(c) == IF c.op = "broadcast" THEN {c.root} ELSE Ranks

\* Placeholders are never consumed (dots3_hybrid_parallel.py:185): whatever a
\* call takes from a worker is what the undistributed model computes there.
Expected(c) ==
    LET l == c.layer
        p == c.phase
    IN CASE p = Metadata -> <<config.encoder, 0>>
         [] p = Encoded -> <<"encoded", 0>>
         [] p = Embedding -> <<"embed", l>>
         [] p = ToNextHidden -> <<"out", l>>
         [] p = ToNextResidual -> <<"res", l>>
         [] p = Activation -> <<IF Packed THEN "packed" ELSE "act", l>>
         [] p = RouteIds -> <<"ids", l>>
         [] p = RouteWeights -> <<"weights", l>>
         [] p = Experts -> <<"partial", l>>
         [] p = Final -> <<"final", l>>
         [] p = Logits -> <<"logits", l>>

SourcesSequential ==
    \A r \in Ranks : \A n \in DOMAIN calls[r] :
        r \in Sources(calls[r][n]) => calls[r][n].value = Expected(calls[r][n])

\* Every worker samples from the same, right logits in every pass: both TP
\* samplers are preserved (dots3_hybrid_boundary.py:4).
SamplersAgree ==
    \A r \in Ranks : layer[r] >= Layers /\ phase[r] = Metadata =>
        token[r] = <<"logits", layer[r] - 1>>

\* An encoder error on its owner never lets a peer go on without the outputs
\* (check_hybrid_multimodal.py:55): where one worker raises, no worker is past the
\* metadata, so with StepEnds every worker raises.
FailsTogether ==
    failed # {} => \A r \in Ranks : layer[r] = 0 /\ phase[r] = Metadata

\* A step ends on every worker: no worker waits for a call its peers never make
\* nor for its side stream.
StepEnds == <>(\A r \in Ranks : Done(r) \/ r \in failed)

-----------------------------------------------------------------------------
(* The inductive invariant under SameCalls.  The collectives of a step are *)
(* at sites that depend on the configuration alone; each worker has called *)
(* exactly the sites behind it, in order.  So the calls of one worker are  *)
(* a prefix of another's.                                                  *)

Earlier(l, p, k, q) == l < k \/ (l = k /\ p < q)

CallSite(l, p) ==
    /\ l \in 0..(Passes - 1) /\ p \in Metadata..Logits
    /\ p # Attention /\ p # Finish
    /\ Meets(l, p, <<config.encoder, 0>>)

OpAt(l, p) == IF p = Experts THEN "reduce"
              ELSE IF p \in {Embedding, Logits} /\ ~Boundary THEN "gather"
              ELSE "broadcast"

RootAt(l, p) == CASE p \in {Metadata, Encoded} -> config.mmOwner
                  [] p = Embedding -> IF Boundary THEN config.embedOwner ELSE 0
                  [] p \in {ToNextHidden, ToNextResidual} -> Owner(l - 1)
                  [] p = Logits -> IF Boundary THEN config.headOwner ELSE 0
                  [] OTHER -> Owner(l)

\* A call is what its site says, whoever makes it.
Recorded ==
    \A r \in Ranks : \A n \in DOMAIN calls[r] :
        LET c == calls[r][n]
        IN /\ CallSite(c.layer, c.phase)
           /\ c.op = OpAt(c.layer, c.phase) /\ c.root = RootAt(c.layer, c.phase)

\* A worker calls each site at most once, in program order, ...
Increasing ==
    \A r \in Ranks : \A m, n \in DOMAIN calls[r] :
        m < n => Earlier(calls[r][m].layer, calls[r][m].phase,
                         calls[r][n].layer, calls[r][n].phase)

\* ... never ahead of where it stands, ...
Behind ==
    \A r \in Ranks : \A n \in DOMAIN calls[r] :
        LET c == calls[r][n]
        IN IF r \in busy \cup failed
           THEN Earlier(c.layer, c.phase, layer[r], phase[r] + 1)
           ELSE Earlier(c.layer, c.phase, layer[r], phase[r])

\* ... and skips none.
Complete ==
    \A r \in Ranks : \A l \in 0..(Passes - 1) : \A p \in Metadata..Logits :
        CallSite(l, p) /\ Earlier(l, p, layer[r], phase[r]) =>
            \E n \in DOMAIN calls[r] : calls[r][n].layer = l /\ calls[r][n].phase = p

\* A worker inside a collective stands where it called it.
Waiting ==
    \A r \in busy :
        /\ r \notin failed /\ layer[r] < Passes /\ Len(calls[r]) > 0
        /\ LastCall(r).layer = layer[r] /\ LastCall(r).phase = phase[r]

\* What a worker knows of the encoder batch when it decides on the payload.
Informed ==
    \A r \in Ranks : layer[r] = 0 =>
        /\ phase[r] = Metadata => mm[r] = Junk
        /\ phase[r] = Encoded => (mm[r] = <<"ok", 0>> <=> config.encoder = "ok")

\* The metadata the owner sends tells what its encoder did.
Announced ==
    \A n \in DOMAIN calls[config.mmOwner] :
        calls[config.mmOwner][n].phase = Metadata =>
            calls[config.mmOwner][n].value = <<config.encoder, 0>>

HybridInv == /\ TypeOK /\ Recorded /\ Increasing /\ Behind /\ Complete
             /\ Waiting /\ Informed /\ Announced /\ SameCalls

=============================================================================
