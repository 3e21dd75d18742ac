------------------------ MODULE HybridForwardProofs ------------------------
(***************************************************************************)
(* Proofs about HybridForward for every group of workers, number of        *)
(* layers, partition, switch setting and encoder outcome: the workers'     *)
(* sequences of collectives agree, no placeholder is consumed, every       *)
(* worker samples the same right logits, an encoder error on its owner     *)
(* stops all of them, and no worker is left waiting for its peers.         *)
(*                                                                         *)
(* A step of a worker is, for what decides which collectives it calls, of  *)
(* one of four kinds: it calls, it returns from a call, its forward        *)
(* raises, or it moves on past a site that has no call.  The lemmas        *)
(* classify the steps, and then each conjunct of HybridInv is shown to be  *)
(* preserved by each kind.                                                 *)
(***************************************************************************)
EXTENDS HybridForward, TLAPS, WellFoundedInduction

\* The bounds as facts about integers.
LEMMA Bounds ==
  /\ Passes \in Nat /\ Layers \in Nat /\ 0 < Layers /\ Layers <= Passes
  /\ 0 \in Ranks
  /\ Layers - 1 \in 0..(Layers - 1)
BY HybridAssumption DEF Passes, Ranks

\* Every worker that owns something is a worker.
LEMMA OwnersAreRanks ==
  ASSUME config \in Configs
  PROVE  /\ \A l \in Nat : Owner(l) \in Ranks
         /\ config.embedOwner \in Ranks /\ config.headOwner \in Ranks
         /\ config.mmOwner \in Ranks
<1>1. config.owners \in [0..(Layers - 1) -> Ranks]
  BY DEF Configs, Plans
<1>2. ASSUME NEW l \in Nat
      PROVE  Owner(l) \in Ranks
  <2>1. (IF l < Layers THEN l ELSE Layers - 1) \in 0..(Layers - 1)
    BY Bounds
  <2>2. QED
    BY <1>1, <2>1 DEF Owner
<1>3. QED
  BY <1>2 DEF Configs

\* Contents that a kernel can produce.
LEMMA ValueOf ==
  /\ Junk \in Value
  /\ \A k \in Kinds, l \in 0..Passes : <<k, l>> \in Value
BY DEF Value

-----------------------------------------------------------------------------
(* Type correctness.                                                       *)

\* A call keeps the types, if what it carries is contents.
LEMMA CallType ==
  ASSUME TypeOK, NEW r \in Ranks, NEW p \in Metadata..Logits, Stands(r, p),
         NEW op \in {"broadcast", "reduce", "gather"}, NEW root \in Ranks,
         NEW v \in Value, Call(r, op, root, v)
  PROVE  /\ calls' \in [Ranks -> Seq(CallRecord)]
         /\ busy' \subseteq Ranks /\ failed' \subseteq Ranks
         /\ config' \in Configs
         /\ layer' \in [Ranks -> 0..Passes] /\ phase' \in [Ranks -> Metadata..Logits]
<1> DEFINE c == [op |-> op, root |-> root, layer |-> layer[r], phase |-> phase[r], value |-> v]
<1>1. layer[r] \in 0..(Passes - 1) /\ phase[r] \in Metadata..Logits
  BY Bounds DEF TypeOK, Stands
<1>2. c \in CallRecord
  BY <1>1 DEF CallRecord
<1>3. calls[r] \in Seq(CallRecord)
  BY DEF TypeOK
<1>4. Append(calls[r], c) \in Seq(CallRecord)
  BY <1>2, <1>3
<1>5. calls' = [calls EXCEPT ![r] = Append(calls[r], c)]
  BY DEF Call
<1>6. calls' \in [Ranks -> Seq(CallRecord)]
  BY <1>4, <1>5 DEF TypeOK
<1>7. QED
  BY <1>6 DEF Call, TypeOK

\* Moving on keeps a worker within the program.
LEMMA AdvanceType ==
  ASSUME TypeOK, NEW r \in Ranks, layer[r] < Passes, Advance(r)
  PROVE  layer' \in [Ranks -> 0..Passes] /\ phase' \in [Ranks -> Metadata..Logits]
<1>1. layer[r] \in 0..Passes /\ phase[r] \in Metadata..Logits
  BY DEF TypeOK
<1>2. CASE phase[r] = Logits
  <2>1. layer[r] + 1 \in 0..Passes
    BY <1>1, Bounds
  <2>2. Metadata \in Metadata..Logits
    BY DEF Metadata, Logits
  <2>3. QED
    BY <1>2, <2>1, <2>2 DEF Advance, TypeOK
<1>3. CASE phase[r] # Logits
  <2>1. phase[r] + 1 \in Metadata..Logits
    BY <1>1, <1>3 DEF Metadata, Logits
  <2>2. QED
    BY <1>3, <2>1 DEF Advance, TypeOK
<1>4. QED
  BY <1>2, <1>3

\* What a collective leaves in a worker's tensor is contents.
LEMMA ResultType ==
  ASSUME TypeOK, Waiting, NEW r \in busy, Arrived(r)
  PROVE  Result(r) \in Value
<1> DEFINE n == Len(calls[r])
           c == LastCall(r)
<1>1. r \in Ranks /\ calls[r] \in Seq(CallRecord) /\ n > 0
  BY DEF TypeOK, Waiting
<1>2. c \in CallRecord
  BY <1>1 DEF LastCall
<1>3. c.value \in Value /\ c.root \in Ranks
  BY <1>2 DEF CallRecord
<1>4. CASE c.op = "broadcast"
  <2>1. Len(calls[c.root]) >= n
    BY <1>4 DEF Arrived, Awaited
  <2>2. calls[c.root] \in Seq(CallRecord)
    BY <1>3 DEF TypeOK
  <2>3. calls[c.root][n] \in CallRecord
    BY <1>1, <2>1, <2>2
  <2>4. calls[c.root][n].value \in Value
    BY <2>3 DEF CallRecord
  <2>5. QED
    BY <1>4, <2>4, ValueOf DEF Result, Kernel
<1>5. CASE c.op # "broadcast"
  BY <1>5, <1>3, ValueOf DEF Result, Kernel
<1>6. QED
  BY <1>4, <1>5


\* The phases are numbered in program order.
LEMMA Phases ==
  /\ Metadata..Logits = 1..13
  /\ Metadata = 1 /\ Encoded = 2 /\ Embedding = 3 /\ ToNextHidden = 4
  /\ ToNextResidual = 5 /\ Attention = 6 /\ Activation = 7 /\ RouteIds = 8
  /\ RouteWeights = 9 /\ Experts = 10 /\ Finish = 11 /\ Final = 12 /\ Logits = 13
BY DEF Metadata, Encoded, Embedding, ToNextHidden, ToNextResidual, Attention,
       Activation, RouteIds, RouteWeights, Experts, Finish, Final, Logits

\* Where a worker stands is a pass and a phase, and the two contents it may
\* write for that pass are contents.
LEMMA StandsAt ==
  ASSUME TypeOK, NEW r \in Ranks, NEW p, Stands(r, p)
  PROVE  /\ layer[r] \in 0..(Passes - 1) /\ layer[r] \in Nat
         /\ layer[r] \in 0..Passes /\ layer[r] + 1 \in 0..Passes
         /\ p = phase[r] /\ p \in Metadata..Logits
BY Bounds DEF TypeOK, Stands

\* A worker's hidden states are contents, wherever they are.
LEMMA HiddenType ==
  ASSUME TypeOK, NEW r \in Ranks
  PROVE  Hidden(r) \in Value
BY DEF Hidden, TypeOK

\* A write through hidden states keeps the types.
LEMMA WriteType ==
  ASSUME TypeOK, NEW r \in Ranks, NEW v \in Value, WriteHidden(r, v)
  PROVE  hid' \in [Ranks -> Value] /\ red' \in [Ranks -> Value]
BY DEF WriteHidden, TypeOK

\* The owner's preparation keeps the types.
LEMMA PrepareType ==
  ASSUME TypeOK, NEW r \in Ranks, NEW l \in 0..Passes, Prepare(r, l)
  PROVE  /\ act' \in [Ranks -> Value] /\ ids' \in [Ranks -> Value]
         /\ wts' \in [Ranks -> Value] /\ shared' \in [Ranks -> Value]
         /\ side' \subseteq Ranks
<1> DEFINE right == Hidden(r) = <<"mid", l>>
<1>1. /\ Kernel(right, <<"act", l>>) \in Value /\ Kernel(right, <<"ids", l>>) \in Value
      /\ Kernel(right, <<"weights", l>>) \in Value /\ Kernel(right, <<"shared", l>>) \in Value
  BY ValueOf DEF Kinds, Kernel
<1>2. /\ act' \in [Ranks -> Value] /\ ids' \in [Ranks -> Value] /\ wts' \in [Ranks -> Value]
  BY <1>1 DEF Prepare, TypeOK
<1>3. shared' \in [Ranks -> Value] /\ side' \subseteq Ranks
  BY <1>1 DEF Prepare, TypeOK, stream
<1>4. QED
  BY <1>2, <1>3

-----------------------------------------------------------------------------
(* The kinds of steps.                                                     *)

\* A worker makes the call of the site it stands at.
CallStep(r) ==
    /\ Stands(r, phase[r]) /\ CallSite(layer[r], phase[r])
    /\ mm' = mm
    /\ \E v \in Value :
         /\ Call(r, OpAt(layer[r], phase[r]), RootAt(layer[r], phase[r]), v)
         /\ phase[r] = Metadata /\ r = config.mmOwner => v = <<config.encoder, 0>>

\* Its call completes, and the metadata, if that is what it received, is right.
ReturnStep(r) ==
    /\ r \in busy /\ busy' = busy \ {r} /\ Advance(r)
    /\ UNCHANGED <<config, calls, failed>>
    /\ \A q \in Ranks : q # r => mm'[q] = mm[q]
    /\ phase[r] = Metadata => mm'[r] = <<config.encoder, 0>>

\* Its forward raises on the metadata.
RaiseStep(r) ==
    /\ r \in busy /\ busy' = busy \ {r} /\ failed' = failed \cup {r}
    /\ UNCHANGED <<config, calls, layer, phase, mm>>

\* It moves on from a site that has no call.
LocalStep(r) ==
    /\ Stands(r, phase[r]) /\ ~CallSite(layer[r], phase[r]) /\ Advance(r)
    /\ UNCHANGED <<config, calls, busy, failed, mm>>

\* Nothing that decides on collectives changes.
RestStep == UNCHANGED <<config, calls, position, mm>>

\* Where the code applies, apart from local computation, is a call site.
LEMMA SiteOfApplies ==
  ASSUME TypeOK, Informed, NEW r \in Ranks, NEW p, At(r, p),
         p # Attention, p # Finish
  PROVE  CallSite(layer[r], p)
<1>1. Stands(r, p) /\ Applies(r) /\ p = phase[r]
  BY DEF At, Stands
<1>2. layer[r] \in 0..(Passes - 1) /\ p \in Metadata..Logits
  BY <1>1, StandsAt
<1>3. Meets(layer[r], p, mm[r])
  BY <1>1 DEF Applies
<1>4. CASE p = Encoded
  <2>1. layer[r] = 0 /\ mm[r] = <<"ok", 0>>
    BY <1>3, <1>4, Phases DEF Meets
  <2>2. config.encoder = "ok"
    BY <2>1, <1>1, <1>4 DEF Informed
  <2>3. Meets(layer[r], p, <<config.encoder, 0>>)
    BY <2>1, <2>2, <1>4, Phases DEF Meets
  <2>4. QED
    BY <2>3, <1>2 DEF CallSite
<1>5. CASE p # Encoded
  <2>1. Meets(layer[r], p, <<config.encoder, 0>>)
    BY <1>3, <1>5, Phases DEF Meets
  <2>2. QED
    BY <2>1, <1>2 DEF CallSite
<1>6. QED
  BY <1>4, <1>5

\* What a site says of its call is the operation and the root of one.
LEMMA SiteType ==
  ASSUME TypeOK, NEW l, NEW p, CallSite(l, p)
  PROVE  /\ OpAt(l, p) \in {"broadcast", "reduce", "gather"}
         /\ RootAt(l, p) \in Ranks
<1>1. l \in Nat /\ p \in 1..13
  BY Phases DEF CallSite
<1>2. OpAt(l, p) \in {"broadcast", "reduce", "gather"}
  BY DEF OpAt
<1>3. config \in Configs
  BY DEF TypeOK
<1>4. CASE p \in {ToNextHidden, ToNextResidual}
  <2>1. Moves(l)
    BY <1>4, Phases DEF CallSite, Meets
  <2>2. l - 1 \in Nat
    BY <1>1, <2>1 DEF Moves
  <2>3. Owner(l - 1) \in Ranks
    BY <2>2, <1>3, OwnersAreRanks
  <2>4. QED
    BY <1>2, <1>4, <2>3, Phases DEF RootAt
<1>5. CASE p \in {Metadata, Encoded}
  BY <1>2, <1>3, <1>5, OwnersAreRanks, Phases DEF RootAt
<1>6. CASE p \in {Embedding, Logits}
  BY <1>2, <1>3, <1>6, OwnersAreRanks, Bounds, Phases DEF RootAt
<1>7. CASE p \notin {Metadata, Encoded, Embedding, ToNextHidden, ToNextResidual, Logits}
  <2>1. RootAt(l, p) = Owner(l)
    BY <1>7, Phases DEF RootAt
  <2>2. QED
    BY <1>1, <1>2, <1>3, <2>1, OwnersAreRanks
<1>8. QED
  BY <1>4, <1>5, <1>6, <1>7

\* A send makes the call of its site and keeps the types of the rest.
LEMMA SendsCall ==
  ASSUME TypeOK, Informed, NEW r \in Ranks, NEW p, At(r, p),
         p # Attention, p # Finish, mm' = mm, NEW v \in Value,
         Call(r, OpAt(layer[r], p), RootAt(layer[r], p), v),
         p = Metadata /\ r = config.mmOwner => v = <<config.encoder, 0>>
  PROVE  /\ CallStep(r)
         /\ calls' \in [Ranks -> Seq(CallRecord)]
         /\ busy' \subseteq Ranks /\ failed' \subseteq Ranks /\ config' \in Configs
         /\ layer' \in [Ranks -> 0..Passes] /\ phase' \in [Ranks -> Metadata..Logits]
         /\ mm' \in [Ranks -> Value]
<1>1. Stands(r, p) /\ p = phase[r]
  BY DEF At, Stands
<1>2. CallSite(layer[r], p)
  BY SiteOfApplies
<1>3. p \in Metadata..Logits
  BY <1>2 DEF CallSite
<1>4. OpAt(layer[r], p) \in {"broadcast", "reduce", "gather"} /\ RootAt(layer[r], p) \in Ranks
  BY <1>2, SiteType
<1>5. CallStep(r)
  BY <1>1, <1>2 DEF CallStep
<1>6. /\ calls' \in [Ranks -> Seq(CallRecord)]
      /\ busy' \subseteq Ranks /\ failed' \subseteq Ranks /\ config' \in Configs
      /\ layer' \in [Ranks -> 0..Passes] /\ phase' \in [Ranks -> Metadata..Logits]
  BY <1>1, <1>3, <1>4, CallType
<1>7. QED
  BY <1>5, <1>6 DEF TypeOK


\* The operation and root of each site, one line per send of the code.
LEMMA Table ==
  ASSUME NEW l
  PROVE  /\ OpAt(l, Metadata) = "broadcast" /\ RootAt(l, Metadata) = config.mmOwner
         /\ OpAt(l, Encoded) = "broadcast" /\ RootAt(l, Encoded) = config.mmOwner
         /\ Boundary => /\ OpAt(l, Embedding) = "broadcast" /\ OpAt(l, Logits) = "broadcast"
                        /\ RootAt(l, Embedding) = config.embedOwner
                        /\ RootAt(l, Logits) = config.headOwner
         /\ ~Boundary => /\ OpAt(l, Embedding) = "gather" /\ OpAt(l, Logits) = "gather"
                         /\ RootAt(l, Embedding) = 0 /\ RootAt(l, Logits) = 0
         /\ OpAt(l, ToNextHidden) = "broadcast" /\ RootAt(l, ToNextHidden) = Owner(l - 1)
         /\ OpAt(l, ToNextResidual) = "broadcast" /\ RootAt(l, ToNextResidual) = Owner(l - 1)
         /\ OpAt(l, Activation) = "broadcast" /\ RootAt(l, Activation) = Owner(l)
         /\ OpAt(l, RouteIds) = "broadcast" /\ RootAt(l, RouteIds) = Owner(l)
         /\ OpAt(l, RouteWeights) = "broadcast" /\ RootAt(l, RouteWeights) = Owner(l)
         /\ OpAt(l, Experts) = "reduce" /\ RootAt(l, Experts) = Owner(l)
         /\ OpAt(l, Final) = "broadcast" /\ RootAt(l, Final) = Owner(l)
BY Phases DEF OpAt, RootAt

Sends(r) == \/ SendMetadata(r) \/ SendEncoded(r) \/ LookupEmbedding(r)
            \/ SendHidden(r) \/ SendResidual(r) \/ SendActivation(r)
            \/ SendRouteIds(r) \/ SendRouteWeights(r) \/ RunExperts(r)
            \/ SendFinal(r) \/ SendLogits(r)

\* Every send makes the call of its site and keeps the types.
LEMMA SendStep ==
  ASSUME TypeOK, Informed, NEW r \in Ranks, Sends(r)
  PROVE  CallStep(r) /\ TypeOK'
<1> DEFINE l == layer[r]
<1> USE DEF routed, stream
<1>0. config \in Configs /\ config.encoder \in {"none", "ok", "empty", "zero_width", "error"}
  BY DEF TypeOK, Configs
<1>1. CASE SendMetadata(r)
  <2> DEFINE v == IF r = config.mmOwner THEN <<config.encoder, 0>> ELSE Junk
  <2>1. At(r, Metadata) /\ Call(r, "broadcast", config.mmOwner, v) /\ mm' = mm
    BY <1>1 DEF SendMetadata
  <2>2. config.encoder # "none"
    BY <2>1, Phases DEF At, Stands, Applies, Meets
  <2>3. config.encoder \in Kinds
    BY <1>0, <2>2 DEF Kinds
  <2>4. v \in Value
    BY <2>3, ValueOf, Bounds
  <2>5. Call(r, OpAt(l, Metadata), RootAt(l, Metadata), v)
    BY <2>1, Table
  <2>6. Metadata # Attention /\ Metadata # Finish
    BY Phases
  <2>7. QED
    BY <1>1, <2>1, <2>4, <2>5, <2>6, SendsCall DEF SendMetadata, TypeOK
<1>2. CASE SendEncoded(r)
  <2> DEFINE v == IF r = config.mmOwner THEN <<"encoded", 0>> ELSE Junk
  <2>1. At(r, Encoded) /\ Call(r, "broadcast", config.mmOwner, v) /\ mm' = mm
    BY <1>2 DEF SendEncoded
  <2>2. v \in Value
    BY ValueOf, Bounds DEF Kinds
  <2>3. Call(r, OpAt(l, Encoded), RootAt(l, Encoded), v)
    BY <2>1, Table
  <2>4. Encoded # Attention /\ Encoded # Finish /\ Encoded # Metadata
    BY Phases
  <2>5. QED
    BY <1>2, <2>1, <2>2, <2>3, <2>4, SendsCall DEF SendEncoded, TypeOK
<1>3. CASE LookupEmbedding(r)
  <2>1. At(r, Embedding) /\ mm' = mm /\ l \in 0..Passes
    BY <1>3, StandsAt DEF LookupEmbedding, At
  <2>2. Embed(r, l) \in Value
    BY <2>1, ValueOf DEF Embed, Kernel, Kinds
  <2>3. PICK v \in Value : Call(r, OpAt(l, Embedding), RootAt(l, Embedding), v)
    <3>1. CASE Boundary
      <4> DEFINE v == IF r = config.embedOwner THEN Embed(r, l) ELSE Junk
      <4>1. Call(r, "broadcast", config.embedOwner, v)
        BY <1>3, <3>1 DEF LookupEmbedding
      <4>2. v \in Value
        BY <2>2, ValueOf
      <4>3. QED
        BY <3>1, <4>1, <4>2, Table
    <3>2. CASE ~Boundary
      <4>1. Call(r, "gather", 0, Embed(r, l))
        BY <1>3, <3>2 DEF LookupEmbedding
      <4>2. QED
        BY <2>2, <3>2, <4>1, Table
    <3>3. QED
      BY <3>1, <3>2
  <2>4. Embedding # Attention /\ Embedding # Finish /\ Embedding # Metadata
    BY Phases
  <2>5. QED
    BY <1>3, <2>1, <2>3, <2>4, SendsCall DEF LookupEmbedding, TypeOK
<1>4. CASE SendHidden(r)
  <2>1. At(r, ToNextHidden) /\ Call(r, "broadcast", Owner(l - 1), Hidden(r)) /\ mm' = mm
    BY <1>4 DEF SendHidden
  <2>2. Hidden(r) \in Value
    BY HiddenType
  <2>3. Call(r, OpAt(l, ToNextHidden), RootAt(l, ToNextHidden), Hidden(r))
    BY <2>1, Table
  <2>4. ToNextHidden # Attention /\ ToNextHidden # Finish /\ ToNextHidden # Metadata
    BY Phases
  <2>5. QED
    BY <1>4, <2>1, <2>2, <2>3, <2>4, SendsCall DEF SendHidden, TypeOK
<1>5. CASE SendResidual(r)
  <2>1. At(r, ToNextResidual) /\ Call(r, "broadcast", Owner(l - 1), res[r]) /\ mm' = mm
    BY <1>5 DEF SendResidual
  <2>2. res[r] \in Value
    BY DEF TypeOK
  <2>3. Call(r, OpAt(l, ToNextResidual), RootAt(l, ToNextResidual), res[r])
    BY <2>1, Table
  <2>4. ToNextResidual # Attention /\ ToNextResidual # Finish /\ ToNextResidual # Metadata
    BY Phases
  <2>5. QED
    BY <1>5, <2>1, <2>2, <2>3, <2>4, SendsCall DEF SendResidual, TypeOK
<1>6. CASE SendActivation(r)
  <2>1. At(r, Activation) /\ mm' = mm /\ l \in 0..Passes
    BY <1>6, StandsAt DEF SendActivation, At
  <2>2. /\ act' \in [Ranks -> Value] /\ ids' \in [Ranks -> Value]
        /\ wts' \in [Ranks -> Value] /\ shared' \in [Ranks -> Value] /\ side' \subseteq Ranks
    <3>1. CASE r = Owner(l)
      BY <1>6, <2>1, <3>1, PrepareType DEF SendActivation
    <3>2. CASE r # Owner(l)
      BY <1>6, <3>2 DEF SendActivation, TypeOK
    <3>3. QED
      BY <3>1, <3>2
  <2> DEFINE packed == Kernel(act'[r] = <<"act", l>> /\ ids'[r] = <<"ids", l>>
                                /\ wts'[r] = <<"weights", l>>, <<"packed", l>>)
             v == IF Packed THEN packed ELSE act'[r]
  <2>3. v \in Value
    BY <2>1, <2>2, ValueOf DEF Kernel, Kinds
  <2>4. Call(r, OpAt(l, Activation), RootAt(l, Activation), v)
    BY <1>6, Table DEF SendActivation
  <2>5. Activation # Attention /\ Activation # Finish /\ Activation # Metadata
    BY Phases
  <2>6. /\ CallStep(r)
        /\ calls' \in [Ranks -> Seq(CallRecord)]
        /\ busy' \subseteq Ranks /\ failed' \subseteq Ranks /\ config' \in Configs
        /\ layer' \in [Ranks -> 0..Passes] /\ phase' \in [Ranks -> Metadata..Logits]
        /\ mm' \in [Ranks -> Value]
    BY <2>1, <2>3, <2>4, <2>5, SendsCall
  <2>7. QED
    BY <1>6, <2>2, <2>6 DEF SendActivation, TypeOK
<1>7. CASE SendRouteIds(r)
  <2>1. At(r, RouteIds) /\ Call(r, "broadcast", Owner(l), ids[r]) /\ mm' = mm
    BY <1>7 DEF SendRouteIds
  <2>2. ids[r] \in Value
    BY DEF TypeOK
  <2>3. Call(r, OpAt(l, RouteIds), RootAt(l, RouteIds), ids[r])
    BY <2>1, Table
  <2>4. RouteIds # Attention /\ RouteIds # Finish /\ RouteIds # Metadata
    BY Phases
  <2>5. QED
    BY <1>7, <2>1, <2>2, <2>3, <2>4, SendsCall DEF SendRouteIds, TypeOK
<1>8. CASE SendRouteWeights(r)
  <2>1. At(r, RouteWeights) /\ Call(r, "broadcast", Owner(l), wts[r]) /\ mm' = mm
    BY <1>8 DEF SendRouteWeights
  <2>2. wts[r] \in Value
    BY DEF TypeOK
  <2>3. Call(r, OpAt(l, RouteWeights), RootAt(l, RouteWeights), wts[r])
    BY <2>1, Table
  <2>4. RouteWeights # Attention /\ RouteWeights # Finish /\ RouteWeights # Metadata
    BY Phases
  <2>5. QED
    BY <1>8, <2>1, <2>2, <2>3, <2>4, SendsCall DEF SendRouteWeights, TypeOK
<1>9. CASE RunExperts(r)
  <2> DEFINE v == Kernel(act[r] = <<"act", l>> /\ ids[r] = <<"ids", l>>
                           /\ wts[r] = <<"weights", l>>, <<"partial", l>>)
  <2>1. At(r, Experts) /\ Call(r, "reduce", Owner(l), v) /\ mm' = mm /\ l \in 0..Passes
    BY <1>9, StandsAt DEF RunExperts, At
  <2>2. v \in Value
    BY <2>1, ValueOf DEF Kernel, Kinds
  <2>3. Call(r, OpAt(l, Experts), RootAt(l, Experts), v)
    BY <2>1, Table
  <2>4. Experts # Attention /\ Experts # Finish /\ Experts # Metadata
    BY Phases
  <2>5. QED
    BY <1>9, <2>1, <2>2, <2>3, <2>4, SendsCall DEF RunExperts, TypeOK
<1>10. CASE SendFinal(r)
  <2> DEFINE normed == Kernel(Hidden(r) = <<"out", l + 1>> /\ res[r] = <<"res", l + 1>>,
                              <<"final", l>>)
             v == IF r = Owner(l) THEN normed ELSE Hidden(r)
  <2>1. At(r, Final) /\ mm' = mm /\ l \in 0..Passes
    BY <1>10, StandsAt DEF SendFinal, At
  <2>2. normed \in Value
    BY <2>1, ValueOf DEF Kernel, Kinds
  <2>3. v \in Value
    BY <2>2, HiddenType
  <2>4. Call(r, "broadcast", Owner(l), v)
    BY <1>10 DEF SendFinal
  <2>5. Call(r, OpAt(l, Final), RootAt(l, Final), v)
    BY <2>4, Table
  <2>6. hid' \in [Ranks -> Value] /\ red' \in [Ranks -> Value]
    <3>1. CASE r = Owner(l)
      <4>1. WriteHidden(r, normed)
        BY <1>10, <3>1 DEF SendFinal
      <4>2. QED
        BY <2>2, <4>1, WriteType
    <3>2. CASE r # Owner(l)
      BY <1>10, <3>2 DEF SendFinal, TypeOK
    <3>3. QED
      BY <3>1, <3>2
  <2>7. Final # Attention /\ Final # Finish /\ Final # Metadata
    BY Phases
  <2>8. /\ CallStep(r)
        /\ calls' \in [Ranks -> Seq(CallRecord)]
        /\ busy' \subseteq Ranks /\ failed' \subseteq Ranks /\ config' \in Configs
        /\ layer' \in [Ranks -> 0..Passes] /\ phase' \in [Ranks -> Metadata..Logits]
        /\ mm' \in [Ranks -> Value]
    BY <2>1, <2>3, <2>5, <2>7, SendsCall
  <2>9. QED
    BY <1>10, <2>6, <2>8 DEF SendFinal, TypeOK
<1>11. CASE SendLogits(r)
  <2>1. At(r, Logits) /\ mm' = mm /\ l \in 0..Passes
    BY <1>11, StandsAt DEF SendLogits, At
  <2>2. Project(r, l) \in Value
    BY <2>1, ValueOf DEF Project, Kernel, Kinds
  <2>3. PICK v \in Value : Call(r, OpAt(l, Logits), RootAt(l, Logits), v)
    <3>1. CASE Boundary
      <4> DEFINE v == IF r = config.headOwner THEN Project(r, l) ELSE Junk
      <4>1. Call(r, "broadcast", config.headOwner, v)
        BY <1>11, <3>1 DEF SendLogits
      <4>2. v \in Value
        BY <2>2, ValueOf
      <4>3. QED
        BY <3>1, <4>1, <4>2, Table
    <3>2. CASE ~Boundary
      <4>1. Call(r, "gather", 0, Project(r, l))
        BY <1>11, <3>2 DEF SendLogits
      <4>2. QED
        BY <2>2, <3>2, <4>1, Table
    <3>3. QED
      BY <3>1, <3>2
  <2>4. Logits # Attention /\ Logits # Finish /\ Logits # Metadata
    BY Phases
  <2>5. QED
    BY <1>11, <2>1, <2>3, <2>4, SendsCall DEF SendLogits, TypeOK
<1>12. QED
  BY <1>1, <1>2, <1>3, <1>4, <1>5, <1>6, <1>7, <1>8, <1>9, <1>10, <1>11 DEF Sends


\* Metadata that a worker accepts is what the owner's encoder did.
LEMMA MetadataRight ==
  ASSUME HybridInv, NEW r \in busy, phase[r] = Metadata, Arrived(r), Result(r) # Junk
  PROVE  Result(r) = <<config.encoder, 0>>
<1> DEFINE n == Len(calls[r])
           c == LastCall(r)
           o == config.mmOwner
<1>1. r \in Ranks /\ calls[r] \in Seq(CallRecord) /\ n > 0 /\ n \in DOMAIN calls[r]
  BY DEF HybridInv, TypeOK, Waiting
<1>2. c.layer = layer[r] /\ c.phase = Metadata
  BY DEF HybridInv, Waiting
<1>3. c.op = OpAt(c.layer, c.phase) /\ c.root = RootAt(c.layer, c.phase)
  BY <1>1 DEF HybridInv, Recorded, LastCall
<1>4. c.op = "broadcast" /\ c.root = o
  BY <1>2, <1>3, Table
<1>5. o \in Ranks
  BY OwnersAreRanks DEF HybridInv, TypeOK
<1>6. Len(calls[o]) >= n
  BY <1>4 DEF Arrived, Awaited
<1>7. n \in DOMAIN calls[o]
  <2>1. calls[o] \in Seq(CallRecord)
    BY <1>5 DEF HybridInv, TypeOK
  <2>2. QED
    BY <1>1, <1>6, <2>1
<1>8. SameCall(c, calls[o][n]) /\ Result(r) = calls[o][n].value
  BY <1>4 DEF Result, Kernel
<1>9. calls[o][n].phase = Metadata
  BY <1>2, <1>8 DEF SameCall
<1>10. QED
  BY <1>7, <1>8, <1>9 DEF HybridInv, Announced

\* A return keeps the types of what decides on collectives.
LEMMA CompletesType ==
  ASSUME TypeOK, Waiting, NEW r \in Ranks, NEW p, Completes(r, p)
  PROVE  /\ r \in busy /\ busy' = busy \ {r} /\ Advance(r) /\ Arrived(r) /\ phase[r] = p
         /\ UNCHANGED <<config, calls, failed>>
         /\ calls' \in [Ranks -> Seq(CallRecord)]
         /\ busy' \subseteq Ranks /\ failed' \subseteq Ranks /\ config' \in Configs
         /\ layer' \in [Ranks -> 0..Passes] /\ phase' \in [Ranks -> Metadata..Logits]
         /\ Result(r) \in Value
         /\ layer[r] \in 0..(Passes - 1) /\ layer[r] \in 0..Passes
<1>1. /\ r \in busy /\ busy' = busy \ {r} /\ Advance(r) /\ Arrived(r) /\ phase[r] = p
      /\ UNCHANGED <<config, calls, failed>>
  BY DEF Completes, Returns
<1>2. layer[r] < Passes /\ layer[r] \in 0..Passes
  BY <1>1 DEF Waiting, TypeOK
<1>3. layer' \in [Ranks -> 0..Passes] /\ phase' \in [Ranks -> Metadata..Logits]
  BY <1>1, <1>2, AdvanceType
<1>4. Result(r) \in Value
  BY <1>1, ResultType
<1>5. layer[r] \in 0..(Passes - 1)
  BY <1>2, Bounds
<1>6. QED
  BY <1>1, <1>2, <1>3, <1>4, <1>5 DEF TypeOK

Receives(r) == \/ ReadMetadata(r) \/ ReceiveEncoded(r) \/ ReceiveEmbedding(r)
               \/ ReceiveHidden(r) \/ ReceiveResidual(r) \/ ReceiveActivation(r)
               \/ ReceiveRouteIds(r) \/ ReceiveRouteWeights(r)
               \/ ReduceExperts(r) \/ ReceiveFinal(r) \/ ReceiveLogits(r)

\* Every receive returns from its worker's call, or raises, and keeps the types.
LEMMA ReceiveStep ==
  ASSUME HybridInv, NEW r \in Ranks, Receives(r)
  PROVE  (ReturnStep(r) \/ RaiseStep(r)) /\ TypeOK'
<1> USE DEF routed, stream
<1>0. TypeOK /\ Waiting
  BY DEF HybridInv
<1>1. CASE ReadMetadata(r)
  <2>1. /\ r \in busy /\ phase[r] = Metadata /\ Arrived(r) /\ busy' = busy \ {r}
        /\ UNCHANGED <<config, calls>>
    BY <1>1 DEF ReadMetadata, Returns
  <2>2. layer[r] < Passes /\ Result(r) \in Value
    BY <1>0, <2>1, ResultType DEF Waiting
  <2>3. CASE Result(r) \in {<<"ok", 0>>, <<"empty", 0>>}
    <3>1. mm' = [mm EXCEPT ![r] = Result(r)] /\ Advance(r) /\ UNCHANGED failed
      BY <1>1, <2>3 DEF ReadMetadata
    <3>2. Result(r) # Junk
      BY <2>3 DEF Junk
    <3>3. Result(r) = <<config.encoder, 0>>
      BY <2>1, <3>2, MetadataRight
    <3>4. mm'[r] = <<config.encoder, 0>>
      BY <1>0, <3>1, <3>3 DEF TypeOK
    <3>5. ReturnStep(r)
      BY <1>0, <2>1, <3>1, <3>4 DEF ReturnStep, TypeOK
    <3>6. layer' \in [Ranks -> 0..Passes] /\ phase' \in [Ranks -> Metadata..Logits]
      BY <1>0, <2>2, <3>1, AdvanceType
    <3>7. mm' \in [Ranks -> Value]
      BY <1>0, <2>2, <3>1 DEF TypeOK
    <3>8. QED
      BY <1>0, <1>1, <2>1, <3>1, <3>5, <3>6, <3>7 DEF ReadMetadata, TypeOK
  <2>4. CASE Result(r) \notin {<<"ok", 0>>, <<"empty", 0>>}
    <3>1. failed' = failed \cup {r} /\ UNCHANGED <<mm, layer, phase>>
      BY <1>1, <2>4 DEF ReadMetadata
    <3>2. QED
      BY <1>0, <1>1, <2>1, <3>1 DEF RaiseStep, ReadMetadata, TypeOK
  <2>5. QED
    BY <2>3, <2>4
<1>2. CASE ReceiveEncoded(r)
  <2>1. Completes(r, Encoded)
    BY <1>2 DEF ReceiveEncoded
  <2>2. /\ r \in busy /\ busy' = busy \ {r} /\ Advance(r) /\ Arrived(r) /\ phase[r] = Encoded
        /\ UNCHANGED <<config, calls, failed>>
        /\ calls' \in [Ranks -> Seq(CallRecord)]
        /\ busy' \subseteq Ranks /\ failed' \subseteq Ranks /\ config' \in Configs
        /\ layer' \in [Ranks -> 0..Passes] /\ phase' \in [Ranks -> Metadata..Logits]
        /\ Result(r) \in Value
        /\ layer[r] \in 0..(Passes - 1) /\ layer[r] \in 0..Passes
    BY <1>0, <2>1, CompletesType
  <2>3. Encoded # Metadata
    BY Phases
  <2>4. ReturnStep(r)
    BY <1>0, <1>2, <2>2, <2>3 DEF ReturnStep, ReceiveEncoded, TypeOK
  <2>5. QED
    BY <1>0, <1>2, <2>2, <2>4 DEF ReceiveEncoded, TypeOK
<1>3. CASE ReceiveEmbedding(r)
  <2>1. Completes(r, Embedding)
    BY <1>3 DEF ReceiveEmbedding
  <2>2. /\ r \in busy /\ busy' = busy \ {r} /\ Advance(r) /\ Arrived(r) /\ phase[r] = Embedding
        /\ UNCHANGED <<config, calls, failed>>
        /\ calls' \in [Ranks -> Seq(CallRecord)]
        /\ busy' \subseteq Ranks /\ failed' \subseteq Ranks /\ config' \in Configs
        /\ layer' \in [Ranks -> 0..Passes] /\ phase' \in [Ranks -> Metadata..Logits]
        /\ Result(r) \in Value
        /\ layer[r] \in 0..(Passes - 1) /\ layer[r] \in 0..Passes
    BY <1>0, <2>1, CompletesType
  <2>3. Embedding # Metadata
    BY Phases
  <2>4. ReturnStep(r)
    BY <1>0, <1>3, <2>2, <2>3 DEF ReturnStep, ReceiveEmbedding, TypeOK
  <2>5. Kernel(Result(r) = <<"embed", 0>> /\ Merged(r), <<"out", 0>>) \in Value
    BY ValueOf, Bounds DEF Kernel, Kinds
  <2>6. hid' \in [Ranks -> Value] /\ emb' \in [Ranks -> Value]
    BY <1>0, <1>3, <2>2, <2>5 DEF ReceiveEmbedding, TypeOK
  <2>7. QED
    BY <1>0, <1>3, <2>2, <2>4, <2>6 DEF ReceiveEmbedding, TypeOK
<1>4. CASE ReceiveHidden(r)
  <2>1. Completes(r, ToNextHidden)
    BY <1>4 DEF ReceiveHidden
  <2>2. /\ r \in busy /\ busy' = busy \ {r} /\ Advance(r) /\ Arrived(r) /\ phase[r] = ToNextHidden
        /\ UNCHANGED <<config, calls, failed>>
        /\ calls' \in [Ranks -> Seq(CallRecord)]
        /\ busy' \subseteq Ranks /\ failed' \subseteq Ranks /\ config' \in Configs
        /\ layer' \in [Ranks -> 0..Passes] /\ phase' \in [Ranks -> Metadata..Logits]
        /\ Result(r) \in Value
        /\ layer[r] \in 0..(Passes - 1) /\ layer[r] \in 0..Passes
    BY <1>0, <2>1, CompletesType
  <2>3. ToNextHidden # Metadata
    BY Phases
  <2>4. ReturnStep(r)
    BY <1>0, <1>4, <2>2, <2>3 DEF ReturnStep, ReceiveHidden, TypeOK
  <2>5. hid' \in [Ranks -> Value] /\ red' \in [Ranks -> Value]
    BY <1>0, <1>4, <2>2, WriteType DEF ReceiveHidden
  <2>6. QED
    BY <1>0, <1>4, <2>2, <2>4, <2>5 DEF ReceiveHidden, TypeOK
<1>5. CASE ReceiveResidual(r)
  <2>1. Completes(r, ToNextResidual)
    BY <1>5 DEF ReceiveResidual
  <2>2. /\ r \in busy /\ busy' = busy \ {r} /\ Advance(r) /\ Arrived(r) /\ phase[r] = ToNextResidual
        /\ UNCHANGED <<config, calls, failed>>
        /\ calls' \in [Ranks -> Seq(CallRecord)]
        /\ busy' \subseteq Ranks /\ failed' \subseteq Ranks /\ config' \in Configs
        /\ layer' \in [Ranks -> 0..Passes] /\ phase' \in [Ranks -> Metadata..Logits]
        /\ Result(r) \in Value
        /\ layer[r] \in 0..(Passes - 1) /\ layer[r] \in 0..Passes
    BY <1>0, <2>1, CompletesType
  <2>3. ToNextResidual # Metadata
    BY Phases
  <2>4. ReturnStep(r)
    BY <1>0, <1>5, <2>2, <2>3 DEF ReturnStep, ReceiveResidual, TypeOK
  <2>5. QED
    BY <1>0, <1>5, <2>2, <2>4 DEF ReceiveResidual, TypeOK
<1>6. CASE ReceiveActivation(r)
  <2>1. Completes(r, Activation)
    BY <1>6 DEF ReceiveActivation
  <2>2. /\ r \in busy /\ busy' = busy \ {r} /\ Advance(r) /\ Arrived(r) /\ phase[r] = Activation
        /\ UNCHANGED <<config, calls, failed>>
        /\ calls' \in [Ranks -> Seq(CallRecord)]
        /\ busy' \subseteq Ranks /\ failed' \subseteq Ranks /\ config' \in Configs
        /\ layer' \in [Ranks -> 0..Passes] /\ phase' \in [Ranks -> Metadata..Logits]
        /\ Result(r) \in Value
        /\ layer[r] \in 0..(Passes - 1) /\ layer[r] \in 0..Passes
    BY <1>0, <2>1, CompletesType
  <2>3. Activation # Metadata
    BY Phases
  <2>4. ReturnStep(r)
    BY <1>0, <1>6, <2>2, <2>3 DEF ReturnStep, ReceiveActivation, TypeOK
  <2> DEFINE v == Result(r)
             View(kind) == Kernel(v[1] = "packed", <<kind, v[2]>>)
  <2>5. v = Junk \/ v[2] \in 0..Passes
    BY <2>2 DEF Value
  <2>6. View("act") \in Value /\ View("ids") \in Value /\ View("weights") \in Value
    BY <2>5, ValueOf DEF Kernel, Kinds, Junk
  <2>7. act' \in [Ranks -> Value] /\ ids' \in [Ranks -> Value] /\ wts' \in [Ranks -> Value]
    <3>1. CASE Packed
      <4>1. /\ act' = [act EXCEPT ![r] = View("act")]
            /\ ids' = [ids EXCEPT ![r] = View("ids")]
            /\ wts' = [wts EXCEPT ![r] = View("weights")]
        BY <1>6, <3>1 DEF ReceiveActivation
      <4> HIDE DEF View
      <4>2. QED
        BY <1>0, <2>6, <4>1 DEF TypeOK
    <3>2. CASE ~Packed
      BY <1>0, <1>6, <2>2, <3>2 DEF ReceiveActivation, TypeOK
    <3>3. QED
      BY <3>1, <3>2
  <2>8. QED
    BY <1>0, <1>6, <2>2, <2>4, <2>7 DEF ReceiveActivation, TypeOK
<1>7. CASE ReceiveRouteIds(r)
  <2>1. Completes(r, RouteIds)
    BY <1>7 DEF ReceiveRouteIds
  <2>2. /\ r \in busy /\ busy' = busy \ {r} /\ Advance(r) /\ Arrived(r) /\ phase[r] = RouteIds
        /\ UNCHANGED <<config, calls, failed>>
        /\ calls' \in [Ranks -> Seq(CallRecord)]
        /\ busy' \subseteq Ranks /\ failed' \subseteq Ranks /\ config' \in Configs
        /\ layer' \in [Ranks -> 0..Passes] /\ phase' \in [Ranks -> Metadata..Logits]
        /\ Result(r) \in Value
        /\ layer[r] \in 0..(Passes - 1) /\ layer[r] \in 0..Passes
    BY <1>0, <2>1, CompletesType
  <2>3. RouteIds # Metadata
    BY Phases
  <2>4. ReturnStep(r)
    BY <1>0, <1>7, <2>2, <2>3 DEF ReturnStep, ReceiveRouteIds, TypeOK
  <2>5. QED
    BY <1>0, <1>7, <2>2, <2>4 DEF ReceiveRouteIds, TypeOK
<1>8. CASE ReceiveRouteWeights(r)
  <2>1. Completes(r, RouteWeights)
    BY <1>8 DEF ReceiveRouteWeights
  <2>2. /\ r \in busy /\ busy' = busy \ {r} /\ Advance(r) /\ Arrived(r) /\ phase[r] = RouteWeights
        /\ UNCHANGED <<config, calls, failed>>
        /\ calls' \in [Ranks -> Seq(CallRecord)]
        /\ busy' \subseteq Ranks /\ failed' \subseteq Ranks /\ config' \in Configs
        /\ layer' \in [Ranks -> 0..Passes] /\ phase' \in [Ranks -> Metadata..Logits]
        /\ Result(r) \in Value
        /\ layer[r] \in 0..(Passes - 1) /\ layer[r] \in 0..Passes
    BY <1>0, <2>1, CompletesType
  <2>3. RouteWeights # Metadata
    BY Phases
  <2>4. ReturnStep(r)
    BY <1>0, <1>8, <2>2, <2>3 DEF ReturnStep, ReceiveRouteWeights, TypeOK
  <2>5. QED
    BY <1>0, <1>8, <2>2, <2>4 DEF ReceiveRouteWeights, TypeOK
<1>9. CASE ReduceExperts(r)
  <2>1. Completes(r, Experts)
    BY <1>9 DEF ReduceExperts
  <2>2. /\ r \in busy /\ busy' = busy \ {r} /\ Advance(r) /\ Arrived(r) /\ phase[r] = Experts
        /\ UNCHANGED <<config, calls, failed>>
        /\ calls' \in [Ranks -> Seq(CallRecord)]
        /\ busy' \subseteq Ranks /\ failed' \subseteq Ranks /\ config' \in Configs
        /\ layer' \in [Ranks -> 0..Passes] /\ phase' \in [Ranks -> Metadata..Logits]
        /\ Result(r) \in Value
        /\ layer[r] \in 0..(Passes - 1) /\ layer[r] \in 0..Passes
    BY <1>0, <2>1, CompletesType
  <2>3. Experts # Metadata
    BY Phases
  <2>4. ReturnStep(r)
    BY <1>0, <1>9, <2>2, <2>3 DEF ReturnStep, ReduceExperts, TypeOK
  <2>5. Kernel(Result(r) = <<"partial", layer[r]>>, <<"sum", layer[r]>>) \in Value
    BY <2>2, ValueOf DEF Kernel, Kinds
  <2>6. red' \in [Ranks -> Value]
    BY <1>0, <1>9, <2>5 DEF ReduceExperts, TypeOK
  <2>7. QED
    BY <1>0, <1>9, <2>2, <2>4, <2>6 DEF ReduceExperts, TypeOK
<1>10. CASE ReceiveFinal(r)
  <2>1. Completes(r, Final)
    BY <1>10 DEF ReceiveFinal
  <2>2. /\ r \in busy /\ busy' = busy \ {r} /\ Advance(r) /\ Arrived(r) /\ phase[r] = Final
        /\ UNCHANGED <<config, calls, failed>>
        /\ calls' \in [Ranks -> Seq(CallRecord)]
        /\ busy' \subseteq Ranks /\ failed' \subseteq Ranks /\ config' \in Configs
        /\ layer' \in [Ranks -> 0..Passes] /\ phase' \in [Ranks -> Metadata..Logits]
        /\ Result(r) \in Value
        /\ layer[r] \in 0..(Passes - 1) /\ layer[r] \in 0..Passes
    BY <1>0, <2>1, CompletesType
  <2>3. Final # Metadata
    BY Phases
  <2>4. ReturnStep(r)
    BY <1>0, <1>10, <2>2, <2>3 DEF ReturnStep, ReceiveFinal, TypeOK
  <2>5. hid' \in [Ranks -> Value] /\ red' \in [Ranks -> Value]
    BY <1>0, <1>10, <2>2, WriteType DEF ReceiveFinal
  <2>6. QED
    BY <1>0, <1>10, <2>2, <2>4, <2>5 DEF ReceiveFinal, TypeOK
<1>11. CASE ReceiveLogits(r)
  <2>1. Completes(r, Logits)
    BY <1>11 DEF ReceiveLogits
  <2>2. /\ r \in busy /\ busy' = busy \ {r} /\ Advance(r) /\ Arrived(r) /\ phase[r] = Logits
        /\ UNCHANGED <<config, calls, failed>>
        /\ calls' \in [Ranks -> Seq(CallRecord)]
        /\ busy' \subseteq Ranks /\ failed' \subseteq Ranks /\ config' \in Configs
        /\ layer' \in [Ranks -> 0..Passes] /\ phase' \in [Ranks -> Metadata..Logits]
        /\ Result(r) \in Value
        /\ layer[r] \in 0..(Passes - 1) /\ layer[r] \in 0..Passes
    BY <1>0, <2>1, CompletesType
  <2>3. Logits # Metadata
    BY Phases
  <2>4. ReturnStep(r)
    BY <1>0, <1>11, <2>2, <2>3 DEF ReturnStep, ReceiveLogits, TypeOK
  <2>5. QED
    BY <1>0, <1>11, <2>2, <2>4 DEF ReceiveLogits, TypeOK
<1>12. QED
  BY <1>1, <1>2, <1>3, <1>4, <1>5, <1>6, <1>7, <1>8, <1>9, <1>10, <1>11 DEF Receives

\* Where the code does not apply there is no call site.
LEMMA NoSiteOfSkip ==
  ASSUME TypeOK, Informed, NEW r \in Ranks, Stands(r, phase[r]), ~Applies(r)
  PROVE  ~CallSite(layer[r], phase[r])
<1>1. phase[r] \in 1..13 /\ ~Meets(layer[r], phase[r], mm[r])
  BY Phases DEF TypeOK, Applies
<1>2. CASE phase[r] = Encoded
  <2>1. ~(layer[r] = 0 /\ mm[r] = <<"ok", 0>>)
    BY <1>1, <1>2, Phases DEF Meets
  <2>2. ~(layer[r] = 0 /\ config.encoder = "ok")
    BY <2>1, <1>2 DEF Informed
  <2>3. ~Meets(layer[r], phase[r], <<config.encoder, 0>>)
    BY <1>2, <2>2, Phases DEF Meets
  <2>4. QED
    BY <2>3 DEF CallSite
<1>3. CASE phase[r] # Encoded
  <2>1. ~Meets(layer[r], phase[r], <<config.encoder, 0>>)
    BY <1>1, <1>3, Phases DEF Meets
  <2>2. QED
    BY <2>1 DEF CallSite
<1>4. QED
  BY <1>2, <1>3

GoesOn(r) == Attend(r) \/ FinishLayer(r) \/ Skip(r)

\* Local computation is no call, and keeps the types.
LEMMA LocalSteps ==
  ASSUME TypeOK, Informed, NEW r \in Ranks, GoesOn(r)
  PROVE  LocalStep(r) /\ TypeOK'
<1> DEFINE l == layer[r]
<1> USE DEF routed, stream
<1>1. CASE Attend(r)
  <2>1. /\ Stands(r, Attention) /\ Advance(r)
        /\ UNCHANGED <<config, busy, failed, calls, mm, emb, red, routed, stream, token>>
    BY <1>1 DEF Attend, At
  <2>2. l \in 0..Passes /\ l + 1 \in 0..Passes /\ l < Passes /\ phase[r] = Attention
    BY <2>1, StandsAt DEF Stands
  <2>3. ~CallSite(l, phase[r])
    BY <2>2 DEF CallSite
  <2>4. LocalStep(r)
    BY <2>1, <2>2, <2>3 DEF LocalStep
  <2>5. layer' \in [Ranks -> 0..Passes] /\ phase' \in [Ranks -> Metadata..Logits]
    BY <2>1, <2>2, AdvanceType
  <2>6. /\ Kernel(InputsRight(r, l), <<"mid", l>>) \in Value
        /\ Kernel(InputsRight(r, l), <<"res", l + 1>>) \in Value
    BY <2>2, ValueOf DEF Kernel, Kinds
  <2>7. /\ hid' \in [Ranks -> Value] /\ res' \in [Ranks -> Value] /\ inArena' \subseteq Ranks
    <3>1. CASE r = Owner(l)
      <4>1. /\ hid' = [hid EXCEPT ![r] = Kernel(InputsRight(r, l), <<"mid", l>>)]
            /\ res' = [res EXCEPT ![r] = Kernel(InputsRight(r, l), <<"res", l + 1>>)]
            /\ inArena' = inArena \ {r}
        BY <1>1, <3>1 DEF Attend
      <4>2. QED
        BY <2>6, <4>1 DEF TypeOK
    <3>2. CASE r # Owner(l)
      BY <1>1, <3>2, ValueOf DEF Attend, TypeOK
    <3>3. QED
      BY <3>1, <3>2
  <2>8. QED
    BY <2>1, <2>4, <2>5, <2>7 DEF TypeOK
<1>2. CASE FinishLayer(r)
  <2>1. /\ Stands(r, Finish) /\ Advance(r)
        /\ UNCHANGED <<config, busy, failed, calls, mm, emb, res, red, routed, stream, token>>
    BY <1>2 DEF FinishLayer, At
  <2>2. l \in 0..Passes /\ l + 1 \in 0..Passes /\ l < Passes /\ phase[r] = Finish
    BY <2>1, StandsAt DEF Stands
  <2>3. ~CallSite(l, phase[r])
    BY <2>2 DEF CallSite
  <2>4. LocalStep(r)
    BY <2>1, <2>2, <2>3 DEF LocalStep
  <2>5. layer' \in [Ranks -> 0..Passes] /\ phase' \in [Ranks -> Metadata..Logits]
    BY <2>1, <2>2, AdvanceType
  <2>6. hid' \in [Ranks -> Value] /\ inArena' \subseteq Ranks
    <3>1. CASE r = Owner(l)
      <4> DEFINE right == IF IsMoE(l)
                          THEN red[r] = <<"sum", l>> /\ shared[r] = <<"shared", l>>
                          ELSE hid[r] = <<"mid", l>>
      <4>1. hid' = [hid EXCEPT ![r] = Kernel(right, <<"out", l + 1>>)] /\ UNCHANGED inArena
        BY <1>2, <3>1 DEF FinishLayer
      <4>2. Kernel(right, <<"out", l + 1>>) \in Value
        BY <2>2, ValueOf DEF Kernel, Kinds
      <4>3. QED
        BY <4>1, <4>2 DEF TypeOK
    <3>2. CASE r # Owner(l)
      BY <1>2, <3>2 DEF FinishLayer, TypeOK
    <3>3. QED
      BY <3>1, <3>2
  <2>7. QED
    BY <2>1, <2>4, <2>5, <2>6 DEF TypeOK
<1>3. CASE Skip(r)
  <2>1. /\ Stands(r, phase[r]) /\ ~Applies(r) /\ Advance(r)
        /\ UNCHANGED <<config, busy, failed, calls, mm, emb, hid, res, inArena, red,
                       routed, stream, token>>
    BY <1>3 DEF Skip
  <2>2. LocalStep(r)
    BY <2>1, NoSiteOfSkip DEF LocalStep
  <2>3. layer' \in [Ranks -> 0..Passes] /\ phase' \in [Ranks -> Metadata..Logits]
    BY <2>1, AdvanceType DEF Stands
  <2>4. QED
    BY <2>1, <2>2, <2>3 DEF TypeOK
<1>4. QED
  BY <1>1, <1>2, <1>3 DEF GoesOn

\* The side stream touches no collective, and keeps the types.
LEMMA SharedStep ==
  ASSUME TypeOK, NEW r \in Ranks, SharedExpert(r)
  PROVE  RestStep /\ TypeOK'
<1> USE DEF routed, position
<1>1. layer[r] \in 0..Passes
  BY DEF TypeOK
<1>2. Kernel(hid[r] = <<"mid", layer[r]>>, <<"shared", layer[r]>>) \in Value
  BY <1>1, ValueOf DEF Kernel, Kinds
<1>3. shared' \in [Ranks -> Value] /\ side' \subseteq Ranks
  BY <1>2 DEF SharedExpert, TypeOK
<1>4. QED
  BY <1>3 DEF SharedExpert, RestStep, TypeOK

\* So every step is of one of the kinds, and keeps the types.
LEMMA StepKinds ==
  ASSUME HybridInv, [Next]_vars
  PROVE  /\ TypeOK'
         /\ \/ \E r \in Ranks : CallStep(r) \/ ReturnStep(r) \/ RaiseStep(r) \/ LocalStep(r)
            \/ RestStep
<1>0. TypeOK /\ Informed
  BY DEF HybridInv
<1>1. ASSUME NEW r \in Ranks, Work(r)
      PROVE  /\ TypeOK'
             /\ CallStep(r) \/ ReturnStep(r) \/ RaiseStep(r) \/ LocalStep(r)
  <2>1. Sends(r) \/ Receives(r) \/ GoesOn(r)
    BY <1>1 DEF Work, Sends, Receives, GoesOn
  <2>2. QED
    BY <1>0, <2>1, SendStep, ReceiveStep, LocalSteps
<1>2. ASSUME NEW r \in Ranks, SharedExpert(r)
      PROVE  TypeOK' /\ RestStep
  BY <1>0, <1>2, SharedStep
<1>3. CASE UNCHANGED vars
  BY <1>0, <1>3 DEF vars, position, routed, stream, RestStep, TypeOK
<1>4. QED
  BY <1>1, <1>2, <1>3 DEF Next, Terminated

-----------------------------------------------------------------------------
(* A call: it is appended to its worker's calls, at the worker's site.     *)

\* The call records as they were and the new one.
LEMMA Called ==
  ASSUME TypeOK, NEW r \in Ranks, CallStep(r)
  PROVE  /\ UNCHANGED <<config, layer, phase, failed, mm>> /\ busy' = busy \cup {r}
         /\ r \notin busy /\ r \notin failed /\ layer[r] < Passes
         /\ \A q \in Ranks : q # r => calls'[q] = calls[q]
         /\ DOMAIN calls'[r] = 1..(Len(calls[r]) + 1) /\ DOMAIN calls[r] = 1..Len(calls[r])
         /\ Len(calls[r]) \in Nat /\ Len(calls'[r]) = Len(calls[r]) + 1
         /\ \A n \in DOMAIN calls[r] : n \in Nat /\ calls'[r][n] = calls[r][n]
         /\ calls'[r][Len(calls[r]) + 1].op = OpAt(layer[r], phase[r])
         /\ calls'[r][Len(calls[r]) + 1].root = RootAt(layer[r], phase[r])
         /\ calls'[r][Len(calls[r]) + 1].layer = layer[r]
         /\ calls'[r][Len(calls[r]) + 1].phase = phase[r]
         /\ phase[r] = Metadata /\ r = config.mmOwner =>
              calls'[r][Len(calls[r]) + 1].value = <<config.encoder, 0>>
<1>1. PICK v \in Value :
        /\ Call(r, OpAt(layer[r], phase[r]), RootAt(layer[r], phase[r]), v)
        /\ phase[r] = Metadata /\ r = config.mmOwner => v = <<config.encoder, 0>>
  BY DEF CallStep
<1> DEFINE c == [op |-> OpAt(layer[r], phase[r]), root |-> RootAt(layer[r], phase[r]),
                 layer |-> layer[r], phase |-> phase[r], value |-> v]
<1>2. calls' = [calls EXCEPT ![r] = Append(calls[r], c)]
  BY <1>1 DEF Call
<1>3. calls \in [Ranks -> Seq(CallRecord)]
  BY DEF TypeOK
<1>4. calls'[r] = Append(calls[r], c) /\ \A q \in Ranks : q # r => calls'[q] = calls[q]
  BY <1>2, <1>3
<1>5. calls[r] \in Seq(CallRecord)
  BY <1>3
<1> HIDE DEF c
<1>6. /\ DOMAIN Append(calls[r], c) = 1..(Len(calls[r]) + 1) /\ DOMAIN calls[r] = 1..Len(calls[r])
      /\ Len(calls[r]) \in Nat /\ Len(Append(calls[r], c)) = Len(calls[r]) + 1
      /\ \A n \in DOMAIN calls[r] : n \in Nat /\ Append(calls[r], c)[n] = calls[r][n]
      /\ Append(calls[r], c)[Len(calls[r]) + 1] = c
  BY <1>5
<1>7. /\ c.op = OpAt(layer[r], phase[r]) /\ c.root = RootAt(layer[r], phase[r])
      /\ c.layer = layer[r] /\ c.phase = phase[r] /\ c.value = v
  BY DEF c
<1>8. /\ UNCHANGED <<config, layer, phase, failed, mm>> /\ busy' = busy \cup {r}
      /\ r \notin busy /\ r \notin failed /\ layer[r] < Passes
  BY <1>1 DEF Call, CallStep, Stands
<1>9. QED
  BY <1>1, <1>4, <1>6, <1>7, <1>8

\* Where workers stand and what they called are numbers.
LEMMA Sites ==
  ASSUME TypeOK, NEW r \in Ranks
  PROVE  /\ layer[r] \in Nat /\ layer[r] \in 0..Passes /\ phase[r] \in 1..13
         /\ DOMAIN calls[r] \subseteq Nat /\ DOMAIN calls[r] = 1..Len(calls[r])
         /\ Len(calls[r]) \in Nat
         /\ \A n \in DOMAIN calls[r] :
               /\ calls[r][n].layer \in Nat /\ calls[r][n].layer \in 0..(Passes - 1)
               /\ calls[r][n].phase \in 1..13
<1>1. calls[r] \in Seq(CallRecord)
  BY DEF TypeOK
<1>2. \A n \in DOMAIN calls[r] : calls[r][n] \in CallRecord
  BY <1>1
<1>3. \A c \in CallRecord : c.layer \in 0..(Passes - 1) /\ c.phase \in 1..13
  BY Phases DEF CallRecord
<1>4. layer[r] \in 0..Passes /\ phase[r] \in 1..13
  BY Phases DEF TypeOK
<1>5. QED
  BY <1>1, <1>2, <1>3, <1>4, Bounds

\* The sites and what they say depend on the configuration alone.
LEMMA SitesFixed ==
  ASSUME config' = config, NEW l, NEW p
  PROVE  /\ CallSite(l, p)' <=> CallSite(l, p)
         /\ OpAt(l, p)' = OpAt(l, p) /\ RootAt(l, p)' = RootAt(l, p)
BY DEF CallSite, Meets, OpAt, RootAt, EmbedsTogether, Moves, Owner, IsMoE, IsDraft,
       Ends, Packed, Boundary

\* Program order.
LEMMA Order ==
  ASSUME NEW l \in Nat, NEW p \in Nat, NEW k \in Nat, NEW j \in Nat
  PROVE  /\ ~Earlier(l, p, l, p)
         /\ Earlier(l, p, k, j) \/ Earlier(k, j, l, p) \/ (l = k /\ p = j)
         /\ ~(Earlier(l, p, k, j) /\ Earlier(k, j, l, p))
         /\ Earlier(k, j, l, p + 1) <=> Earlier(k, j, l, p) \/ (k = l /\ j = p)
         /\ \A m, i \in Nat : Earlier(l, p, k, j) /\ Earlier(k, j, m, i) => Earlier(l, p, m, i)
BY DEF Earlier

\* The new call agrees with what any other worker called at the same place: that
\* worker has called the site if it is behind it, and nothing else in its stead.
LEMMA CallAgrees ==
  ASSUME HybridInv, NEW r \in Ranks, CallStep(r), NEW q \in Ranks,
         NEW n \in DOMAIN calls[q], n = Len(calls[r]) + 1
  PROVE  calls[q][n].layer = layer[r] /\ calls[q][n].phase = phase[r]
<1> DEFINE l == layer[r]
           p == phase[r]
           k == calls[q][n].layer
           j == calls[q][n].phase
           e == layer[q]
           f == phase[q]
<1>1. TypeOK /\ Recorded /\ Increasing /\ Behind /\ Complete /\ SameCalls
  BY DEF HybridInv
<1>2. /\ l \in Nat /\ p \in 1..13 /\ k \in Nat /\ j \in 1..13 /\ e \in Nat /\ f \in 1..13
      /\ n \in Nat /\ DOMAIN calls[q] = 1..Len(calls[q])
      /\ DOMAIN calls[r] = 1..Len(calls[r])
      /\ Len(calls[q]) \in Nat /\ Len(calls[r]) \in Nat
  BY <1>1, Sites
<1>3. /\ r \notin busy \cup failed /\ CallSite(l, p) /\ CallSite(k, j)
      /\ l \in 0..(Passes - 1) /\ k \in 0..(Passes - 1)
      /\ p \in Metadata..Logits /\ j \in Metadata..Logits
  BY <1>1 DEF CallStep, Stands, Recorded, CallSite
<1>4. \A m \in DOMAIN calls[r] : Earlier(calls[r][m].layer, calls[r][m].phase, l, p)
  BY <1>1, <1>3 DEF Behind
<1>5. Earlier(k, j, l, p) =>
        \E m \in DOMAIN calls[r] : calls[r][m].layer = k /\ calls[r][m].phase = j
  BY <1>1, <1>3 DEF Complete
<1>6. Earlier(l, p, e, f) =>
        \E m \in DOMAIN calls[q] : calls[q][m].layer = l /\ calls[q][m].phase = p
  BY <1>1, <1>3 DEF Complete
<1>7. Earlier(k, j, e, f + 1) \/ Earlier(k, j, e, f)
  BY <1>1 DEF Behind
<1>8. \A m \in DOMAIN calls[q] :
        /\ m < n => Earlier(calls[q][m].layer, calls[q][m].phase, k, j)
        /\ n < m => Earlier(k, j, calls[q][m].layer, calls[q][m].phase)
  BY <1>1 DEF Increasing
<1>9. \A m \in DOMAIN calls[q] \cap DOMAIN calls[r] :
        calls[q][m].layer = calls[r][m].layer /\ calls[q][m].phase = calls[r][m].phase
  BY <1>1 DEF SameCalls, SameCall
<1>10. k = calls[q][n].layer /\ j = calls[q][n].phase
  OBVIOUS
<1> HIDE DEF l, p, k, j, e, f
<1>11. p \in Nat /\ j \in Nat /\ f \in Nat
  BY <1>2
<1>12. ~Earlier(k, j, l, p)
  <2>1. SUFFICES ASSUME Earlier(k, j, l, p)
                 PROVE  FALSE
    OBVIOUS
  <2>2. PICK m \in DOMAIN calls[r] : calls[r][m].layer = k /\ calls[r][m].phase = j
    BY <1>5, <2>1
  <2>3. m \in DOMAIN calls[q] /\ m < n
    BY <1>2, <2>2
  <2>4. calls[q][m].layer = k /\ calls[q][m].phase = j
    BY <1>9, <2>2, <2>3
  <2>5. Earlier(k, j, k, j)
    BY <1>8, <2>3, <2>4
  <2>6. QED
    BY <1>2, <1>11, <2>5, Order
<1>13. ~Earlier(l, p, k, j)
  <2>1. SUFFICES ASSUME Earlier(l, p, k, j)
                 PROVE  FALSE
    OBVIOUS
  <2>2. Earlier(k, j, e, f) \/ (k = e /\ j = f)
    BY <1>2, <1>7, <1>11, Order
  <2>3. Earlier(l, p, e, f)
    <3>1. CASE Earlier(k, j, e, f)
      BY <1>2, <1>11, <2>1, <3>1 DEF Earlier
    <3>2. CASE k = e /\ j = f
      BY <2>1, <3>2
    <3>3. QED
      BY <2>2, <3>1, <3>2
  <2>4. PICK m \in DOMAIN calls[q] : calls[q][m].layer = l /\ calls[q][m].phase = p
    BY <1>6, <2>3
  <2>5. m # n
    <3>1. SUFFICES ASSUME m = n
                   PROVE  FALSE
      OBVIOUS
    <3>2. k = l /\ j = p
      BY <1>10, <2>4, <3>1
    <3>3. Earlier(l, p, l, p)
      BY <2>1, <3>2
    <3>4. QED
      BY <1>2, <1>11, <3>3 DEF Earlier
  <2>6. ~(n < m)
    <3>1. SUFFICES ASSUME n < m
                   PROVE  FALSE
      OBVIOUS
    <3>2. Earlier(k, j, l, p)
      BY <1>8, <2>4, <3>1
    <3>3. QED
      BY <1>12, <3>2
  <2>7. m \in DOMAIN calls[r]
    BY <1>2, <2>4, <2>5, <2>6
  <2>8. calls[r][m].layer = l /\ calls[r][m].phase = p
    BY <1>9, <2>4, <2>7
  <2>9. Earlier(l, p, l, p)
    BY <1>4, <2>7, <2>8
  <2>10. QED
    BY <1>2, <1>11, <2>9, Order
<1>14. k = l /\ j = p
  BY <1>2, <1>11, <1>12, <1>13, Order
<1>15. QED
  BY <1>14 DEF l, p, k, j

\* What Recorded says of the next state, in terms of the present configuration.
LEMMA RecordedNext ==
  ASSUME config' = config,
         \A q \in Ranks : \A n \in DOMAIN calls'[q] :
            /\ CallSite(calls'[q][n].layer, calls'[q][n].phase)
            /\ calls'[q][n].op = OpAt(calls'[q][n].layer, calls'[q][n].phase)
            /\ calls'[q][n].root = RootAt(calls'[q][n].layer, calls'[q][n].phase)
  PROVE  Recorded'
BY DEF Recorded, CallSite, Meets, OpAt, RootAt, EmbedsTogether, Moves, Owner, IsMoE,
       IsDraft, Ends, Packed, Boundary

\* After a call, every conjunct of the invariant holds again.
LEMMA CallKeeps ==
  ASSUME HybridInv, TypeOK', NEW r \in Ranks, CallStep(r)
  PROVE  HybridInv'
<1> DEFINE e == Len(calls[r]) + 1
<1>1. TypeOK /\ Recorded /\ Increasing /\ Behind /\ Complete /\ Waiting /\ Informed
      /\ Announced /\ SameCalls
  BY DEF HybridInv
<1>2. /\ UNCHANGED <<config, layer, phase, failed, mm>> /\ busy' = busy \cup {r}
      /\ r \notin busy /\ r \notin failed /\ layer[r] < Passes
      /\ \A q \in Ranks : q # r => calls'[q] = calls[q]
      /\ DOMAIN calls'[r] = 1..e /\ DOMAIN calls[r] = 1..Len(calls[r])
      /\ Len(calls[r]) \in Nat /\ Len(calls'[r]) = e
      /\ \A n \in DOMAIN calls[r] : n \in Nat /\ calls'[r][n] = calls[r][n]
      /\ calls'[r][e].op = OpAt(layer[r], phase[r])
      /\ calls'[r][e].root = RootAt(layer[r], phase[r])
      /\ calls'[r][e].layer = layer[r] /\ calls'[r][e].phase = phase[r]
      /\ phase[r] = Metadata /\ r = config.mmOwner => calls'[r][e].value = <<config.encoder, 0>>
  BY <1>1, Called
<1>3. e \in Nat /\ \A n \in DOMAIN calls'[r] : n \in DOMAIN calls[r] \/ n = e
  BY <1>2
<1>4. layer[r] \in Nat /\ phase[r] \in Nat
  BY <1>1, Sites
<1>5. CallSite(layer[r], phase[r])
  BY DEF CallStep
<1> HIDE DEF e
<1>6. Recorded'
  <2>1. SUFFICES ASSUME NEW q \in Ranks, NEW n \in DOMAIN calls'[q]
                 PROVE  /\ CallSite(calls'[q][n].layer, calls'[q][n].phase)
                        /\ calls'[q][n].op = OpAt(calls'[q][n].layer, calls'[q][n].phase)
                        /\ calls'[q][n].root = RootAt(calls'[q][n].layer, calls'[q][n].phase)
    BY <1>2, RecordedNext
  <2>2. CASE q = r /\ n = e
    BY <1>2, <1>5, <2>2
  <2>3. CASE ~(q = r /\ n = e)
    BY <1>1, <1>2, <1>3, <2>1, <2>3 DEF Recorded
  <2>4. QED
    BY <2>2, <2>3
<1>7. Increasing'
  <2>1. SUFFICES ASSUME NEW q \in Ranks, NEW m \in DOMAIN calls'[q], NEW n \in DOMAIN calls'[q],
                        m < n
                 PROVE  Earlier(calls'[q][m].layer, calls'[q][m].phase,
                                calls'[q][n].layer, calls'[q][n].phase)
    BY DEF Increasing, Earlier
  <2>2. CASE q # r
    BY <1>1, <1>2, <2>1, <2>2 DEF Increasing
  <2>3. CASE q = r /\ n # e
    <3>1. n \in DOMAIN calls[r] /\ m \in DOMAIN calls[r]
      BY <1>2, <1>3, <2>1, <2>3 DEF e
    <3>2. QED
      BY <1>1, <1>2, <2>1, <2>3, <3>1 DEF Increasing
  <2>4. CASE q = r /\ n = e
    <3>1. m \in DOMAIN calls[r]
      BY <1>2, <1>3, <2>1, <2>4
    <3>2. Earlier(calls[r][m].layer, calls[r][m].phase, layer[r], phase[r])
      BY <1>1, <1>2, <3>1 DEF Behind
    <3>3. QED
      BY <1>2, <2>4, <3>1, <3>2
  <2>5. QED
    BY <2>2, <2>3, <2>4
<1>8. Behind'
  <2>1. SUFFICES ASSUME NEW q \in Ranks, NEW n \in DOMAIN calls'[q]
                 PROVE  IF q \in busy' \cup failed'
                        THEN Earlier(calls'[q][n].layer, calls'[q][n].phase,
                                     layer'[q], phase'[q] + 1)
                        ELSE Earlier(calls'[q][n].layer, calls'[q][n].phase,
                                     layer'[q], phase'[q])
    BY DEF Behind, Earlier
  <2>2. CASE q # r
    <3>1. calls'[q] = calls[q] /\ layer'[q] = layer[q] /\ phase'[q] = phase[q]
          /\ (q \in busy' \cup failed' <=> q \in busy \cup failed)
      BY <1>2, <2>2
    <3>2. QED
      BY <1>1, <2>1, <3>1 DEF Behind
  <2>3. CASE q = r /\ n = e
    BY <1>2, <1>4, <2>3 DEF Earlier
  <2>4. CASE q = r /\ n # e
    <3>1. n \in DOMAIN calls[r]
      BY <1>3, <2>1, <2>4
    <3>2. Earlier(calls[r][n].layer, calls[r][n].phase, layer[r], phase[r])
      BY <1>1, <1>2, <3>1 DEF Behind
    <3>3. calls[r][n].layer \in Nat /\ calls[r][n].phase \in 1..13
      BY <1>1, <3>1, Sites
    <3>4. Earlier(calls[r][n].layer, calls[r][n].phase, layer[r], phase[r] + 1)
      BY <1>4, <3>2, <3>3 DEF Earlier
    <3>5. QED
      BY <1>2, <2>4, <3>1, <3>4
  <2>5. QED
    BY <2>2, <2>3, <2>4
<1>9. Complete'
  <2>1. SUFFICES ASSUME NEW q \in Ranks, NEW l \in 0..(Passes - 1), NEW p \in Metadata..Logits,
                        CallSite(l, p)', Earlier(l, p, layer'[q], phase'[q])
                 PROVE  \E n \in DOMAIN calls'[q] :
                            calls'[q][n].layer = l /\ calls'[q][n].phase = p
    BY DEF Complete, Earlier
  <2>2. CallSite(l, p) /\ Earlier(l, p, layer[q], phase[q])
    BY <1>2, <2>1, SitesFixed
  <2>3. PICK n \in DOMAIN calls[q] : calls[q][n].layer = l /\ calls[q][n].phase = p
    BY <1>1, <2>2 DEF Complete
  <2>4. n \in DOMAIN calls'[q] /\ calls'[q][n] = calls[q][n]
    <3>1. CASE q # r
      BY <1>2, <2>3, <3>1
    <3>2. CASE q = r
      BY <1>2, <2>3, <3>2 DEF e
    <3>3. QED
      BY <3>1, <3>2
  <2>5. QED
    BY <2>3, <2>4
<1>10. Waiting'
  <2>1. SUFFICES ASSUME NEW q \in busy'
                 PROVE  /\ q \notin failed' /\ layer'[q] < Passes /\ Len(calls'[q]) > 0
                        /\ calls'[q][Len(calls'[q])].layer = layer'[q]
                        /\ calls'[q][Len(calls'[q])].phase = phase'[q]
    BY DEF Waiting, LastCall
  <2>2. CASE q = r
    BY <1>2, <2>2 DEF e
  <2>3. CASE q # r
    BY <1>1, <1>2, <2>1, <2>3 DEF Waiting, LastCall, TypeOK
  <2>4. QED
    BY <2>2, <2>3
<1>11. Informed'
  BY <1>1, <1>2 DEF Informed
<1>12. Announced'
  <2>1. config.mmOwner \in Ranks
    BY <1>1, OwnersAreRanks DEF TypeOK
  <2>2. SUFFICES ASSUME NEW n \in DOMAIN calls'[config.mmOwner],
                        calls'[config.mmOwner][n].phase = Metadata
                 PROVE  calls'[config.mmOwner][n].value = <<config.encoder, 0>>
    BY <1>2 DEF Announced
  <2>3. CASE config.mmOwner = r /\ n = e
    BY <1>2, <2>2, <2>3
  <2>4. CASE ~(config.mmOwner = r /\ n = e)
    BY <1>1, <1>2, <1>3, <2>1, <2>2, <2>4 DEF Announced
  <2>5. QED
    BY <2>3, <2>4
<1>13. SameCalls'
  <2>1. \A q \in Ranks : \A n \in DOMAIN calls[q] : n = e =>
            calls[q][n].layer = layer[r] /\ calls[q][n].phase = phase[r]
    BY CallAgrees DEF e
  <2>2. \A q \in Ranks : \A n \in DOMAIN calls[q] : n = e => SameCall(calls[q][n], calls'[r][e])
    BY <1>1, <1>2, <2>1 DEF Recorded, SameCall
  <2>3. SUFFICES ASSUME NEW s \in Ranks, NEW q \in Ranks,
                        NEW n \in DOMAIN calls'[s] \cap DOMAIN calls'[q]
                 PROVE  SameCall(calls'[s][n], calls'[q][n])
    BY DEF SameCalls, SameCall
  <2>4. CASE n = e
    <3>1. CASE s = r /\ q = r
      BY <3>1 DEF SameCall
    <3>2. CASE s = r /\ q # r
      BY <1>2, <2>2, <2>3, <2>4, <3>2 DEF SameCall
    <3>3. CASE s # r /\ q = r
      BY <1>2, <2>2, <2>3, <2>4, <3>3 DEF SameCall
    <3>4. CASE s # r /\ q # r
      BY <1>1, <1>2, <2>3, <3>4 DEF SameCalls
    <3>5. QED
      BY <3>1, <3>2, <3>3, <3>4
  <2>5. CASE n # e
    <3>1. /\ n \in DOMAIN calls[s] /\ calls'[s][n] = calls[s][n]
          /\ n \in DOMAIN calls[q] /\ calls'[q][n] = calls[q][n]
      BY <1>2, <1>3, <2>3, <2>5
    <3>2. QED
      BY <1>1, <3>1 DEF SameCalls
  <2>6. QED
    BY <2>4, <2>5
<1>14. QED
  BY <1>6, <1>7, <1>8, <1>9, <1>10, <1>11, <1>12, <1>13 DEF HybridInv

-----------------------------------------------------------------------------
(* A return, a failure or a local step: nobody's calls change.             *)

\* What is about the calls alone stays true.
LEMMA CallsKept ==
  ASSUME HybridInv, UNCHANGED <<config, calls>>
  PROVE  Recorded' /\ Increasing' /\ Announced' /\ SameCalls'
<1>1. Recorded /\ Increasing /\ Announced /\ SameCalls
  BY DEF HybridInv
<1>2. Recorded'
  <2>1. \A q \in Ranks : \A n \in DOMAIN calls'[q] :
            /\ CallSite(calls'[q][n].layer, calls'[q][n].phase)
            /\ calls'[q][n].op = OpAt(calls'[q][n].layer, calls'[q][n].phase)
            /\ calls'[q][n].root = RootAt(calls'[q][n].layer, calls'[q][n].phase)
    BY <1>1 DEF Recorded
  <2>2. QED
    BY <2>1, RecordedNext
<1>3. Increasing' /\ Announced' /\ SameCalls'
  BY <1>1 DEF Increasing, Announced, SameCalls, Earlier, SameCall
<1>4. QED
  BY <1>2, <1>3

\* Moving on puts exactly the site left behind it.
LEMMA AdvanceOrder ==
  ASSUME TypeOK, NEW r \in Ranks, Advance(r)
  PROVE  /\ \A k \in Nat, j \in 1..13 :
              Earlier(k, j, layer'[r], phase'[r]) <=>
                  Earlier(k, j, layer[r], phase[r]) \/ (k = layer[r] /\ j = phase[r])
         /\ \A q \in Ranks : q # r => layer'[q] = layer[q] /\ phase'[q] = phase[q]
         /\ ~(layer'[r] = 0 /\ phase'[r] = Metadata)
         /\ layer'[r] = 0 /\ phase'[r] = Encoded => layer[r] = 0 /\ phase[r] = Metadata
<1>1. /\ layer \in [Ranks -> 0..Passes] /\ phase \in [Ranks -> Metadata..Logits]
      /\ layer[r] \in Nat /\ phase[r] \in 1..13
  BY Sites DEF TypeOK
<1>2. CASE phase[r] = Logits
  <2>1. /\ layer'[r] = layer[r] + 1 /\ phase'[r] = 1 /\ phase[r] = 13
        /\ \A q \in Ranks : q # r => layer'[q] = layer[q] /\ phase'[q] = phase[q]
    BY <1>1, <1>2, Phases DEF Advance
  <2>2. QED
    BY <1>1, <2>1, Phases DEF Earlier
<1>3. CASE phase[r] # Logits
  <2>1. /\ layer'[r] = layer[r] /\ phase'[r] = phase[r] + 1
        /\ \A q \in Ranks : q # r => layer'[q] = layer[q] /\ phase'[q] = phase[q]
    BY <1>1, <1>3 DEF Advance
  <2>2. QED
    BY <1>1, <2>1, Phases DEF Earlier
<1>4. QED
  BY <1>2, <1>3

\* After a worker has moved on, out of a call or past a site without one.
LEMMA MoveKeeps ==
  ASSUME HybridInv, TypeOK', NEW r \in Ranks, ReturnStep(r) \/ LocalStep(r)
  PROVE  HybridInv'
<1>1. TypeOK /\ Behind /\ Complete /\ Waiting /\ Informed
  BY DEF HybridInv
<1>2. Advance(r) /\ UNCHANGED <<config, calls, failed>>
  BY DEF ReturnStep, LocalStep
<1>3. Recorded' /\ Increasing' /\ Announced' /\ SameCalls'
  BY <1>2, CallsKept
<1>4. /\ \A k \in Nat, j \in 1..13 :
              Earlier(k, j, layer'[r], phase'[r]) <=>
                  Earlier(k, j, layer[r], phase[r]) \/ (k = layer[r] /\ j = phase[r])
      /\ \A q \in Ranks : q # r => layer'[q] = layer[q] /\ phase'[q] = phase[q]
      /\ ~(layer'[r] = 0 /\ phase'[r] = Metadata)
      /\ layer'[r] = 0 /\ phase'[r] = Encoded => layer[r] = 0 /\ phase[r] = Metadata
  BY <1>1, <1>2, AdvanceOrder
<1>5. /\ r \notin busy' /\ r \notin failed /\ layer[r] < Passes
      /\ \A q \in Ranks : q # r => (q \in busy' <=> q \in busy) /\ mm'[q] = mm[q]
  BY <1>1 DEF ReturnStep, LocalStep, Stands, Waiting
<1>6. /\ layer[r] \in Nat /\ layer[r] \in 0..(Passes - 1) /\ phase[r] \in 1..13
      /\ DOMAIN calls[r] = 1..Len(calls[r]) /\ Len(calls[r]) \in Nat
      /\ \A n \in DOMAIN calls[r] : calls[r][n].layer \in Nat /\ calls[r][n].phase \in 1..13
  BY <1>1, <1>5, Sites, Bounds
<1>7. Behind'
  <2>1. SUFFICES ASSUME NEW q \in Ranks, NEW n \in DOMAIN calls[q]
                 PROVE  IF q \in busy' \cup failed
                        THEN Earlier(calls[q][n].layer, calls[q][n].phase,
                                     layer'[q], phase'[q] + 1)
                        ELSE Earlier(calls[q][n].layer, calls[q][n].phase,
                                     layer'[q], phase'[q])
    BY <1>2 DEF Behind, Earlier
  <2>2. CASE q # r
    BY <1>1, <1>4, <1>5, <2>1, <2>2 DEF Behind
  <2>3. CASE q = r
    <3>1. \/ Earlier(calls[r][n].layer, calls[r][n].phase, layer[r], phase[r] + 1)
          \/ Earlier(calls[r][n].layer, calls[r][n].phase, layer[r], phase[r])
      BY <1>1, <2>1, <2>3 DEF Behind
    <3>2. calls[r][n].layer \in Nat /\ calls[r][n].phase \in 1..13
      BY <1>6, <2>1, <2>3
    <3>3. \/ Earlier(calls[r][n].layer, calls[r][n].phase, layer[r], phase[r])
          \/ calls[r][n].layer = layer[r] /\ calls[r][n].phase = phase[r]
      <4> DEFINE k == calls[r][n].layer
                 j == calls[r][n].phase
                 l == layer[r]
                 p == phase[r]
      <4>1. k \in Nat /\ j \in 1..13 /\ l \in Nat /\ p \in 1..13
        BY <1>6, <3>2
      <4>2. Earlier(k, j, l, p + 1) \/ Earlier(k, j, l, p)
        BY <3>1
      <4> HIDE DEF k, j, l, p
      <4>3. Earlier(k, j, l, p) \/ (k = l /\ j = p)
        BY <4>1, <4>2 DEF Earlier
      <4>4. QED
        BY <4>3 DEF k, j, l, p
    <3>4. QED
      BY <1>4, <1>5, <2>3, <3>2, <3>3
  <2>4. QED
    BY <2>2, <2>3
<1>8. Complete'
  <2>1. SUFFICES ASSUME NEW q \in Ranks, NEW l \in 0..(Passes - 1), NEW p \in Metadata..Logits,
                        CallSite(l, p)', Earlier(l, p, layer'[q], phase'[q])
                 PROVE  \E n \in DOMAIN calls[q] : calls[q][n].layer = l /\ calls[q][n].phase = p
    BY <1>2 DEF Complete, Earlier
  <2>2. CallSite(l, p)
    BY <1>2, <2>1, SitesFixed
  <2>3. CASE Earlier(l, p, layer[q], phase[q])
    BY <1>1, <2>2, <2>3 DEF Complete
  <2>4. CASE ~Earlier(l, p, layer[q], phase[q])
    <3>1. q = r /\ l = layer[r] /\ p = phase[r]
      BY <1>4, <2>1, <2>4, Phases, Bounds
    <3>2. ReturnStep(r)
      BY <2>2, <3>1 DEF LocalStep
    <3>3. Len(calls[r]) > 0 /\ calls[r][Len(calls[r])].layer = layer[r]
          /\ calls[r][Len(calls[r])].phase = phase[r]
      BY <1>1, <3>2 DEF ReturnStep, Waiting, LastCall
    <3>4. Len(calls[r]) \in DOMAIN calls[r]
      BY <1>6, <3>3
    <3>5. QED
      BY <3>1, <3>3, <3>4
  <2>5. QED
    BY <2>3, <2>4
<1>9. Waiting'
  <2>1. SUFFICES ASSUME NEW q \in busy'
                 PROVE  /\ q \notin failed /\ layer'[q] < Passes /\ Len(calls[q]) > 0
                        /\ calls[q][Len(calls[q])].layer = layer'[q]
                        /\ calls[q][Len(calls[q])].phase = phase'[q]
    BY <1>2 DEF Waiting, LastCall
  <2>2. q \in Ranks /\ q # r
    BY <1>5, <2>1 DEF TypeOK
  <2>3. QED
    BY <1>1, <1>4, <1>5, <2>1, <2>2 DEF Waiting, LastCall
<1>10. Informed'
  <2>1. SUFFICES ASSUME NEW q \in Ranks, layer'[q] = 0
                 PROVE  /\ phase'[q] = Metadata => mm'[q] = Junk
                        /\ phase'[q] = Encoded =>
                             (mm'[q] = <<"ok", 0>> <=> config.encoder = "ok")
    BY <1>2 DEF Informed
  <2>2. CASE q # r
    BY <1>1, <1>4, <1>5, <2>1, <2>2 DEF Informed
  <2>3. CASE q = r /\ phase'[r] # Encoded
    BY <1>4, <2>1, <2>3
  <2>4. CASE q = r /\ phase'[r] = Encoded
    <3>1. layer[r] = 0 /\ phase[r] = Metadata
      BY <1>4, <2>1, <2>4
    <3>2. phase'[r] # Metadata
      BY <2>4, Phases
    <3>3. CASE ReturnStep(r)
      <4>1. mm'[r] = <<config.encoder, 0>>
        BY <3>1, <3>3 DEF ReturnStep
      <4>2. QED
        BY <2>4, <3>2, <4>1
    <3>4. CASE LocalStep(r)
      <4>1. mm'[r] = Junk
        BY <1>1, <3>1, <3>4 DEF LocalStep, Informed
      <4>2. Junk # <<"ok", 0>>
        BY DEF Junk
      <4>3. ~CallSite(0, Metadata)
        BY <3>1, <3>4 DEF LocalStep
      <4>4. config.encoder = "none"
        BY <1>6, <3>1, <4>3, Phases DEF CallSite, Meets
      <4>5. QED
        BY <2>4, <3>2, <4>1, <4>2, <4>4
    <3>5. QED
      BY <3>3, <3>4
  <2>5. QED
    BY <2>2, <2>3, <2>4
<1>11. QED
  BY <1>3, <1>7, <1>8, <1>9, <1>10 DEF HybridInv

\* After a worker's forward has raised.
LEMMA RaiseKeeps ==
  ASSUME HybridInv, TypeOK', NEW r \in Ranks, RaiseStep(r)
  PROVE  HybridInv'
<1>1. TypeOK /\ Behind /\ Complete /\ Waiting /\ Informed
  BY DEF HybridInv
<1>2. /\ UNCHANGED <<config, calls, layer, phase, mm>>
      /\ r \in busy /\ busy' = busy \ {r} /\ failed' = failed \cup {r}
  BY DEF RaiseStep
<1>3. Recorded' /\ Increasing' /\ Announced' /\ SameCalls'
  BY <1>2, CallsKept
<1>4. busy' \cup failed' = busy \cup failed
  BY <1>2
<1>5. Behind'
  BY <1>1, <1>2, <1>4 DEF Behind, Earlier
<1>6. Complete'
  <2>1. SUFFICES ASSUME NEW q \in Ranks, NEW l \in 0..(Passes - 1), NEW p \in Metadata..Logits,
                        CallSite(l, p)', Earlier(l, p, layer[q], phase[q])
                 PROVE  \E n \in DOMAIN calls[q] : calls[q][n].layer = l /\ calls[q][n].phase = p
    BY <1>2 DEF Complete, Earlier
  <2>2. CallSite(l, p)
    BY <1>2, <2>1, SitesFixed
  <2>3. QED
    BY <1>1, <2>1, <2>2 DEF Complete
<1>7. Waiting'
  BY <1>1, <1>2 DEF Waiting, LastCall
<1>8. Informed'
  BY <1>1, <1>2 DEF Informed
<1>9. QED
  BY <1>3, <1>5, <1>6, <1>7, <1>8 DEF HybridInv

\* After a step of a side stream, or none.
LEMMA RestKeeps ==
  ASSUME HybridInv, TypeOK', RestStep
  PROVE  HybridInv'
<1>1. TypeOK /\ Behind /\ Complete /\ Waiting /\ Informed
  BY DEF HybridInv
<1>2. UNCHANGED <<config, calls, layer, phase, busy, failed, mm>>
  BY DEF RestStep, position
<1>3. Recorded' /\ Increasing' /\ Announced' /\ SameCalls'
  BY <1>2, CallsKept
<1>4. Behind' /\ Waiting' /\ Informed'
  BY <1>1, <1>2 DEF Behind, Earlier, Waiting, LastCall, Informed
<1>5. Complete'
  <2>1. SUFFICES ASSUME NEW q \in Ranks, NEW l \in 0..(Passes - 1), NEW p \in Metadata..Logits,
                        CallSite(l, p)', Earlier(l, p, layer[q], phase[q])
                 PROVE  \E n \in DOMAIN calls[q] : calls[q][n].layer = l /\ calls[q][n].phase = p
    BY <1>2 DEF Complete, Earlier
  <2>2. CallSite(l, p)
    BY <1>2, <2>1, SitesFixed
  <2>3. QED
    BY <1>1, <2>1, <2>2 DEF Complete
<1>6. QED
  BY <1>3, <1>4, <1>5 DEF HybridInv

-----------------------------------------------------------------------------
(* The theorems.                                                           *)

\* Before the step nobody has called anything and nobody stands behind a site.
LEMMA HybridInit ==
  ASSUME Init
  PROVE  HybridInv
<1>1. \A r \in Ranks : calls[r] = <<>> /\ layer[r] = 0 /\ phase[r] = 1 /\ mm[r] = Junk
  BY Phases DEF Init
<1>2. TypeOK
  <2>1. <<>> \in Seq(CallRecord) /\ 0 \in 0..Passes /\ Metadata \in Metadata..Logits
    BY Phases, Bounds
  <2>2. QED
    BY <2>1, ValueOf DEF Init, TypeOK
<1>3. \A r \in Ranks : DOMAIN calls[r] = {}
  BY <1>1
<1>4. Recorded /\ Increasing /\ Behind /\ SameCalls
  BY <1>3 DEF Recorded, Increasing, Behind, SameCalls
<1>5. Announced
  BY <1>2, <1>3, OwnersAreRanks DEF Announced, TypeOK
<1>6. Complete
  BY <1>1, Phases, Bounds DEF Complete, Earlier
<1>7. Waiting
  BY DEF Init, Waiting
<1>8. Informed
  BY <1>1, Phases DEF Informed
<1>9. QED
  BY <1>2, <1>4, <1>5, <1>6, <1>7, <1>8 DEF HybridInv

\* The workers' programs, whatever the partition, the switches and the encoder
\* batch, keep HybridInv: each worker has called exactly the sites behind it
\* (hybrid_parallel.py, dots3_hybrid_parallel.py, dots3_hybrid_multimodal.py).
THEOREM HybridInvariant == Spec => []HybridInv
<1>1. Init => HybridInv
  BY HybridInit
<1>2. HybridInv /\ [Next]_vars => HybridInv'
  <2>1. SUFFICES ASSUME HybridInv, [Next]_vars
                 PROVE  HybridInv'
    OBVIOUS
  <2>2. /\ TypeOK'
        /\ \/ \E r \in Ranks : CallStep(r) \/ ReturnStep(r) \/ RaiseStep(r) \/ LocalStep(r)
           \/ RestStep
    BY <2>1, StepKinds
  <2>3. CASE \E r \in Ranks : CallStep(r) \/ ReturnStep(r) \/ RaiseStep(r) \/ LocalStep(r)
    BY <2>1, <2>2, <2>3, CallKeeps, MoveKeeps, RaiseKeeps
  <2>4. CASE RestStep
    BY <2>1, <2>2, <2>4, RestKeeps
  <2>5. QED
    BY <2>2, <2>3, <2>4
<1>3. QED
  BY <1>1, <1>2, PTL DEF Spec

\* "All ranks execute identical collective sequences" (hybrid_parallel.py:5): for
\* every number of workers, layers and draft passes and every partition, the n-th
\* collectives of two workers are the same operation on the same tensor.
THEOREM CollectivesAgree == Spec => []SameCalls
<1>1. HybridInv => SameCalls
  BY DEF HybridInv
<1>2. QED
  BY <1>1, HybridInvariant, PTL

-----------------------------------------------------------------------------
(***************************************************************************)
(* What flows through a forward step.                                      *)
(*                                                                         *)
(* The argument: the invariant says, for each place in a pass, which of a  *)
(* worker's tensors hold what the undistributed model computes.  A         *)
(* collective delivers what its sources put in, since HybridInv has shown  *)
(* that the calls it matches are of one site (ResultRight), and whoever is *)
(* a source holds the right tensor there, or will not send (one lemma per  *)
(* send, one per return or local step).                                    *)
(***************************************************************************)

Owns(r) == r = Owner(layer[r])
Past(r, p) == phase[r] > p

\* The encoder batch, as a worker knows it ahead of the merge, and that those
\* that go on may.
EncoderOK(r) ==
  /\ layer[r] > 0 \/ Past(r, Metadata) => config.encoder \in {"none", "ok", "empty"}
  /\ layer[r] = 0 /\ phase[r] = Metadata => mm[r] = Junk
  /\ layer[r] = 0 /\ phase[r] = Encoded =>
       mm[r] = IF config.encoder = "none" THEN Junk ELSE <<config.encoder, 0>>
  /\ layer[r] = 0 /\ phase[r] = Embedding => Merged(r)

\* What a draft pass starts from: the last pass' sample, and its embedding.
SampleOK(r) ==
  /\ layer[r] >= Layers => token[r] = <<"logits", layer[r] - 1>>
  /\ layer[r] >= Layers /\ ~ Boundary /\ Past(r, Embedding) => emb[r] = <<"embed", layer[r]>>

\* The residual stream ahead of attention: who holds its two tensors in a layer
\* of the target but the first, ...
BeforeAttention(r) == 0 < layer[r] /\ layer[r] < Layers /\ ~ Past(r, Attention)
HoldsHidden(r) ==
  BeforeAttention(r) /\ (r = Owner(layer[r] - 1) \/ (Moves(layer[r]) /\ Past(r, ToNextHidden)))
HoldsResidual(r) ==
  BeforeAttention(r) /\ (r = Owner(layer[r] - 1) \/ (Moves(layer[r]) /\ Past(r, ToNextResidual)))

\* ... and what they hold; in the first layer and in draft passes everybody does.
StreamIn(r) ==
  /\ layer[r] = 0 /\ ~ Past(r, Finish) => r \notin inArena
  /\ layer[r] = 0 /\ Past(r, Embedding) /\ ~ Past(r, Attention) => hid[r] = <<"out", 0>>
  /\ HoldsHidden(r) => Hidden(r) = <<"out", layer[r]>>
  /\ HoldsResidual(r) => res[r] = <<"res", layer[r]>>
  /\ layer[r] >= Layers /\ ~ Past(r, Attention) => Hidden(r) = <<"final", layer[r] - 1>>

\* The residual stream from attention on, on the owner, and for everybody once
\* it is final.
StreamOut(r) ==
  /\ Owns(r) /\ Past(r, Attention) => res[r] = <<"res", layer[r] + 1>>
  /\ Owns(r) /\ Past(r, Attention) /\ ~ Past(r, Finish) =>
       r \notin inArena /\ hid[r] = <<"mid", layer[r]>>
  /\ Owns(r) /\ Past(r, Finish) /\ (Ends(layer[r]) => phase[r] = Final /\ r \notin busy) =>
       Hidden(r) = <<"out", layer[r] + 1>>
  /\ Ends(layer[r]) /\ phase[r] = Logits => Hidden(r) = <<"final", layer[r]>>

\* The routed inputs of an MoE layer: all of them on the owner since it sent the
\* first, and elsewhere as they arrive.
Routing(r) == IsMoE(layer[r]) /\ ~ Past(r, Experts)
                /\ (Past(r, Activation) \/ (Owns(r) /\ phase[r] = Activation /\ r \in busy))
RoutedOK(r) ==
  Routing(r) =>
    /\ act[r] = <<"act", layer[r]>>
    /\ Owns(r) \/ Packed \/ Past(r, RouteIds) => ids[r] = <<"ids", layer[r]>>
    /\ Owns(r) \/ Packed \/ Past(r, RouteWeights) => wts[r] = <<"weights", layer[r]>>

\* The owner's two halves of an MoE layer's output.
Preparing(r) == Owns(r) /\ IsMoE(layer[r]) /\ ~ Past(r, Finish)
                  /\ (Past(r, Activation) \/ (phase[r] = Activation /\ r \in busy))
ExpertsOK(r) ==
  /\ r \in side => Preparing(r)
  /\ Preparing(r) => r \in side \/ shared[r] = <<"shared", layer[r]>>
  /\ Owns(r) /\ IsMoE(layer[r]) /\ phase[r] = Finish => red[r] = <<"sum", layer[r]>>

WorkerOK(r) == /\ EncoderOK(r) /\ SampleOK(r) /\ StreamIn(r) /\ StreamOut(r)
               /\ RoutedOK(r) /\ ExpertsOK(r)

\* All of it, and that only an encoder's failure makes a worker raise.
DataInv ==
  /\ SourcesSequential
  /\ \A r \in Ranks : WorkerOK(r)
  /\ failed # {} => config.encoder \in {"zero_width", "error"}

-----------------------------------------------------------------------------
(* Where the invariant looks.                                              *)

\* The partition does not change.
LEMMA OwnersFixed ==
  ASSUME config' = config
  PROVE  \A k : Owner(k)' = Owner(k)
BY DEF Owner

\* A worker whose own tensors and place do not change stays right.
LEMMA OthersKeep ==
  ASSUME config' = config, NEW q \in Ranks, WorkerOK(q),
         layer'[q] = layer[q], phase'[q] = phase[q], q \in busy' <=> q \in busy,
         mm'[q] = mm[q], emb'[q] = emb[q], hid'[q] = hid[q], res'[q] = res[q], red'[q] = red[q],
         q \in inArena' <=> q \in inArena, act'[q] = act[q], ids'[q] = ids[q], wts'[q] = wts[q],
         q \in side' <=> q \in side, shared'[q] = shared[q], token'[q] = token[q]
  PROVE  WorkerOK(q)'
<1>1. \A k : Owner(k)' = Owner(k)
  BY OwnersFixed
<1>2. EncoderOK(q)'
  BY DEF WorkerOK, EncoderOK, Past, Merged
<1>3. SampleOK(q)'
  BY <1>1 DEF WorkerOK, SampleOK, Past, Boundary
<1>4. StreamIn(q)'
  BY <1>1 DEF WorkerOK, StreamIn, HoldsHidden, HoldsResidual, BeforeAttention, Past, Hidden, Moves
<1>5. StreamOut(q)'
  BY <1>1 DEF WorkerOK, StreamOut, Past, Owns, Hidden, Ends
<1>6. RoutedOK(q)'
  BY <1>1 DEF WorkerOK, RoutedOK, Routing, Past, Owns, IsMoE, Packed
<1>7. ExpertsOK(q)'
  BY <1>1 DEF WorkerOK, ExpertsOK, Preparing, Past, Owns, IsMoE
<1>8. QED
  BY <1>2, <1>3, <1>4, <1>5, <1>6, <1>7 DEF WorkerOK

-----------------------------------------------------------------------------
(* Collectives deliver what their sources put in.                          *)

\* What a call is expected to carry depends on its site alone, and that only
\* through the configuration.
LEMMA ExpectedOfSite ==
  ASSUME NEW c, NEW d, c.layer = d.layer, c.phase = d.phase
  PROVE  Expected(c) = Expected(d)
BY DEF Expected

\* The same, one line per site.
LEMMA ExpectedAt ==
  ASSUME NEW c
  PROVE  /\ c.phase = Metadata => Expected(c) = <<config.encoder, 0>>
         /\ c.phase = Encoded => Expected(c) = <<"encoded", 0>>
         /\ c.phase = Embedding => Expected(c) = <<"embed", c.layer>>
         /\ c.phase = ToNextHidden => Expected(c) = <<"out", c.layer>>
         /\ c.phase = ToNextResidual => Expected(c) = <<"res", c.layer>>
         /\ c.phase = Activation => Expected(c) = <<IF Packed THEN "packed" ELSE "act", c.layer>>
         /\ c.phase = RouteIds => Expected(c) = <<"ids", c.layer>>
         /\ c.phase = RouteWeights => Expected(c) = <<"weights", c.layer>>
         /\ c.phase = Experts => Expected(c) = <<"partial", c.layer>>
         /\ c.phase = Final => Expected(c) = <<"final", c.layer>>
         /\ c.phase = Logits => Expected(c) = <<"logits", c.layer>>
BY Phases DEF Expected

\* A worker's own call is the one of the site it stands at.
LEMMA OwnCall ==
  ASSUME HybridInv, NEW r \in busy
  PROVE  /\ r \in Ranks /\ Len(calls[r]) \in DOMAIN calls[r] /\ Len(calls[r]) \in Nat
         /\ LastCall(r) = calls[r][Len(calls[r])]
         /\ LastCall(r).layer = layer[r] /\ LastCall(r).phase = phase[r]
         /\ LastCall(r).op = OpAt(layer[r], phase[r])
         /\ LastCall(r).root = RootAt(layer[r], phase[r])
         /\ CallSite(layer[r], phase[r])
<1>1. r \in Ranks /\ Len(calls[r]) > 0 /\ calls[r] \in Seq(CallRecord)
  BY DEF HybridInv, TypeOK, Waiting
<1>2. Len(calls[r]) \in DOMAIN calls[r] /\ Len(calls[r]) \in Nat
  BY <1>1
<1>3. LastCall(r).layer = layer[r] /\ LastCall(r).phase = phase[r]
  BY DEF HybridInv, Waiting
<1>4. LastCall(r) = calls[r][Len(calls[r])]
  BY DEF LastCall
<1>5. /\ CallSite(LastCall(r).layer, LastCall(r).phase)
      /\ LastCall(r).op = OpAt(LastCall(r).layer, LastCall(r).phase)
      /\ LastCall(r).root = RootAt(LastCall(r).layer, LastCall(r).phase)
  BY <1>1, <1>2, <1>4 DEF HybridInv, Recorded
<1>6. QED
  BY <1>1, <1>2, <1>3, <1>4, <1>5

\* What a worker receives is what the undistributed model computes there; of a
\* reduction only its root receives anything.
LEMMA ResultRight ==
  ASSUME HybridInv, SourcesSequential, NEW r \in busy, Arrived(r),
         OpAt(layer[r], phase[r]) = "reduce" => r = RootAt(layer[r], phase[r])
  PROVE  Result(r) = Expected(LastCall(r))
<1> DEFINE n == Len(calls[r])
           c == LastCall(r)
<1>1. /\ r \in Ranks /\ n \in DOMAIN calls[r] /\ n \in Nat /\ n >= 1
      /\ c = calls[r][n] /\ c.op = OpAt(layer[r], phase[r])
      /\ c.root = RootAt(layer[r], phase[r]) /\ CallSite(layer[r], phase[r])
  BY OwnCall DEF HybridInv, Waiting
<1>2. c.root \in Ranks /\ c.op \in {"broadcast", "reduce", "gather"}
  BY <1>1, SiteType DEF HybridInv
<1>3. \A q \in Ranks : Len(calls[q]) >= n => n \in DOMAIN calls[q]
  BY <1>1, Sites DEF HybridInv
<1>4. \A q \in Ranks : n \in DOMAIN calls[q] =>
        SameCall(c, calls[q][n]) /\ Expected(calls[q][n]) = Expected(c)
  <2>1. SUFFICES ASSUME NEW q \in Ranks, n \in DOMAIN calls[q]
                 PROVE  SameCall(c, calls[q][n]) /\ Expected(calls[q][n]) = Expected(c)
    OBVIOUS
  <2>2. SameCall(c, calls[q][n])
    BY <1>1, <2>1 DEF HybridInv, SameCalls
  <2>3. QED
    BY <2>2, ExpectedOfSite DEF SameCall
<1> HIDE DEF n, c
<1>5. CASE c.op = "broadcast"
  <2>1. n \in DOMAIN calls[c.root]
    BY <1>2, <1>3, <1>5 DEF Arrived, Awaited, n, c
  <2>2. SameCall(c, calls[c.root][n]) /\ Expected(calls[c.root][n]) = Expected(c)
    BY <1>2, <1>4, <2>1
  <2>3. c.root \in Sources(calls[c.root][n])
    BY <1>5, <2>2 DEF Sources, SameCall
  <2>4. calls[c.root][n].value = Expected(c)
    BY <1>2, <2>1, <2>2, <2>3 DEF SourcesSequential
  <2>5. Result(r) = calls[c.root][n].value
    BY <1>5, <2>2 DEF Result, Kernel, n, c
  <2>6. QED
    BY <2>4, <2>5 DEF c
<1>6. CASE c.op # "broadcast"
  <2>1. \A q \in Ranks : n \in DOMAIN calls[q]
    <3>1. Awaited(r) = Ranks
      BY <1>1, <1>2, <1>6 DEF Awaited, c
    <3>2. QED
      BY <1>3, <3>1 DEF Arrived, n
  <2>2. \A q \in Ranks : SameCall(c, calls[q][n]) /\ calls[q][n].value = Expected(c)
    <3>1. SUFFICES ASSUME NEW q \in Ranks
                   PROVE  SameCall(c, calls[q][n]) /\ calls[q][n].value = Expected(c)
      OBVIOUS
    <3>2. SameCall(c, calls[q][n]) /\ Expected(calls[q][n]) = Expected(c)
      BY <1>4, <2>1
    <3>3. q \in Sources(calls[q][n])
      BY <1>6, <3>2 DEF Sources, SameCall
    <3>4. QED
      BY <2>1, <3>2, <3>3 DEF SourcesSequential
  <2>3. c.value = Expected(c)
    BY <1>1, <2>2
  <2>4. Result(r) = c.value
    BY <1>6, <2>2, <2>3 DEF Result, Kernel, n, c
  <2>5. QED
    BY <2>3, <2>4 DEF c
<1>7. QED
  BY <1>5, <1>6

\* A worker that has received has what its site is for.
LEMMA Received ==
  ASSUME HybridInv, SourcesSequential, NEW r \in Ranks, NEW p, Returns(r, p)
  PROVE  /\ r \in busy /\ phase[r] = p /\ layer[r] \in Nat /\ layer[r] < Passes
         /\ busy' = busy \ {r} /\ config' = config /\ calls' = calls /\ CallSite(layer[r], p)
         /\ p = Metadata => Result(r) = <<config.encoder, 0>>
         /\ p = Encoded => Result(r) = <<"encoded", 0>>
         /\ p = Embedding => Result(r) = <<"embed", layer[r]>>
         /\ p = ToNextHidden => Result(r) = <<"out", layer[r]>>
         /\ p = ToNextResidual => Result(r) = <<"res", layer[r]>>
         /\ p = Activation => Result(r) = <<IF Packed THEN "packed" ELSE "act", layer[r]>>
         /\ p = RouteIds => Result(r) = <<"ids", layer[r]>>
         /\ p = RouteWeights => Result(r) = <<"weights", layer[r]>>
         /\ p = Experts /\ r = Owner(layer[r]) => Result(r) = <<"partial", layer[r]>>
         /\ p = Final => Result(r) = <<"final", layer[r]>>
         /\ p = Logits => Result(r) = <<"logits", layer[r]>>
<1>1. /\ r \in busy /\ phase[r] = p /\ Arrived(r)
      /\ busy' = busy \ {r} /\ config' = config /\ calls' = calls
  BY DEF Returns
<1>2. /\ LastCall(r).layer = layer[r] /\ LastCall(r).phase = p /\ CallSite(layer[r], p)
  BY <1>1, OwnCall
<1>3. layer[r] \in Nat /\ layer[r] < Passes
  BY <1>1, Sites DEF HybridInv, Waiting
<1>4. p # Experts => OpAt(layer[r], p) # "reduce"
  BY DEF OpAt
<1>5. RootAt(layer[r], Experts) = Owner(layer[r])
  BY Table
<1>6. p # Experts \/ r = Owner(layer[r]) => Result(r) = Expected(LastCall(r))
  BY <1>1, <1>4, <1>5, ResultRight
<1>7. QED
  BY <1>1, <1>2, <1>3, <1>6, ExpectedAt, Phases

-----------------------------------------------------------------------------
(* Calls.                                                                  *)

\* What a call is expected to carry does not change.
LEMMA ExpectedFixed ==
  ASSUME config' = config
  PROVE  \A c : Expected(c)' = Expected(c)
BY DEF Expected, Packed

\* A call keeps the sources right if its own source puts in what is expected.
LEMMA CallRight ==
  ASSUME TypeOK, SourcesSequential, NEW r \in Ranks, NEW op, NEW root, NEW v,
         Call(r, op, root, v),
         (op = "broadcast" => r = root) =>
           v = Expected([op |-> op, root |-> root, layer |-> layer[r], phase |-> phase[r],
                         value |-> v])
  PROVE  SourcesSequential'
<1> DEFINE c == [op |-> op, root |-> root, layer |-> layer[r], phase |-> phase[r], value |-> v]
<1>1. calls' = [calls EXCEPT ![r] = Append(calls[r], c)] /\ config' = config
  BY DEF Call
<1>2. calls[r] \in Seq(CallRecord) /\ calls \in [Ranks -> Seq(CallRecord)]
  BY DEF TypeOK
<1>3. c.op = op /\ c.root = root /\ c.value = v
  OBVIOUS
<1>4. r \in Sources(c) => c.value = Expected(c)
  BY <1>3 DEF Sources
<1> HIDE DEF c
<1>5. SUFFICES ASSUME NEW q \in Ranks, NEW n \in DOMAIN calls'[q], q \in Sources(calls'[q][n])
               PROVE  calls'[q][n].value = Expected(calls'[q][n])
  BY <1>1, ExpectedFixed DEF SourcesSequential, Sources
<1>6. CASE q = r
  <2>1. calls'[r] = Append(calls[r], c)
    BY <1>1, <1>2
  <2>2. n \in 1..(Len(calls[r]) + 1) /\ Len(calls[r]) \in Nat
    BY <1>2, <1>6, <2>1
  <2>3. CASE n = Len(calls[r]) + 1
    <3>1. calls'[q][n] = c
      BY <1>2, <1>6, <2>1, <2>3
    <3>2. QED
      BY <1>4, <1>5, <1>6, <3>1
  <2>4. CASE n # Len(calls[r]) + 1
    <3>1. calls'[q][n] = calls[q][n] /\ n \in DOMAIN calls[q]
      BY <1>2, <1>6, <2>1, <2>2, <2>4
    <3>2. QED
      BY <1>5, <3>1 DEF SourcesSequential
  <2>5. QED
    BY <2>3, <2>4
<1>7. CASE q # r
  <2>1. calls'[q] = calls[q]
    BY <1>1, <1>2, <1>7
  <2>2. QED
    BY <1>5, <2>1 DEF SourcesSequential
<1>8. QED
  BY <1>6, <1>7

\* Inside a call a worker is as right as it was when it called, if calling changed
\* none of its tensors; the routed inputs of an owner are of the call's making.
LEMMA InsideCall ==
  ASSUME config' = config, NEW r \in Ranks, WorkerOK(r), phase[r] # Activation,
         layer'[r] = layer[r], phase'[r] = phase[r], r \in busy',
         mm'[r] = mm[r], emb'[r] = emb[r], hid'[r] = hid[r], res'[r] = res[r], red'[r] = red[r],
         r \in inArena' <=> r \in inArena, act'[r] = act[r], ids'[r] = ids[r], wts'[r] = wts[r],
         r \in side' <=> r \in side, shared'[r] = shared[r], token'[r] = token[r]
  PROVE  WorkerOK(r)'
<1>1. \A k : Owner(k)' = Owner(k)
  BY OwnersFixed
<1>2. EncoderOK(r)'
  BY DEF WorkerOK, EncoderOK, Past, Merged
<1>3. SampleOK(r)'
  BY <1>1 DEF WorkerOK, SampleOK, Past, Boundary
<1>4. StreamIn(r)'
  BY <1>1 DEF WorkerOK, StreamIn, HoldsHidden, HoldsResidual, BeforeAttention, Past, Hidden, Moves
<1>5. StreamOut(r)'
  BY <1>1 DEF WorkerOK, StreamOut, Past, Owns, Hidden, Ends
<1>6. RoutedOK(r)'
  BY <1>1 DEF WorkerOK, RoutedOK, Routing, Past, Owns, IsMoE, Packed
<1>7. ExpertsOK(r)'
  BY <1>1 DEF WorkerOK, ExpertsOK, Preparing, Past, Owns, IsMoE
<1>8. QED
  BY <1>2, <1>3, <1>4, <1>5, <1>6, <1>7 DEF WorkerOK

\* So does everybody else, when one worker calls.
LEMMA PlainCall ==
  ASSUME TypeOK, DataInv, NEW r \in Ranks, NEW op, NEW root, NEW v, Call(r, op, root, v),
         phase[r] # Activation,
         UNCHANGED <<mm, emb, hid, res, inArena, red, routed, stream, token>>,
         (op = "broadcast" => r = root) =>
           v = Expected([op |-> op, root |-> root, layer |-> layer[r], phase |-> phase[r],
                         value |-> v])
  PROVE  DataInv'
<1>1. UNCHANGED <<config, layer, phase, failed>> /\ busy' = busy \cup {r}
  BY DEF Call
<1>2. SourcesSequential'
  BY CallRight DEF DataInv
<1>3. ASSUME NEW q \in Ranks, q # r
      PROVE  WorkerOK(q)'
  BY <1>1, <1>3, OthersKeep DEF DataInv, routed, stream
<1>4. WorkerOK(r)'
  BY <1>1, InsideCall DEF DataInv, routed, stream
<1>5. QED
  BY <1>1, <1>2, <1>3, <1>4 DEF DataInv

\* Every send but the two that compute as they call.
PlainSends(r) ==
  \/ SendMetadata(r) \/ SendEncoded(r) \/ LookupEmbedding(r) \/ SendHidden(r) \/ SendResidual(r)
  \/ SendRouteIds(r) \/ SendRouteWeights(r) \/ RunExperts(r) \/ SendLogits(r)

\* Where a worker calls: its place, and that the code applies there.
LEMMA Calling ==
  ASSUME TypeOK, NEW r \in Ranks, NEW p, At(r, p)
  PROVE  /\ phase[r] = p /\ layer[r] \in Nat /\ layer[r] < Passes /\ r \notin busy
         /\ Meets(layer[r], p, mm[r])
BY Bounds DEF At, Stands, Applies, TypeOK

\* A source puts in what the undistributed model computes there.
LEMMA PlainSendStep ==
  ASSUME HybridInv, DataInv, NEW r \in Ranks, PlainSends(r)
  PROVE  DataInv'
<1> DEFINE l == layer[r]
           Record(p, op, root, v) ==
             [op |-> op, root |-> root, layer |-> l, phase |-> p, value |-> v]
<1>0. TypeOK /\ WorkerOK(r)
  BY DEF HybridInv, DataInv
<1>1. CASE SendMetadata(r)
  <2> DEFINE v == IF r = config.mmOwner THEN <<config.encoder, 0>> ELSE Junk
  <2>1. At(r, Metadata) /\ Call(r, "broadcast", config.mmOwner, v)
        /\ UNCHANGED <<mm, emb, hid, res, inArena, red, routed, stream, token>>
    BY <1>1 DEF SendMetadata
  <2>2. phase[r] = Metadata /\ Metadata # Activation
    BY <1>0, <2>1, Calling, Phases
  <2>3. r = config.mmOwner => v = Expected(Record(Metadata, "broadcast", config.mmOwner, v))
    BY ExpectedAt
  <2> HIDE DEF v
  <2>4. QED
    BY <1>0, <2>1, <2>2, <2>3, PlainCall
<1>2. CASE SendEncoded(r)
  <2> DEFINE v == IF r = config.mmOwner THEN <<"encoded", 0>> ELSE Junk
  <2>1. At(r, Encoded) /\ Call(r, "broadcast", config.mmOwner, v)
        /\ UNCHANGED <<mm, emb, hid, res, inArena, red, routed, stream, token>>
    BY <1>2 DEF SendEncoded
  <2>2. phase[r] = Encoded /\ Encoded # Activation
    BY <1>0, <2>1, Calling, Phases
  <2>3. r = config.mmOwner => v = Expected(Record(Encoded, "broadcast", config.mmOwner, v))
    BY ExpectedAt
  <2> HIDE DEF v
  <2>4. QED
    BY <1>0, <2>1, <2>2, <2>3, PlainCall
<1>3. CASE LookupEmbedding(r)
  <2>1. At(r, Embedding) /\ UNCHANGED <<mm, emb, hid, res, inArena, red, routed, stream, token>>
    BY <1>3 DEF LookupEmbedding
  <2>2. /\ phase[r] = Embedding /\ Embedding # Activation /\ l \in Nat
        /\ l = 0 \/ (l >= Layers /\ ~ Boundary)
    BY <1>0, <2>1, Calling, Phases DEF Meets, EmbedsTogether, IsDraft
  <2>3. Embed(r, l) = <<"embed", l>>
    BY <1>0, <2>2 DEF Embed, Kernel, WorkerOK, SampleOK
  <2>4. CASE Boundary
    <3> DEFINE v == IF r = config.embedOwner THEN Embed(r, l) ELSE Junk
    <3>1. Call(r, "broadcast", config.embedOwner, v)
      BY <1>3, <2>4 DEF LookupEmbedding
    <3>2. r = config.embedOwner =>
            v = Expected(Record(Embedding, "broadcast", config.embedOwner, v))
      BY <2>3, ExpectedAt
    <3> HIDE DEF v
    <3>3. QED
      BY <1>0, <2>1, <2>2, <3>1, <3>2, PlainCall
  <2>5. CASE ~ Boundary
    <3>1. Call(r, "gather", 0, Embed(r, l))
      BY <1>3, <2>5 DEF LookupEmbedding
    <3>2. Embed(r, l) = Expected(Record(Embedding, "gather", 0, Embed(r, l)))
      BY <2>3, ExpectedAt
    <3>3. QED
      BY <1>0, <2>1, <2>2, <3>1, <3>2, PlainCall
  <2>6. QED
    BY <2>4, <2>5
<1>4. CASE SendHidden(r)
  <2>1. At(r, ToNextHidden) /\ Call(r, "broadcast", Owner(l - 1), Hidden(r))
        /\ UNCHANGED <<mm, emb, hid, res, inArena, red, routed, stream, token>>
    BY <1>4 DEF SendHidden
  <2>2. /\ phase[r] = ToNextHidden /\ ToNextHidden # Activation /\ l \in Nat
        /\ 0 < l /\ l < Layers
    BY <1>0, <2>1, Calling, Phases DEF Meets, Moves
  <2>3. r = Owner(l - 1) => Hidden(r) = <<"out", l>>
    BY <1>0, <2>2, Phases DEF WorkerOK, StreamIn, HoldsHidden, BeforeAttention, Past
  <2>4. r = Owner(l - 1) =>
          Hidden(r) = Expected(Record(ToNextHidden, "broadcast", Owner(l - 1), Hidden(r)))
    BY <2>3, ExpectedAt
  <2>5. QED
    BY <1>0, <2>1, <2>2, <2>4, PlainCall
<1>5. CASE SendResidual(r)
  <2>1. At(r, ToNextResidual) /\ Call(r, "broadcast", Owner(l - 1), res[r])
        /\ UNCHANGED <<mm, emb, hid, res, inArena, red, routed, stream, token>>
    BY <1>5 DEF SendResidual
  <2>2. /\ phase[r] = ToNextResidual /\ ToNextResidual # Activation /\ l \in Nat
        /\ 0 < l /\ l < Layers
    BY <1>0, <2>1, Calling, Phases DEF Meets, Moves
  <2>3. r = Owner(l - 1) => res[r] = <<"res", l>>
    BY <1>0, <2>2, Phases DEF WorkerOK, StreamIn, HoldsResidual, BeforeAttention, Past
  <2>4. r = Owner(l - 1) =>
          res[r] = Expected(Record(ToNextResidual, "broadcast", Owner(l - 1), res[r]))
    BY <2>3, ExpectedAt
  <2>5. QED
    BY <1>0, <2>1, <2>2, <2>4, PlainCall
<1>6. CASE SendRouteIds(r)
  <2>1. At(r, RouteIds) /\ Call(r, "broadcast", Owner(l), ids[r])
        /\ UNCHANGED <<mm, emb, hid, res, inArena, red, routed, stream, token>>
    BY <1>6 DEF SendRouteIds
  <2>2. phase[r] = RouteIds /\ RouteIds # Activation /\ IsMoE(l)
    BY <1>0, <2>1, Calling, Phases DEF Meets
  <2>3. r = Owner(l) => ids[r] = <<"ids", l>>
    BY <1>0, <2>2, Phases DEF WorkerOK, RoutedOK, Routing, Owns, Past
  <2>4. r = Owner(l) => ids[r] = Expected(Record(RouteIds, "broadcast", Owner(l), ids[r]))
    BY <2>3, ExpectedAt
  <2>5. QED
    BY <1>0, <2>1, <2>2, <2>4, PlainCall
<1>7. CASE SendRouteWeights(r)
  <2>1. At(r, RouteWeights) /\ Call(r, "broadcast", Owner(l), wts[r])
        /\ UNCHANGED <<mm, emb, hid, res, inArena, red, routed, stream, token>>
    BY <1>7 DEF SendRouteWeights
  <2>2. phase[r] = RouteWeights /\ RouteWeights # Activation /\ IsMoE(l)
    BY <1>0, <2>1, Calling, Phases DEF Meets
  <2>3. r = Owner(l) => wts[r] = <<"weights", l>>
    BY <1>0, <2>2, Phases DEF WorkerOK, RoutedOK, Routing, Owns, Past
  <2>4. r = Owner(l) => wts[r] = Expected(Record(RouteWeights, "broadcast", Owner(l), wts[r]))
    BY <2>3, ExpectedAt
  <2>5. QED
    BY <1>0, <2>1, <2>2, <2>4, PlainCall
<1>8. CASE RunExperts(r)
  <2> DEFINE v == Kernel(act[r] = <<"act", l>> /\ ids[r] = <<"ids", l>>
                           /\ wts[r] = <<"weights", l>>, <<"partial", l>>)
  <2>1. At(r, Experts) /\ Call(r, "reduce", Owner(l), v)
        /\ UNCHANGED <<mm, emb, hid, res, inArena, red, routed, stream, token>>
    BY <1>8 DEF RunExperts
  <2>2. phase[r] = Experts /\ Experts # Activation /\ IsMoE(l)
    BY <1>0, <2>1, Calling, Phases DEF Meets
  <2>3. v = <<"partial", l>>
    BY <1>0, <2>2, Phases DEF WorkerOK, RoutedOK, Routing, Past, Kernel
  <2>4. v = Expected(Record(Experts, "reduce", Owner(l), v))
    BY <2>3, ExpectedAt
  <2> HIDE DEF v
  <2>5. QED
    BY <1>0, <2>1, <2>2, <2>4, PlainCall
<1>9. CASE SendLogits(r)
  <2>1. At(r, Logits) /\ UNCHANGED <<mm, emb, hid, res, inArena, red, routed, stream, token>>
    BY <1>9 DEF SendLogits
  <2>2. phase[r] = Logits /\ Logits # Activation /\ Ends(l)
    BY <1>0, <2>1, Calling, Phases DEF Meets
  <2>3. Project(r, l) = <<"logits", l>>
    BY <1>0, <2>2 DEF Project, Kernel, WorkerOK, StreamOut
  <2>4. CASE Boundary
    <3> DEFINE v == IF r = config.headOwner THEN Project(r, l) ELSE Junk
    <3>1. Call(r, "broadcast", config.headOwner, v)
      BY <1>9, <2>4 DEF SendLogits
    <3>2. r = config.headOwner => v = Expected(Record(Logits, "broadcast", config.headOwner, v))
      BY <2>3, ExpectedAt
    <3> HIDE DEF v
    <3>3. QED
      BY <1>0, <2>1, <2>2, <3>1, <3>2, PlainCall
  <2>5. CASE ~ Boundary
    <3>1. Call(r, "gather", 0, Project(r, l))
      BY <1>9, <2>5 DEF SendLogits
    <3>2. Project(r, l) = Expected(Record(Logits, "gather", 0, Project(r, l)))
      BY <2>3, ExpectedAt
    <3>3. QED
      BY <1>0, <2>1, <2>2, <3>1, <3>2, PlainCall
  <2>6. QED
    BY <2>4, <2>5
<1>10. QED
  BY <1>1, <1>2, <1>3, <1>4, <1>5, <1>6, <1>7, <1>8, <1>9 DEF PlainSends

\* The owner's routing, packing and shared expert start from what attention left.
LEMMA ActivationStep ==
  ASSUME HybridInv, DataInv, NEW r \in Ranks, SendActivation(r)
  PROVE  DataInv'
<1> DEFINE l == layer[r]
           v == IF Packed
                THEN Kernel(act'[r] = <<"act", l>> /\ ids'[r] = <<"ids", l>>
                              /\ wts'[r] = <<"weights", l>>, <<"packed", l>>)
                ELSE act'[r]
           Own == r = Owner(l)
<1> USE Phases
<1>0. TypeOK /\ WorkerOK(r) /\ SourcesSequential
  BY DEF HybridInv, DataInv
<1>1. /\ At(r, Activation) /\ UNCHANGED <<mm, emb, hid, res, inArena, red, token>>
      /\ Call(r, "broadcast", Owner(l), v)
  BY DEF SendActivation
<1>2. phase[r] = Activation /\ l \in Nat /\ IsMoE(l)
  BY <1>0, <1>1, Calling DEF Meets
<1>3. UNCHANGED <<config, layer, phase, failed>> /\ busy' = busy \cup {r}
  BY <1>1 DEF Call
<1>4. Own => Hidden(r) = <<"mid", l>> /\ hid[r] = <<"mid", l>>
  BY <1>0, <1>2 DEF WorkerOK, StreamOut, Owns, Past, Hidden
<1>5. Own => /\ act'[r] = <<"act", l>> /\ ids'[r] = <<"ids", l>> /\ wts'[r] = <<"weights", l>>
             /\ r \in side' \/ shared'[r] = <<"shared", l>>
             /\ \A q \in Ranks : q # r => /\ act'[q] = act[q] /\ ids'[q] = ids[q]
                                          /\ wts'[q] = wts[q]
                                          /\ (q \in side' <=> q \in side) /\ shared'[q] = shared[q]
  <2>1. Own => Prepare(r, l)
    BY DEF SendActivation
  <2>2. QED
    BY <1>0, <1>4, <2>1 DEF Prepare, Kernel, TypeOK
<1>6. ~ Own => UNCHANGED <<act, ids, wts, side, shared>>
  BY DEF SendActivation, routed, stream
<1>7. Own => v = Expected([op |-> "broadcast", root |-> Owner(l), layer |-> l,
                           phase |-> phase[r], value |-> v])
  BY <1>2, <1>5, ExpectedAt DEF Kernel
<1> HIDE DEF v
<1>8. SourcesSequential'
  BY <1>0, <1>1, <1>7, CallRight
<1>9. ASSUME NEW q \in Ranks, q # r
      PROVE  WorkerOK(q)'
  <2>1. WorkerOK(q)
    BY DEF DataInv
  <2>2. QED
    BY <1>1, <1>3, <1>5, <1>6, <1>9, <2>1, OthersKeep
<1>10. WorkerOK(r)'
  <2>1. \A k : Owner(k)' = Owner(k)
    BY <1>3, OwnersFixed
  <2>2. layer'[r] = l /\ phase'[r] = 7 /\ r \in busy'
    BY <1>2, <1>3
  <2>3. EncoderOK(r)' /\ SampleOK(r)'
    BY <1>0, <1>1, <1>3 DEF WorkerOK, EncoderOK, SampleOK, Past, Merged, Boundary
  <2>4. StreamIn(r)'
    BY <1>0, <1>1, <1>3, <2>1 DEF WorkerOK, StreamIn, HoldsHidden, HoldsResidual, BeforeAttention,
                                  Past, Hidden, Moves
  <2>5. StreamOut(r)'
    BY <1>0, <1>1, <1>3, <2>1 DEF WorkerOK, StreamOut, Past, Owns, Hidden, Ends
  <2>6. RoutedOK(r)'
    BY <1>5, <2>1, <2>2 DEF RoutedOK, Routing, Past, Owns
  <2>7. r \in side' => Own
    BY <1>0, <1>6 DEF WorkerOK, ExpertsOK, Preparing, Owns
  <2>8. ExpertsOK(r)'
    BY <1>2, <1>5, <2>1, <2>2, <2>7 DEF ExpertsOK, Preparing, Past, Owns, IsMoE
  <2>9. QED
    BY <2>3, <2>4, <2>5, <2>6, <2>8 DEF WorkerOK
<1>11. QED
  BY <1>3, <1>8, <1>9, <1>10 DEF DataInv

\* A write through hidden states is seen by its worker and by nobody else.
LEMMA Written ==
  ASSUME TypeOK, NEW r \in Ranks, NEW v, WriteHidden(r, v), inArena' = inArena
  PROVE  /\ Hidden(r)' = v
         /\ \A q \in Ranks : q # r => hid'[q] = hid[q] /\ red'[q] = red[q]
BY DEF TypeOK, WriteHidden, Hidden

\* The owner normalizes the residual stream its last layer left.
LEMMA FinalStep ==
  ASSUME HybridInv, DataInv, NEW r \in Ranks, SendFinal(r)
  PROVE  DataInv'
<1> DEFINE l == layer[r]
           Own == r = Owner(l)
           normed == Kernel(Hidden(r) = <<"out", l + 1>> /\ res[r] = <<"res", l + 1>>,
                            <<"final", l>>)
           v == IF Own THEN normed ELSE Hidden(r)
<1> USE Phases
<1>0. TypeOK /\ WorkerOK(r) /\ SourcesSequential
  BY DEF HybridInv, DataInv
<1>1. /\ At(r, Final) /\ UNCHANGED <<mm, emb, res, inArena, routed, stream, token>>
      /\ Call(r, "broadcast", Owner(l), v)
      /\ IF Own THEN WriteHidden(r, normed) ELSE UNCHANGED <<hid, red>>
  BY DEF SendFinal
<1>2. phase[r] = Final /\ l \in Nat /\ Ends(l) /\ r \notin busy
  BY <1>0, <1>1, Calling DEF Meets
<1>3. UNCHANGED <<config, layer, phase, failed>> /\ busy' = busy \cup {r}
  BY <1>1 DEF Call
<1>4. Own => normed = <<"final", l>>
  BY <1>0, <1>2 DEF WorkerOK, StreamOut, Owns, Past, Kernel
<1>5. Own => v = Expected([op |-> "broadcast", root |-> Owner(l), layer |-> l,
                           phase |-> phase[r], value |-> v])
  BY <1>2, <1>4, ExpectedAt
<1>6. \A q \in Ranks : q # r => hid'[q] = hid[q] /\ red'[q] = red[q]
  BY <1>0, <1>1, Written
<1> HIDE DEF v, normed
<1>7. SourcesSequential'
  BY <1>0, <1>1, <1>5, CallRight
<1>8. ASSUME NEW q \in Ranks, q # r
      PROVE  WorkerOK(q)'
  <2>1. WorkerOK(q)
    BY DEF DataInv
  <2>2. QED
    BY <1>1, <1>3, <1>6, <1>8, <2>1, OthersKeep DEF routed, stream
<1>9. WorkerOK(r)'
  <2>1. \A k : Owner(k)' = Owner(k)
    BY <1>3, OwnersFixed
  <2>2. layer'[r] = l /\ phase'[r] = 12 /\ r \in busy' /\ phase[r] = 12
    BY <1>2, <1>3
  <2>3. EncoderOK(r)' /\ SampleOK(r)'
    BY <1>0, <1>1, <1>3 DEF WorkerOK, EncoderOK, SampleOK, Past, Merged, Boundary
  <2>4. StreamIn(r)'
    BY <1>2, <2>2 DEF StreamIn, HoldsHidden, HoldsResidual, BeforeAttention, Past
  <2>5. StreamOut(r)'
    BY <1>0, <1>1, <1>2, <2>1, <2>2 DEF WorkerOK, StreamOut, Past, Owns, Ends
  <2>6. RoutedOK(r)' /\ ExpertsOK(r)'
    BY <1>0, <1>1, <2>1, <2>2
       DEF WorkerOK, RoutedOK, Routing, ExpertsOK, Preparing, Past, Owns, routed, stream
  <2>7. QED
    BY <2>3, <2>4, <2>5, <2>6 DEF WorkerOK
<1>10. QED
  BY <1>3, <1>7, <1>8, <1>9 DEF DataInv

-----------------------------------------------------------------------------
(* Returns and local steps.                                                *)

\* Moving on to the next phase, or to the next pass.
LEMMA MovesOn ==
  ASSUME TypeOK, NEW r \in Ranks, Advance(r)
  PROVE  /\ phase[r] # Logits => layer'[r] = layer[r] /\ phase'[r] = phase[r] + 1
         /\ phase[r] = Logits => layer'[r] = layer[r] + 1 /\ phase'[r] = 1
         /\ \A q \in Ranks : q # r => layer'[q] = layer[q] /\ phase'[q] = phase[q]
BY Phases DEF Advance, TypeOK

\* The tensors of the other workers stay.
OthersStay(r) ==
  \A q \in Ranks \ {r} :
    /\ mm'[q] = mm[q] /\ emb'[q] = emb[q] /\ hid'[q] = hid[q] /\ res'[q] = res[q]
    /\ red'[q] = red[q] /\ (q \in inArena' <=> q \in inArena)
    /\ act'[q] = act[q] /\ ids'[q] = ids[q] /\ wts'[q] = wts[q]
    /\ (q \in side' <=> q \in side) /\ shared'[q] = shared[q] /\ token'[q] = token[q]

\* If the worker that moves on is right, so is everything.
LEMMA OneMoves ==
  ASSUME TypeOK, DataInv, NEW r \in Ranks, Advance(r), UNCHANGED <<config, calls, failed>>,
         busy' = busy \ {r}, OthersStay(r), WorkerOK(r)'
  PROVE  DataInv'
<1>1. SourcesSequential'
  BY ExpectedFixed DEF DataInv, SourcesSequential, Sources
<1>2. ASSUME NEW q \in Ranks, q # r
      PROVE  WorkerOK(q)'
  <2>1. WorkerOK(q) /\ layer'[q] = layer[q] /\ phase'[q] = phase[q] /\ (q \in busy' <=> q \in busy)
    BY <1>2, MovesOn DEF DataInv
  <2>2. QED
    BY <1>2, <2>1, OthersKeep DEF OthersStay
<1>3. QED
  BY <1>1, <1>2 DEF DataInv

\* What stays right of a worker that moves on with its inputs and its sample.
LEMMA InputsStay ==
  ASSUME TypeOK, NEW r \in Ranks, WorkerOK(r), Advance(r), config' = config,
         layer[r] \in Nat, phase[r] > Embedding, phase[r] # Logits,
         mm'[r] = mm[r], emb'[r] = emb[r], token'[r] = token[r]
  PROVE  EncoderOK(r)' /\ SampleOK(r)'
<1>1. phase[r] \in Nat
  BY Sites
<1>2. layer'[r] = layer[r] /\ phase'[r] = phase[r] + 1
  BY MovesOn
<1>3. EncoderOK(r)'
  BY <1>1, <1>2, Phases DEF WorkerOK, EncoderOK, Past
<1>4. SampleOK(r)'
  BY <1>1, <1>2, Phases DEF WorkerOK, SampleOK, Past, Boundary
<1>5. QED
  BY <1>3, <1>4

\* The metadata stop everybody, or nobody.
LEMMA MetadataStep ==
  ASSUME HybridInv, DataInv, NEW r \in Ranks, ReadMetadata(r)
  PROVE  DataInv'
<1> USE Phases
<1>0. TypeOK /\ WorkerOK(r) /\ SourcesSequential
  BY DEF HybridInv, DataInv
<1>1. /\ Returns(r, Metadata)
      /\ UNCHANGED <<emb, hid, res, inArena, red, routed, stream, token>>
  BY DEF ReadMetadata
<1>2. /\ r \in busy /\ phase[r] = 1 /\ layer[r] \in Nat /\ layer[r] < Passes
      /\ busy' = busy \ {r} /\ config' = config /\ calls' = calls /\ CallSite(layer[r], Metadata)
      /\ Result(r) = <<config.encoder, 0>>
  BY <1>0, <1>1, Received
<1>3. layer[r] = 0 /\ config.encoder \in {"ok", "empty", "zero_width", "error"}
  BY <1>0, <1>2 DEF CallSite, Meets, TypeOK, Configs
<1>4. CASE config.encoder \in {"ok", "empty"}
  <2>1. mm' = [mm EXCEPT ![r] = <<config.encoder, 0>>] /\ Advance(r) /\ UNCHANGED failed
    BY <1>2, <1>4 DEF ReadMetadata
  <2>2. mm'[r] = <<config.encoder, 0>> /\ OthersStay(r)
    BY <1>0, <1>1, <2>1 DEF TypeOK, OthersStay, routed, stream
  <2>3. layer'[r] = 0 /\ phase'[r] = 2
    BY <1>0, <1>2, <1>3, <2>1, MovesOn
  <2>4. EncoderOK(r)' /\ SampleOK(r)'
    BY <1>2, <1>4, <2>2, <2>3, Bounds DEF EncoderOK, SampleOK, Past
  <2>5. StreamIn(r)' /\ StreamOut(r)'
    BY <1>0, <1>1, <1>2, <1>3, <2>3, Bounds
       DEF WorkerOK, StreamIn, StreamOut, HoldsHidden, HoldsResidual, BeforeAttention, Past
  <2>6. RoutedOK(r)' /\ ExpertsOK(r)'
    BY <1>0, <1>1, <1>2, <2>3
       DEF WorkerOK, RoutedOK, ExpertsOK, Routing, Preparing, Past, routed, stream
  <2>7. WorkerOK(r)'
    BY <2>4, <2>5, <2>6 DEF WorkerOK
  <2>8. QED
    BY <1>0, <1>2, <2>1, <2>2, <2>7, OneMoves
<1>5. CASE config.encoder \notin {"ok", "empty"}
  <2>1. failed' = failed \cup {r} /\ UNCHANGED <<mm, layer, phase>>
    BY <1>2, <1>5 DEF ReadMetadata
  <2>2. ASSUME NEW q \in Ranks, q # r
        PROVE  WorkerOK(q)'
    BY <1>1, <1>2, <2>1, <2>2, OthersKeep DEF DataInv, routed, stream
  <2>3. WorkerOK(r)'
    <3>1. EncoderOK(r)' /\ SampleOK(r)'
      BY <1>0, <1>1, <1>2, <1>3, <2>1, Bounds DEF WorkerOK, EncoderOK, SampleOK, Past
    <3>2. StreamIn(r)' /\ StreamOut(r)'
      BY <1>0, <1>1, <1>2, <1>3, <2>1, Bounds
         DEF WorkerOK, StreamIn, StreamOut, HoldsHidden, HoldsResidual, BeforeAttention, Past
    <3>3. RoutedOK(r)' /\ ExpertsOK(r)'
      BY <1>0, <1>1, <1>2, <2>1
         DEF WorkerOK, RoutedOK, ExpertsOK, Routing, Preparing, Past, routed, stream
    <3>4. QED
      BY <3>1, <3>2, <3>3 DEF WorkerOK
  <2>4. SourcesSequential'
    BY <1>0, <1>2, ExpectedFixed DEF SourcesSequential, Sources
  <2>5. QED
    BY <1>2, <1>3, <1>5, <2>2, <2>3, <2>4 DEF DataInv
<1>6. QED
  BY <1>4, <1>5


\* A worker whose collective completes moves on.
LEMMA Completed ==
  ASSUME HybridInv, NEW r \in Ranks, NEW p, Completes(r, p)
  PROVE  /\ Returns(r, p) /\ Advance(r) /\ UNCHANGED <<config, calls, failed>>
         /\ r \in busy /\ busy' = busy \ {r} /\ r \notin busy' /\ phase[r] = p
         /\ layer[r] \in Nat /\ layer[r] < Passes
         /\ p \in 1..13 /\ p # 6 /\ p # 11 /\ Meets(layer[r], p, <<config.encoder, 0>>)
         /\ p # 13 => layer'[r] = layer[r] /\ phase'[r] = p + 1
         /\ p = 13 => layer'[r] = layer[r] + 1 /\ phase'[r] = 1
         /\ \A k : Owner(k)' = Owner(k)
<1>1. /\ Returns(r, p) /\ Advance(r) /\ UNCHANGED <<config, calls, failed>>
      /\ r \in busy /\ busy' = busy \ {r} /\ phase[r] = p
  BY DEF Completes, Returns
<1>2. layer[r] \in Nat /\ layer[r] < Passes /\ CallSite(layer[r], p)
  BY <1>1, OwnCall, Sites DEF HybridInv, Waiting
<1>3. p \in 1..13 /\ p # 6 /\ p # 11 /\ Meets(layer[r], p, <<config.encoder, 0>>)
  BY <1>2, Phases DEF CallSite
<1>4. /\ p # 13 => layer'[r] = layer[r] /\ phase'[r] = p + 1
      /\ p = 13 => layer'[r] = layer[r] + 1 /\ phase'[r] = 1
  BY <1>1, MovesOn, Phases DEF HybridInv
<1>5. QED
  BY <1>1, <1>2, <1>3, <1>4, OwnersFixed

\* The encoder outputs arrive: the worker can merge them.
LEMMA EncodedStep ==
  ASSUME HybridInv, DataInv, NEW r \in Ranks, ReceiveEncoded(r)
  PROVE  DataInv'
<1> USE Phases
<1>0. TypeOK /\ WorkerOK(r) /\ SourcesSequential
  BY DEF HybridInv, DataInv
<1>1. /\ Completes(r, 2) /\ mm' = [mm EXCEPT ![r] = Result(r)]
      /\ UNCHANGED <<emb, hid, res, inArena, red, routed, stream, token>>
  BY DEF ReceiveEncoded
<1>2. layer[r] = 0 /\ phase[r] = 2 /\ config.encoder = "ok"
  BY <1>1, Completed DEF Meets
<1>3. /\ layer'[r] = 0 /\ phase'[r] = 3 /\ config' = config /\ calls' = calls /\ failed' = failed
      /\ Advance(r) /\ busy' = busy \ {r} /\ r \notin busy'
  BY <1>1, <1>2, Completed
<1>4. Result(r) = <<"encoded", 0>>
  BY <1>0, <1>1, Completed, Received
<1>5. mm'[r] = <<"encoded", 0>> /\ OthersStay(r)
  BY <1>0, <1>1, <1>4 DEF TypeOK, OthersStay, routed, stream
<1>6. EncoderOK(r)' /\ SampleOK(r)'
  BY <1>2, <1>3, <1>5, Bounds DEF EncoderOK, SampleOK, Past, Merged
<1>7. StreamIn(r)' /\ StreamOut(r)'
  BY <1>0, <1>1, <1>2, <1>3, Bounds
     DEF WorkerOK, StreamIn, StreamOut, HoldsHidden, HoldsResidual, BeforeAttention, Past
<1>8. RoutedOK(r)' /\ ExpertsOK(r)'
  BY <1>0, <1>1, <1>2, <1>3
     DEF WorkerOK, RoutedOK, ExpertsOK, Routing, Preparing, Past, routed, stream
<1>9. QED
  BY <1>0, <1>3, <1>5, <1>6, <1>7, <1>8, OneMoves DEF WorkerOK

\* The embedding arrives: a target pass starts from it and the encoder outputs.
LEMMA EmbeddingStep ==
  ASSUME HybridInv, DataInv, NEW r \in Ranks, ReceiveEmbedding(r)
  PROVE  DataInv'
<1> DEFINE l == layer[r]
<1> USE Phases
<1>0. TypeOK /\ WorkerOK(r) /\ SourcesSequential
  BY DEF HybridInv, DataInv
<1>1. /\ Completes(r, 3) /\ emb' = [emb EXCEPT ![r] = Result(r)]
      /\ hid' = IF l = 0 THEN [hid EXCEPT ![r] = Kernel(Result(r) = <<"embed", 0>> /\ Merged(r),
                                                        <<"out", 0>>)]
                ELSE hid
      /\ UNCHANGED <<mm, res, inArena, red, routed, stream, token>>
  BY DEF ReceiveEmbedding
<1>2. l \in Nat /\ phase[r] = 3 /\ (l = 0 \/ ~ (l < Layers))
  BY <1>1, Completed, Bounds DEF Meets, EmbedsTogether, IsDraft
<1>3. /\ layer'[r] = l /\ phase'[r] = 4 /\ config' = config /\ calls' = calls /\ failed' = failed
      /\ Advance(r) /\ busy' = busy \ {r} /\ r \notin busy' /\ \A k : Owner(k)' = Owner(k)
  BY <1>1, <1>2, Completed
<1>4. Result(r) = <<"embed", l>>
  BY <1>0, <1>1, Completed, Received
<1>5. /\ emb'[r] = <<"embed", l>> /\ OthersStay(r)
      /\ l # 0 => hid'[r] = hid[r]
      /\ l = 0 /\ Merged(r) => hid'[r] = <<"out", 0>>
  BY <1>0, <1>1, <1>4 DEF TypeOK, OthersStay, routed, stream, Kernel
<1>6. EncoderOK(r)' /\ SampleOK(r)'
  BY <1>0, <1>1, <1>2, <1>3, <1>5 DEF WorkerOK, EncoderOK, SampleOK, Past, Boundary
<1>7. StreamIn(r)' /\ StreamOut(r)'
  BY <1>0, <1>1, <1>2, <1>3, <1>5, Bounds
     DEF WorkerOK, EncoderOK, StreamIn, StreamOut, HoldsHidden, HoldsResidual, BeforeAttention,
         Past, Hidden
<1>8. RoutedOK(r)' /\ ExpertsOK(r)'
  BY <1>0, <1>1, <1>2, <1>3
     DEF WorkerOK, RoutedOK, ExpertsOK, Routing, Preparing, Past, routed, stream
<1>9. QED
  BY <1>0, <1>3, <1>5, <1>6, <1>7, <1>8, OneMoves DEF WorkerOK

\* The previous owner's hidden states arrive.
LEMMA HiddenStep ==
  ASSUME HybridInv, DataInv, NEW r \in Ranks, ReceiveHidden(r)
  PROVE  DataInv'
<1> DEFINE l == layer[r]
<1> USE Phases
<1>0. TypeOK /\ WorkerOK(r) /\ SourcesSequential
  BY DEF HybridInv, DataInv
<1>1. /\ Completes(r, 4) /\ WriteHidden(r, Result(r))
      /\ UNCHANGED <<mm, emb, res, inArena, routed, stream, token>>
  BY DEF ReceiveHidden
<1>2. l \in Nat /\ phase[r] = 4 /\ 0 < l /\ l < Layers
  BY <1>1, Completed DEF Meets, Moves
<1>3. /\ layer'[r] = l /\ phase'[r] = 5 /\ config' = config /\ calls' = calls /\ failed' = failed
      /\ Advance(r) /\ busy' = busy \ {r} /\ r \notin busy' /\ \A k : Owner(k)' = Owner(k)
  BY <1>1, <1>2, Completed
<1>4. Result(r) = <<"out", l>>
  BY <1>0, <1>1, Completed, Received
<1>5. Hidden(r)' = <<"out", l>> /\ OthersStay(r)
  BY <1>0, <1>1, <1>4, Written DEF OthersStay, routed, stream
<1>6. EncoderOK(r)' /\ SampleOK(r)'
  BY <1>0, <1>1, <1>2, <1>3, InputsStay
<1>7. StreamIn(r)' /\ StreamOut(r)'
  BY <1>0, <1>1, <1>2, <1>3, <1>5, Bounds
     DEF WorkerOK, StreamIn, StreamOut, HoldsHidden, HoldsResidual, BeforeAttention, Past
<1>8. RoutedOK(r)' /\ ExpertsOK(r)'
  BY <1>0, <1>1, <1>2, <1>3
     DEF WorkerOK, RoutedOK, ExpertsOK, Routing, Preparing, Past, routed, stream
<1>9. QED
  BY <1>0, <1>3, <1>5, <1>6, <1>7, <1>8, OneMoves DEF WorkerOK

\* Its residual arrives.
LEMMA ResidualStep ==
  ASSUME HybridInv, DataInv, NEW r \in Ranks, ReceiveResidual(r)
  PROVE  DataInv'
<1> DEFINE l == layer[r]
<1> USE Phases
<1>0. TypeOK /\ WorkerOK(r) /\ SourcesSequential
  BY DEF HybridInv, DataInv
<1>1. /\ Completes(r, 5) /\ res' = [res EXCEPT ![r] = Result(r)]
      /\ UNCHANGED <<mm, emb, hid, inArena, red, routed, stream, token>>
  BY DEF ReceiveResidual
<1>2. l \in Nat /\ phase[r] = 5 /\ 0 < l /\ l < Layers
  BY <1>1, Completed DEF Meets, Moves
<1>3. /\ layer'[r] = l /\ phase'[r] = 6 /\ config' = config /\ calls' = calls /\ failed' = failed
      /\ Advance(r) /\ busy' = busy \ {r} /\ r \notin busy' /\ \A k : Owner(k)' = Owner(k)
  BY <1>1, <1>2, Completed
<1>4. Result(r) = <<"res", l>>
  BY <1>0, <1>1, Completed, Received
<1>5. res'[r] = <<"res", l>> /\ OthersStay(r)
  BY <1>0, <1>1, <1>4 DEF TypeOK, OthersStay, routed, stream
<1>6. EncoderOK(r)' /\ SampleOK(r)'
  BY <1>0, <1>1, <1>2, <1>3, InputsStay
<1>7. StreamIn(r)' /\ StreamOut(r)'
  BY <1>0, <1>1, <1>2, <1>3, <1>5, Bounds
     DEF WorkerOK, StreamIn, StreamOut, HoldsHidden, HoldsResidual, BeforeAttention, Past,
         Hidden, Moves
<1>8. RoutedOK(r)' /\ ExpertsOK(r)'
  BY <1>0, <1>1, <1>2, <1>3
     DEF WorkerOK, RoutedOK, ExpertsOK, Routing, Preparing, Past, routed, stream
<1>9. QED
  BY <1>0, <1>3, <1>5, <1>6, <1>7, <1>8, OneMoves DEF WorkerOK

\* A worker that computes and calls nothing moves on.
LEMMA Locally ==
  ASSUME HybridInv, NEW r \in Ranks, NEW p, At(r, p), Advance(r),
         UNCHANGED <<config, busy, failed, calls>>
  PROVE  /\ r \notin busy /\ busy' = busy \ {r} /\ r \notin busy' /\ phase[r] = p
         /\ layer[r] \in Nat /\ layer[r] < Passes
         /\ p # 13 => layer'[r] = layer[r] /\ phase'[r] = p + 1
         /\ p = 13 => layer'[r] = layer[r] + 1 /\ phase'[r] = 1
         /\ \A k : Owner(k)' = Owner(k)
<1>1. phase[r] = p /\ layer[r] \in Nat /\ layer[r] < Passes /\ r \notin busy
  BY Calling DEF HybridInv
<1>2. /\ p # 13 => layer'[r] = layer[r] /\ phase'[r] = p + 1
      /\ p = 13 => layer'[r] = layer[r] + 1 /\ phase'[r] = 1
  BY <1>1, MovesOn, Phases DEF HybridInv
<1>3. QED
  BY <1>1, <1>2, OwnersFixed

\* The owner of a layer attends to what the undistributed model attends to.
LEMMA AttentionInputs ==
  ASSUME TypeOK, NEW r \in Ranks, WorkerOK(r), layer[r] \in Nat, phase[r] = Attention,
         r = Owner(layer[r])
  PROVE  InputsRight(r, layer[r])
<1> DEFINE l == layer[r]
<1> USE Phases
<1>1. CASE l = 0
  BY <1>1, Bounds DEF WorkerOK, StreamIn, Past, InputsRight, IsDraft, Hidden
<1>2. CASE 0 < l /\ l < Layers
  <2>1. HoldsHidden(r) /\ HoldsResidual(r)
    BY <1>2 DEF HoldsHidden, HoldsResidual, BeforeAttention, Moves, Past
  <2>2. Hidden(r) = <<"out", l>> /\ res[r] = <<"res", l>>
    BY <2>1 DEF WorkerOK, StreamIn
  <2>3. ~ IsDraft(l)
    BY <1>2, Bounds DEF IsDraft
  <2>4. QED
    BY <2>2, <2>3 DEF InputsRight
<1>3. CASE ~ (l < Layers)
  <2>1. IsDraft(l) /\ l # 0 /\ l >= Layers
    BY <1>3, Bounds DEF IsDraft
  <2>2. Hidden(r) = <<"final", l - 1>>
    BY <2>1 DEF WorkerOK, StreamIn, Past
  <2>3. token[r] = <<"logits", l - 1>>
    BY <2>1 DEF WorkerOK, SampleOK
  <2>4. CASE Boundary
    <3>1. DraftEmbedding(r, l) = <<"embed", l>>
      BY <2>3, <2>4 DEF DraftEmbedding, Embed, Kernel
    <3>2. QED
      BY <2>1, <2>2, <3>1 DEF InputsRight
  <2>5. CASE ~ Boundary
    <3>1. emb[r] = <<"embed", l>>
      BY <2>1, <2>5 DEF WorkerOK, SampleOK, Past
    <3>2. DraftEmbedding(r, l) = <<"embed", l>>
      BY <2>5, <3>1 DEF DraftEmbedding
    <3>3. QED
      BY <2>1, <2>2, <3>2 DEF InputsRight
  <2>6. QED
    BY <2>4, <2>5
<1>4. QED
  BY <1>1, <1>2, <1>3

\* Attention, on the owner and past the peers.
LEMMA AttendStep ==
  ASSUME HybridInv, DataInv, NEW r \in Ranks, Attend(r)
  PROVE  DataInv'
<1> DEFINE l == layer[r]
           right == InputsRight(r, l)
<1> USE Phases
<1>0. TypeOK /\ WorkerOK(r) /\ SourcesSequential
  BY DEF HybridInv, DataInv
<1>1. /\ At(r, 6) /\ Advance(r)
      /\ UNCHANGED <<config, busy, failed, calls, mm, emb, red, routed, stream, token>>
  BY DEF Attend
<1>2. l \in Nat /\ phase[r] = 6
  BY <1>1, Locally
<1>3. /\ layer'[r] = l /\ phase'[r] = 7 /\ busy' = busy \ {r} /\ r \notin busy'
      /\ \A k : Owner(k)' = Owner(k)
  BY <1>1, <1>2, Locally
<1>4. r = Owner(l) => right
  BY <1>0, <1>2, AttentionInputs
<1>5. /\ OthersStay(r) /\ (r \in inArena' => r \in inArena)
      /\ r = Owner(l) => /\ r \notin inArena'
                         /\ hid'[r] = Kernel(right, <<"mid", l>>)
                         /\ res'[r] = Kernel(right, <<"res", l + 1>>)
  <2> HIDE DEF right
  <2>1. CASE r = Owner(l)
    <3>1. /\ hid' = [hid EXCEPT ![r] = Kernel(right, <<"mid", l>>)]
          /\ res' = [res EXCEPT ![r] = Kernel(right, <<"res", l + 1>>)]
          /\ inArena' = inArena \ {r}
      BY <2>1 DEF Attend, right
    <3>2. QED
      BY <1>0, <1>1, <3>1 DEF TypeOK, OthersStay, routed, stream
  <2>2. CASE r # Owner(l) /\ IsDraft(l)
    <3>1. /\ hid' = [hid EXCEPT ![r] = Junk] /\ res' = [res EXCEPT ![r] = Junk]
          /\ inArena' = inArena \ {r}
      BY <2>2 DEF Attend
    <3>2. QED
      BY <1>0, <1>1, <2>2, <3>1 DEF TypeOK, OthersStay, routed, stream
  <2>3. CASE r # Owner(l) /\ ~ IsDraft(l)
    <3>1. UNCHANGED <<hid, res, inArena>>
      BY <2>3 DEF Attend
    <3>2. QED
      BY <1>0, <1>1, <2>3, <3>1 DEF TypeOK, OthersStay, routed, stream
  <2>4. QED
    BY <2>1, <2>2, <2>3
<1>6. r = Owner(l) => hid'[r] = <<"mid", l>> /\ res'[r] = <<"res", l + 1>> /\ r \notin inArena'
  BY <1>4, <1>5 DEF Kernel
<1> HIDE DEF right
<1>7. EncoderOK(r)' /\ SampleOK(r)'
  BY <1>0, <1>1, <1>2, InputsStay
<1>8. StreamIn(r)' /\ StreamOut(r)'
  BY <1>0, <1>2, <1>3, <1>5, <1>6
     DEF WorkerOK, StreamIn, StreamOut, HoldsHidden, HoldsResidual, BeforeAttention, Past, Owns
<1>9. RoutedOK(r)' /\ ExpertsOK(r)'
  BY <1>0, <1>1, <1>2, <1>3
     DEF WorkerOK, RoutedOK, ExpertsOK, Routing, Preparing, Past, routed, stream
<1>10. QED
  BY <1>0, <1>1, <1>3, <1>5, <1>7, <1>8, <1>9, OneMoves DEF WorkerOK

\* What a layer's later steps leave alone ahead of its end: the streams, for
\* whoever moves on from the experts' phases.
LEMMA StreamsStay ==
  ASSUME TypeOK, NEW r \in Ranks, WorkerOK(r), config' = config, layer'[r] = layer[r],
         layer[r] \in Nat, phase[r] \in 7..10, phase'[r] = phase[r] + 1,
         hid'[r] = hid[r], res'[r] = res[r], r \in inArena' <=> r \in inArena
  PROVE  StreamIn(r)' /\ StreamOut(r)'
<1> USE Phases
<1>1. \A k : Owner(k)' = Owner(k)
  BY OwnersFixed
<1>2. StreamIn(r)'
  BY DEF WorkerOK, StreamIn, HoldsHidden, HoldsResidual, BeforeAttention, Past
<1>3. StreamOut(r)'
  BY <1>1 DEF WorkerOK, StreamOut, Past, Owns
<1>4. QED
  BY <1>2, <1>3

\* The activation arrives, alone or with the routes it is packed with.
LEMMA ActivationArrives ==
  ASSUME HybridInv, DataInv, NEW r \in Ranks, ReceiveActivation(r)
  PROVE  DataInv'
<1> DEFINE l == layer[r]
           v == Result(r)
           View(kind) == Kernel(v[1] = "packed", <<kind, v[2]>>)
<1> USE Phases
<1>0. TypeOK /\ WorkerOK(r) /\ SourcesSequential
  BY DEF HybridInv, DataInv
<1>1. /\ Completes(r, 7) /\ UNCHANGED <<mm, emb, hid, res, inArena, red, stream, token>>
      /\ IF Packed
         THEN /\ act' = [act EXCEPT ![r] = View("act")]
              /\ ids' = [ids EXCEPT ![r] = View("ids")]
              /\ wts' = [wts EXCEPT ![r] = View("weights")]
         ELSE act' = [act EXCEPT ![r] = v] /\ UNCHANGED <<ids, wts>>
  BY DEF ReceiveActivation
<1>2. l \in Nat /\ phase[r] = 7 /\ r \in busy /\ IsMoE(l)
  BY <1>1, Completed DEF Meets
<1>3. /\ layer'[r] = l /\ phase'[r] = 8 /\ config' = config /\ calls' = calls /\ failed' = failed
      /\ Advance(r) /\ busy' = busy \ {r} /\ r \notin busy' /\ \A k : Owner(k)' = Owner(k)
  BY <1>1, <1>2, Completed
<1>4. v = <<IF Packed THEN "packed" ELSE "act", l>>
  BY <1>0, <1>1, Completed, Received
<1>5. Packed => View("act") = <<"act", l>> /\ View("ids") = <<"ids", l>>
                  /\ View("weights") = <<"weights", l>>
  BY <1>4 DEF Kernel
<1> HIDE DEF v, View
<1>6. /\ OthersStay(r) /\ act'[r] = <<"act", l>>
      /\ Packed => ids'[r] = <<"ids", l>> /\ wts'[r] = <<"weights", l>>
      /\ ~ Packed => ids'[r] = ids[r] /\ wts'[r] = wts[r]
  <2>1. CASE Packed
    BY <1>0, <1>1, <1>5, <2>1 DEF TypeOK, OthersStay, stream
  <2>2. CASE ~ Packed
    BY <1>0, <1>1, <1>4, <2>2 DEF TypeOK, OthersStay, stream
  <2>3. QED
    BY <2>1, <2>2
<1>7. EncoderOK(r)' /\ SampleOK(r)'
  BY <1>0, <1>1, <1>2, <1>3, InputsStay
<1>8. StreamIn(r)' /\ StreamOut(r)'
  BY <1>0, <1>1, <1>2, <1>3, StreamsStay
<1>9. RoutedOK(r)'
  BY <1>0, <1>2, <1>3, <1>6 DEF WorkerOK, RoutedOK, Routing, Past, Owns, Packed
<1>10. ExpertsOK(r)'
  BY <1>0, <1>1, <1>2, <1>3 DEF WorkerOK, ExpertsOK, Preparing, Past, Owns, IsMoE, stream
<1>11. QED
  BY <1>0, <1>3, <1>6, <1>7, <1>8, <1>9, <1>10, OneMoves DEF WorkerOK

\* The route ids arrive.
LEMMA RouteIdsArrive ==
  ASSUME HybridInv, DataInv, NEW r \in Ranks, ReceiveRouteIds(r)
  PROVE  DataInv'
<1> DEFINE l == layer[r]
<1> USE Phases
<1>0. TypeOK /\ WorkerOK(r) /\ SourcesSequential
  BY DEF HybridInv, DataInv
<1>1. /\ Completes(r, 8) /\ ids' = [ids EXCEPT ![r] = Result(r)]
      /\ UNCHANGED <<mm, emb, hid, res, inArena, red, act, wts, stream, token>>
  BY DEF ReceiveRouteIds
<1>2. l \in Nat /\ phase[r] = 8 /\ IsMoE(l)
  BY <1>1, Completed DEF Meets
<1>3. /\ layer'[r] = l /\ phase'[r] = 9 /\ config' = config /\ calls' = calls /\ failed' = failed
      /\ Advance(r) /\ busy' = busy \ {r} /\ r \notin busy' /\ \A k : Owner(k)' = Owner(k)
  BY <1>1, <1>2, Completed
<1>4. Result(r) = <<"ids", l>>
  BY <1>0, <1>1, Completed, Received
<1>5. ids'[r] = <<"ids", l>> /\ OthersStay(r)
  BY <1>0, <1>1, <1>4 DEF TypeOK, OthersStay, stream
<1>6. EncoderOK(r)' /\ SampleOK(r)'
  BY <1>0, <1>1, <1>2, <1>3, InputsStay
<1>7. StreamIn(r)' /\ StreamOut(r)'
  BY <1>0, <1>1, <1>2, <1>3, StreamsStay
<1>8. RoutedOK(r)'
  BY <1>0, <1>1, <1>2, <1>3, <1>5 DEF WorkerOK, RoutedOK, Routing, Past, Owns, Packed
<1>9. ExpertsOK(r)'
  BY <1>0, <1>1, <1>2, <1>3 DEF WorkerOK, ExpertsOK, Preparing, Past, Owns, IsMoE, stream
<1>10. QED
  BY <1>0, <1>3, <1>5, <1>6, <1>7, <1>8, <1>9, OneMoves DEF WorkerOK

\* The route weights arrive.
LEMMA RouteWeightsArrive ==
  ASSUME HybridInv, DataInv, NEW r \in Ranks, ReceiveRouteWeights(r)
  PROVE  DataInv'
<1> DEFINE l == layer[r]
<1> USE Phases
<1>0. TypeOK /\ WorkerOK(r) /\ SourcesSequential
  BY DEF HybridInv, DataInv
<1>1. /\ Completes(r, 9) /\ wts' = [wts EXCEPT ![r] = Result(r)]
      /\ UNCHANGED <<mm, emb, hid, res, inArena, red, act, ids, stream, token>>
  BY DEF ReceiveRouteWeights
<1>2. l \in Nat /\ phase[r] = 9 /\ IsMoE(l)
  BY <1>1, Completed DEF Meets
<1>3. /\ layer'[r] = l /\ phase'[r] = 10 /\ config' = config /\ calls' = calls
      /\ failed' = failed /\ Advance(r) /\ busy' = busy \ {r} /\ r \notin busy'
      /\ \A k : Owner(k)' = Owner(k)
  BY <1>1, <1>2, Completed
<1>4. Result(r) = <<"weights", l>>
  BY <1>0, <1>1, Completed, Received
<1>5. wts'[r] = <<"weights", l>> /\ OthersStay(r)
  BY <1>0, <1>1, <1>4 DEF TypeOK, OthersStay, stream
<1>6. EncoderOK(r)' /\ SampleOK(r)'
  BY <1>0, <1>1, <1>2, <1>3, InputsStay
<1>7. StreamIn(r)' /\ StreamOut(r)'
  BY <1>0, <1>1, <1>2, <1>3, StreamsStay
<1>8. RoutedOK(r)'
  BY <1>0, <1>1, <1>2, <1>3, <1>5 DEF WorkerOK, RoutedOK, Routing, Past, Owns, Packed
<1>9. ExpertsOK(r)'
  BY <1>0, <1>1, <1>2, <1>3 DEF WorkerOK, ExpertsOK, Preparing, Past, Owns, IsMoE, stream
<1>10. QED
  BY <1>0, <1>3, <1>5, <1>6, <1>7, <1>8, <1>9, OneMoves DEF WorkerOK

\* The owner's sum is of right partial outputs.
LEMMA ReduceStep ==
  ASSUME HybridInv, DataInv, NEW r \in Ranks, ReduceExperts(r)
  PROVE  DataInv'
<1> DEFINE l == layer[r]
<1> USE Phases
<1>0. TypeOK /\ WorkerOK(r) /\ SourcesSequential
  BY DEF HybridInv, DataInv
<1>1. /\ Completes(r, 10)
      /\ red' = IF r = Owner(l)
                THEN [red EXCEPT ![r] = Kernel(Result(r) = <<"partial", l>>, <<"sum", l>>)]
                ELSE red
      /\ UNCHANGED <<mm, emb, hid, res, inArena, routed, stream, token>>
  BY DEF ReduceExperts
<1>2. l \in Nat /\ phase[r] = 10 /\ IsMoE(l)
  BY <1>1, Completed DEF Meets
<1>3. /\ layer'[r] = l /\ phase'[r] = 11 /\ config' = config /\ calls' = calls
      /\ failed' = failed /\ Advance(r) /\ busy' = busy \ {r} /\ r \notin busy'
      /\ \A k : Owner(k)' = Owner(k)
  BY <1>1, <1>2, Completed
<1>4. r = Owner(l) => Result(r) = <<"partial", l>>
  BY <1>0, <1>1, Completed, Received
<1>5. /\ OthersStay(r)
      /\ r = Owner(l) => red'[r] = <<"sum", l>>
  BY <1>0, <1>1, <1>4 DEF TypeOK, OthersStay, routed, stream, Kernel
<1>6. EncoderOK(r)' /\ SampleOK(r)'
  BY <1>0, <1>1, <1>2, <1>3, InputsStay
<1>7. StreamIn(r)' /\ StreamOut(r)'
  BY <1>0, <1>1, <1>2, <1>3, StreamsStay
<1>8. RoutedOK(r)'
  BY <1>2, <1>3 DEF RoutedOK, Routing, Past
<1>9. ExpertsOK(r)'
  BY <1>0, <1>1, <1>2, <1>3, <1>5 DEF WorkerOK, ExpertsOK, Preparing, Past, Owns, IsMoE, stream
<1>10. QED
  BY <1>0, <1>3, <1>5, <1>6, <1>7, <1>8, <1>9, OneMoves DEF WorkerOK

\* The end of a layer: the owner, its side stream joined, adds right halves.
LEMMA FinishStep ==
  ASSUME HybridInv, DataInv, NEW r \in Ranks, FinishLayer(r)
  PROVE  DataInv'
<1> DEFINE l == layer[r]
           right == IF IsMoE(l) THEN red[r] = <<"sum", l>> /\ shared[r] = <<"shared", l>>
                    ELSE hid[r] = <<"mid", l>>
<1> USE Phases
<1>0. TypeOK /\ WorkerOK(r) /\ SourcesSequential
  BY DEF HybridInv, DataInv
<1>1. /\ At(r, 11) /\ Advance(r)
      /\ UNCHANGED <<config, busy, failed, calls, mm, emb, res, red, routed, stream, token>>
      /\ r = Owner(l) => /\ r \notin side /\ inArena' = inArena
                         /\ hid' = [hid EXCEPT ![r] = Kernel(right, <<"out", l + 1>>)]
      /\ r # Owner(l) => inArena' = inArena \cup {r} /\ hid' = hid
  BY DEF FinishLayer
<1>2. l \in Nat /\ phase[r] = 11
  BY <1>1, Locally
<1>3. /\ layer'[r] = l /\ phase'[r] = 12 /\ busy' = busy \ {r} /\ r \notin busy'
      /\ \A k : Owner(k)' = Owner(k)
  BY <1>1, <1>2, Locally
<1>4. r = Owner(l) => right
  BY <1>0, <1>1, <1>2 DEF WorkerOK, ExpertsOK, StreamOut, Preparing, Past, Owns
<1> HIDE DEF right
<1>5. /\ OthersStay(r)
      /\ r = Owner(l) => hid'[r] = <<"out", l + 1>>
  BY <1>0, <1>1, <1>4 DEF TypeOK, OthersStay, routed, stream, Kernel
<1>6. EncoderOK(r)' /\ SampleOK(r)'
  BY <1>0, <1>1, <1>2, InputsStay
<1>7. r = Owner(l) => r \notin inArena'
  BY <1>0, <1>1, <1>2 DEF WorkerOK, StreamOut, Past, Owns
<1>8. StreamIn(r)'
  BY <1>2, <1>3 DEF StreamIn, HoldsHidden, HoldsResidual, BeforeAttention, Past
<1>9. StreamOut(r)'
  BY <1>0, <1>1, <1>2, <1>3, <1>5, <1>7 DEF WorkerOK, StreamOut, Past, Owns, Hidden
<1>10. RoutedOK(r)'
  BY <1>2, <1>3 DEF RoutedOK, Routing, Past
<1>11. r \notin side
  BY <1>0, <1>1 DEF WorkerOK, ExpertsOK, Preparing, Owns
<1>12. ExpertsOK(r)'
  BY <1>1, <1>3, <1>11 DEF ExpertsOK, Preparing, Past, stream
<1>13. QED
  BY <1>0, <1>1, <1>3, <1>5, <1>6, <1>8, <1>9, <1>10, <1>12, OneMoves DEF WorkerOK

\* The final hidden states arrive.
LEMMA FinalArrives ==
  ASSUME HybridInv, DataInv, NEW r \in Ranks, ReceiveFinal(r)
  PROVE  DataInv'
<1> DEFINE l == layer[r]
<1> USE Phases
<1>0. TypeOK /\ WorkerOK(r) /\ SourcesSequential
  BY DEF HybridInv, DataInv
<1>1. /\ Completes(r, 12) /\ WriteHidden(r, Result(r))
      /\ UNCHANGED <<mm, emb, res, inArena, routed, stream, token>>
  BY DEF ReceiveFinal
<1>2. l \in Nat /\ phase[r] = 12 /\ Ends(l)
  BY <1>1, Completed DEF Meets
<1>3. /\ layer'[r] = l /\ phase'[r] = 13 /\ config' = config /\ calls' = calls
      /\ failed' = failed /\ Advance(r) /\ busy' = busy \ {r} /\ r \notin busy'
      /\ \A k : Owner(k)' = Owner(k)
  BY <1>1, <1>2, Completed
<1>4. Result(r) = <<"final", l>>
  BY <1>0, <1>1, Completed, Received
<1>5. Hidden(r)' = <<"final", l>> /\ OthersStay(r)
  BY <1>0, <1>1, <1>4, Written DEF OthersStay, routed, stream
<1>6. EncoderOK(r)' /\ SampleOK(r)'
  BY <1>0, <1>1, <1>2, <1>3, InputsStay
<1>7. StreamIn(r)'
  BY <1>3 DEF StreamIn, HoldsHidden, HoldsResidual, BeforeAttention, Past
<1>8. StreamOut(r)'
  BY <1>0, <1>1, <1>2, <1>3, <1>5 DEF WorkerOK, StreamOut, Past, Owns, Ends
<1>9. RoutedOK(r)' /\ ExpertsOK(r)'
  BY <1>0, <1>1, <1>2, <1>3
     DEF WorkerOK, RoutedOK, ExpertsOK, Routing, Preparing, Past, routed, stream
<1>10. QED
  BY <1>0, <1>3, <1>5, <1>6, <1>7, <1>8, <1>9, OneMoves DEF WorkerOK

\* The logits arrive, and a draft pass starts from them and the final hidden
\* states.
LEMMA LogitsArrive ==
  ASSUME HybridInv, DataInv, NEW r \in Ranks, ReceiveLogits(r)
  PROVE  DataInv'
<1> DEFINE l == layer[r]
<1> USE Phases
<1>0. TypeOK /\ WorkerOK(r) /\ SourcesSequential
  BY DEF HybridInv, DataInv
<1>1. /\ Completes(r, 13) /\ token' = [token EXCEPT ![r] = Result(r)]
      /\ UNCHANGED <<mm, emb, hid, res, inArena, red, routed, stream>>
  BY DEF ReceiveLogits
<1>2. l \in Nat /\ phase[r] = 13 /\ Ends(l)
  BY <1>1, Completed DEF Meets
<1>3. /\ layer'[r] = l + 1 /\ phase'[r] = 1 /\ config' = config /\ calls' = calls
      /\ failed' = failed /\ Advance(r) /\ busy' = busy \ {r} /\ r \notin busy'
      /\ \A k : Owner(k)' = Owner(k)
  BY <1>1, <1>2, Completed
<1>4. Result(r) = <<"logits", l>>
  BY <1>0, <1>1, Completed, Received
<1>5. token'[r] = <<"logits", l>> /\ OthersStay(r)
  BY <1>0, <1>1, <1>4 DEF TypeOK, OthersStay, routed, stream
<1>6. l + 1 > 0 /\ ~ (l + 1 < Layers) /\ l + 1 - 1 = l /\ l + 1 # 0
  BY <1>2, Bounds DEF Ends
<1>7. EncoderOK(r)' /\ SampleOK(r)'
  BY <1>0, <1>2, <1>3, <1>5, <1>6 DEF WorkerOK, EncoderOK, SampleOK, Past
<1>8. Hidden(r)' = <<"final", l>>
  BY <1>0, <1>1, <1>2 DEF WorkerOK, StreamOut, Hidden
<1>9. StreamIn(r)'
  BY <1>2, <1>3, <1>6, <1>8, Bounds DEF StreamIn, HoldsHidden, HoldsResidual, BeforeAttention, Past
<1>10. StreamOut(r)'
  BY <1>3 DEF StreamOut, Past
<1>11. RoutedOK(r)' /\ ExpertsOK(r)'
  BY <1>0, <1>1, <1>2, <1>3
     DEF WorkerOK, RoutedOK, ExpertsOK, Routing, Preparing, Past, routed, stream
<1>12. QED
  BY <1>0, <1>3, <1>5, <1>7, <1>9, <1>10, <1>11, OneMoves DEF WorkerOK

\* What a worker skips: the code before it has nothing to do there.
LEMMA Skips ==
  ASSUME HybridInv, NEW r \in Ranks, Skip(r)
  PROVE  /\ Advance(r) /\ UNCHANGED <<config, busy, failed, calls>>
         /\ UNCHANGED <<mm, emb, hid, res, inArena, red, act, ids, wts, side, shared, token>>
         /\ busy' = busy \ {r} /\ r \notin busy' /\ layer[r] \in Nat /\ layer[r] < Passes
         /\ phase[r] \in {1, 2, 3, 4, 5, 7, 8, 9, 10, 12, 13}
         /\ ~ Meets(layer[r], phase[r], mm[r])
         /\ phase[r] # 13 => layer'[r] = layer[r] /\ phase'[r] = phase[r] + 1
         /\ phase[r] = 13 => layer'[r] = layer[r] + 1 /\ phase'[r] = 1
         /\ \A k : Owner(k)' = Owner(k)
<1>0. TypeOK
  BY DEF HybridInv
<1>1. /\ Stands(r, phase[r]) /\ Advance(r) /\ UNCHANGED <<config, busy, failed, calls>>
      /\ UNCHANGED <<mm, emb, hid, res, inArena, red, act, ids, wts, side, shared, token>>
      /\ ~ Meets(layer[r], phase[r], mm[r])
  BY DEF Skip, Applies, routed, stream
<1>2. r \notin busy /\ layer[r] \in Nat /\ layer[r] < Passes /\ phase[r] \in 1..13
  BY <1>0, <1>1, Sites DEF Stands
<1>3. phase[r] # 6 /\ phase[r] # 11
  BY <1>1, Phases DEF Meets
<1>4. /\ phase[r] # 13 => layer'[r] = layer[r] /\ phase'[r] = phase[r] + 1
      /\ phase[r] = 13 => layer'[r] = layer[r] + 1 /\ phase'[r] = 1
  BY <1>0, <1>1, MovesOn, Phases
<1>5. QED
  BY <1>1, <1>2, <1>3, <1>4, OwnersFixed

\* Falling through leaves a worker as right as the next place asks: nothing to
\* merge, nobody new to hold the stream, nothing routed, or its own layer's output
\* to start the next layer from.
LEMMA SkipStep ==
  ASSUME HybridInv, DataInv, NEW r \in Ranks, Skip(r)
  PROVE  DataInv'
<1> DEFINE l == layer[r]
           p == phase[r]
<1> USE Phases
<1>0. TypeOK /\ WorkerOK(r) /\ SourcesSequential
  BY DEF HybridInv, DataInv
<1>1. /\ Advance(r) /\ UNCHANGED <<config, busy, failed, calls>>
      /\ UNCHANGED <<mm, emb, hid, res, inArena, red, act, ids, wts, side, shared, token>>
      /\ busy' = busy \ {r} /\ r \notin busy' /\ l \in Nat /\ l < Passes
      /\ p \in {1, 2, 3, 4, 5, 7, 8, 9, 10, 12, 13} /\ ~ Meets(l, p, mm[r])
      /\ p # 13 => layer'[r] = l /\ phase'[r] = p + 1
      /\ p = 13 => layer'[r] = l + 1 /\ phase'[r] = 1
      /\ \A k : Owner(k)' = Owner(k)
  BY Skips
<1>2. OthersStay(r)
  BY <1>1 DEF OthersStay
<1>3. CASE p \in {1, 2, 3}
  <2>1. layer'[r] = l /\ phase'[r] = p + 1
    BY <1>1, <1>3
  <2>2. EncoderOK(r)'
    <3>1. CASE p = 1
      <4>1. l = 0 => config.encoder = "none"
        BY <1>1, <3>1 DEF Meets
      <4>2. QED
        BY <1>0, <1>1, <2>1, <3>1, <4>1 DEF WorkerOK, EncoderOK, Past
    <3>2. CASE p = 2
      <4>1. l = 0 => mm[r] # <<"ok", 0>>
        BY <1>1, <3>2 DEF Meets
      <4>2. QED
        BY <1>0, <1>1, <2>1, <3>2, <4>1 DEF WorkerOK, EncoderOK, Past, Merged
    <3>3. CASE p = 3
      BY <1>0, <1>1, <2>1, <3>3 DEF WorkerOK, EncoderOK, Past
    <3>4. QED
      BY <1>3, <3>1, <3>2, <3>3
  <2>3. p = 3 => l # 0 /\ (l < Layers \/ Boundary)
    BY <1>1, Bounds DEF Meets, EmbedsTogether, IsDraft
  <2>4. SampleOK(r)'
    BY <1>0, <1>1, <1>3, <2>1, <2>3, Bounds DEF WorkerOK, SampleOK, Past, Boundary
  <2>5. StreamIn(r)' /\ StreamOut(r)'
    BY <1>0, <1>1, <1>3, <2>1, <2>3
       DEF WorkerOK, StreamIn, StreamOut, HoldsHidden, HoldsResidual, BeforeAttention, Past, Hidden
  <2>6. RoutedOK(r)' /\ ExpertsOK(r)'
    BY <1>0, <1>1, <1>3, <2>1 DEF WorkerOK, RoutedOK, ExpertsOK, Routing, Preparing, Past
  <2>7. QED
    BY <1>0, <1>1, <1>2, <2>2, <2>4, <2>5, <2>6, OneMoves DEF WorkerOK
<1>4. CASE p \in {4, 5}
  <2>1. layer'[r] = l /\ phase'[r] = p + 1 /\ ~ Moves(l)
    BY <1>1, <1>4 DEF Meets
  <2>2. EncoderOK(r)' /\ SampleOK(r)'
    BY <1>0, <1>1, <1>4, InputsStay
  <2>3. StreamIn(r)' /\ StreamOut(r)'
    BY <1>0, <1>1, <1>4, <2>1
       DEF WorkerOK, StreamIn, StreamOut, HoldsHidden, HoldsResidual, BeforeAttention, Past,
           Hidden, Moves
  <2>4. RoutedOK(r)' /\ ExpertsOK(r)'
    BY <1>0, <1>1, <1>4, <2>1 DEF WorkerOK, RoutedOK, ExpertsOK, Routing, Preparing, Past
  <2>5. QED
    BY <1>0, <1>1, <1>2, <2>2, <2>3, <2>4, OneMoves DEF WorkerOK
<1>5. CASE p \in {7, 8, 9, 10}
  <2>1. layer'[r] = l /\ phase'[r] = p + 1
    BY <1>1, <1>5
  <2>2. ~ IsMoE(l) \/ (Packed /\ p \in {8, 9})
    BY <1>1, <1>5 DEF Meets
  <2>3. EncoderOK(r)' /\ SampleOK(r)'
    BY <1>0, <1>1, <1>5, InputsStay
  <2>4. StreamIn(r)' /\ StreamOut(r)'
    BY <1>0, <1>1, <1>5, <2>1, StreamsStay
  <2>5. RoutedOK(r)'
    BY <1>0, <1>1, <1>5, <2>1, <2>2 DEF WorkerOK, RoutedOK, Routing, Past, Owns, IsMoE, Packed
  <2>6. ExpertsOK(r)'
    BY <1>0, <1>1, <1>5, <2>1, <2>2 DEF WorkerOK, ExpertsOK, Preparing, Past, Owns, IsMoE
  <2>7. QED
    BY <1>0, <1>1, <1>2, <2>3, <2>4, <2>5, <2>6, OneMoves DEF WorkerOK
<1>6. CASE p = 12
  <2>1. layer'[r] = l /\ phase'[r] = 13 /\ ~ Ends(l)
    BY <1>1, <1>6 DEF Meets
  <2>2. EncoderOK(r)' /\ SampleOK(r)'
    BY <1>0, <1>1, <1>6, InputsStay
  <2>3. StreamIn(r)'
    BY <2>1 DEF StreamIn, HoldsHidden, HoldsResidual, BeforeAttention, Past
  <2>4. StreamOut(r)'
    BY <1>0, <1>1, <1>6, <2>1 DEF WorkerOK, StreamOut, Past, Owns, Hidden, Ends
  <2>5. RoutedOK(r)' /\ ExpertsOK(r)'
    BY <1>0, <1>1, <1>6, <2>1 DEF WorkerOK, RoutedOK, ExpertsOK, Routing, Preparing, Past
  <2>6. QED
    BY <1>0, <1>1, <1>2, <2>2, <2>3, <2>4, <2>5, OneMoves DEF WorkerOK
<1>7. CASE p = 13
  <2>1. layer'[r] = l + 1 /\ phase'[r] = 1 /\ ~ Ends(l)
    BY <1>1, <1>7 DEF Meets
  <2>2. l + 1 > 0 /\ l + 1 < Layers /\ l + 1 - 1 = l
    BY <1>1, <2>1, Bounds DEF Ends
  <2>3. EncoderOK(r)' /\ SampleOK(r)'
    BY <1>0, <1>1, <1>7, <2>1, <2>2, Bounds DEF WorkerOK, EncoderOK, SampleOK, Past
  <2>4. r = Owner(l) => Hidden(r)' = <<"out", l + 1>> /\ res'[r] = <<"res", l + 1>>
    BY <1>0, <1>1, <1>7, <2>1 DEF WorkerOK, StreamOut, Past, Owns, Hidden
  <2>5. StreamIn(r)'
    BY <1>1, <2>1, <2>2, <2>4, Bounds
       DEF StreamIn, HoldsHidden, HoldsResidual, BeforeAttention, Past
  <2>6. StreamOut(r)'
    BY <2>1 DEF StreamOut, Past
  <2>7. RoutedOK(r)' /\ ExpertsOK(r)'
    BY <1>0, <1>1, <1>7, <2>1 DEF WorkerOK, RoutedOK, ExpertsOK, Routing, Preparing, Past
  <2>8. QED
    BY <1>0, <1>1, <1>2, <2>3, <2>5, <2>6, <2>7, OneMoves DEF WorkerOK
<1>8. QED
  BY <1>1, <1>3, <1>4, <1>5, <1>6, <1>7

\* The side stream finds the owner's hidden states as they were when it was
\* given them.
LEMMA SharedExpertStep ==
  ASSUME HybridInv, DataInv, NEW r \in Ranks, SharedExpert(r)
  PROVE  DataInv'
<1> DEFINE l == layer[r]
           v == Kernel(hid[r] = <<"mid", l>>, <<"shared", l>>)
<1> USE Phases
<1>0. TypeOK /\ WorkerOK(r) /\ SourcesSequential
  BY DEF HybridInv, DataInv
<1>1. /\ r \in side /\ side' = side \ {r} /\ shared' = [shared EXCEPT ![r] = v]
      /\ UNCHANGED <<config, layer, phase, busy, failed, calls>>
      /\ UNCHANGED <<mm, emb, hid, res, inArena, red, act, ids, wts, token>>
  BY DEF SharedExpert, position, routed
<1>2. Owns(r) /\ Past(r, Attention) /\ ~ Past(r, Finish)
  BY <1>0, <1>1, Sites DEF WorkerOK, ExpertsOK, Preparing, Past
<1>3. v = <<"shared", l>>
  BY <1>0, <1>2 DEF WorkerOK, StreamOut, Kernel
<1> HIDE DEF v
<1>4. ASSUME NEW q \in Ranks, q # r
      PROVE  WorkerOK(q)'
  <2>1. WorkerOK(q)
    BY DEF DataInv
  <2>2. shared'[q] = shared[q] /\ (q \in side' <=> q \in side)
    BY <1>0, <1>1, <1>4 DEF TypeOK
  <2>3. QED
    BY <1>1, <2>1, <2>2, OthersKeep
<1>5. \A k : Owner(k)' = Owner(k)
  BY <1>1, OwnersFixed
<1>6. EncoderOK(r)' /\ SampleOK(r)'
  BY <1>0, <1>1 DEF WorkerOK, EncoderOK, SampleOK, Past, Merged, Boundary
<1>7. StreamIn(r)'
  BY <1>0, <1>1, <1>5
     DEF WorkerOK, StreamIn, HoldsHidden, HoldsResidual, BeforeAttention, Past, Hidden, Moves
<1>8. StreamOut(r)'
  BY <1>0, <1>1, <1>5 DEF WorkerOK, StreamOut, Past, Owns, Hidden, Ends
<1>9. RoutedOK(r)'
  BY <1>0, <1>1, <1>5 DEF WorkerOK, RoutedOK, Routing, Past, Owns, IsMoE, Packed
<1>10. shared'[r] = <<"shared", l>> /\ r \notin side'
  BY <1>0, <1>1, <1>3 DEF TypeOK
<1>11. ExpertsOK(r)'
  BY <1>0, <1>1, <1>5, <1>10 DEF WorkerOK, ExpertsOK, Preparing, Past, Owns, IsMoE
<1>12. SourcesSequential'
  BY <1>0, <1>1, ExpectedFixed DEF SourcesSequential, Sources
<1>13. QED
  BY <1>1, <1>4, <1>6, <1>7, <1>8, <1>9, <1>11, <1>12 DEF WorkerOK, DataInv

-----------------------------------------------------------------------------
(* The invariant, and what it says.                                        *)

\* Nothing is called, routed or held yet.
LEMMA DataInit == Init => DataInv
<1> SUFFICES ASSUME Init
             PROVE  DataInv
  OBVIOUS
<1> USE Phases
<1>1. SourcesSequential
  BY DEF Init, SourcesSequential
<1>2. ASSUME NEW r \in Ranks
      PROVE  WorkerOK(r)
  <2>1. /\ layer[r] = 0 /\ phase[r] = 1 /\ r \notin busy /\ r \notin inArena /\ r \notin side
        /\ mm[r] = Junk
    BY <1>2 DEF Init
  <2>2. EncoderOK(r) /\ SampleOK(r)
    BY <2>1, Bounds DEF EncoderOK, SampleOK, Past
  <2>3. StreamIn(r) /\ StreamOut(r)
    BY <2>1, Bounds
       DEF StreamIn, StreamOut, HoldsHidden, HoldsResidual, BeforeAttention, Past
  <2>4. RoutedOK(r) /\ ExpertsOK(r)
    BY <2>1 DEF RoutedOK, ExpertsOK, Routing, Preparing, Past
  <2>5. QED
    BY <2>2, <2>3, <2>4 DEF WorkerOK
<1>3. QED
  BY <1>1, <1>2 DEF Init, DataInv

\* Every step keeps it.
LEMMA DataStep ==
  ASSUME HybridInv, DataInv, [Next]_vars
  PROVE  DataInv'
<1>1. ASSUME NEW r \in Ranks, Work(r)
      PROVE  DataInv'
  <2>1. CASE PlainSends(r)
    BY <2>1, PlainSendStep
  <2>2. CASE SendActivation(r) \/ SendFinal(r)
    BY <2>2, ActivationStep, FinalStep
  <2>3. CASE ReadMetadata(r) \/ ReceiveEncoded(r) \/ ReceiveEmbedding(r)
    BY <2>3, MetadataStep, EncodedStep, EmbeddingStep
  <2>4. CASE ReceiveHidden(r) \/ ReceiveResidual(r) \/ Attend(r)
    BY <2>4, HiddenStep, ResidualStep, AttendStep
  <2>5. CASE ReceiveActivation(r) \/ ReceiveRouteIds(r) \/ ReceiveRouteWeights(r)
    BY <2>5, ActivationArrives, RouteIdsArrive, RouteWeightsArrive
  <2>6. CASE ReduceExperts(r) \/ FinishLayer(r)
    BY <2>6, ReduceStep, FinishStep
  <2>7. CASE ReceiveFinal(r) \/ ReceiveLogits(r) \/ Skip(r)
    BY <2>7, FinalArrives, LogitsArrive, SkipStep
  <2>8. QED
    BY <1>1, <2>1, <2>2, <2>3, <2>4, <2>5, <2>6, <2>7 DEF Work, PlainSends
<1>2. ASSUME NEW r \in Ranks, SharedExpert(r)
      PROVE  DataInv'
  BY <1>2, SharedExpertStep
<1>3. CASE UNCHANGED vars
  <2>1. /\ UNCHANGED <<config, layer, phase, busy, failed, calls>>
        /\ UNCHANGED <<mm, emb, hid, res, inArena, red, act, ids, wts, side, shared, token>>
    BY <1>3 DEF vars, position, routed, stream
  <2>2. ASSUME NEW q \in Ranks
        PROVE  WorkerOK(q)'
    BY <2>1, <2>2, OthersKeep DEF DataInv
  <2>3. SourcesSequential'
    BY <2>1, ExpectedFixed DEF DataInv, SourcesSequential, Sources
  <2>4. QED
    BY <2>1, <2>2, <2>3 DEF DataInv
<1>4. QED
  BY <1>1, <1>2, <1>3 DEF Next, Terminated

\* So a forward step computes in every place what the undistributed model does.
THEOREM DataInvariant == Spec => []DataInv
<1>1. Init => DataInv
  BY DataInit
<1>2. HybridInv /\ DataInv /\ [Next]_vars => DataInv'
  BY DataStep
<1>3. QED
  BY <1>1, <1>2, HybridInvariant, PTL DEF Spec

\* Placeholders are never consumed (dots3_hybrid_parallel.py:185): for every
\* number of workers, layers and draft passes, every partition and setting of the
\* switches, what a collective takes from a worker is what the undistributed model
\* computes there.
THEOREM SourcesAreSequential == Spec => []SourcesSequential
<1>1. DataInv => SourcesSequential
  BY DEF DataInv
<1>2. QED
  BY <1>1, DataInvariant, PTL

\* "Both TP samplers are preserved" (dots3_hybrid_boundary.py:4): after the target's
\* pass and after each draft pass every worker holds the same, right logits.
THEOREM SamplersGetTheSame == Spec => []SamplersAgree
<1>1. DataInv => SamplersAgree
  BY DEF DataInv, WorkerOK, SampleOK, SamplersAgree
<1>2. QED
  BY <1>1, DataInvariant, PTL

\* An encoder that fails on its owner, or gives outputs of no width, lets no worker
\* past the metadata (check_hybrid_multimodal.py:55): those behind their peers'
\* failure have still to read of it.
THEOREM ErrorsStopEverybody == Spec => []FailsTogether
<1>1. HybridInv /\ DataInv => FailsTogether
  <2>1. SUFFICES ASSUME HybridInv, DataInv, failed # {}, NEW r \in Ranks
                 PROVE  layer[r] = 0 /\ phase[r] = Metadata
    BY DEF FailsTogether
  <2>2. ~ (layer[r] > 0 \/ Past(r, Metadata))
    BY <2>1 DEF DataInv, WorkerOK, EncoderOK
  <2>3. layer[r] \in Nat /\ phase[r] \in 1..13
    BY <2>1, Sites DEF HybridInv
  <2>4. QED
    BY <2>2, <2>3, Phases DEF Past
<1>2. QED
  BY <1>1, HybridInvariant, DataInvariant, PTL

-----------------------------------------------------------------------------
(***************************************************************************)
(* No worker hangs.  Of the running workers, suppose each is inside a      *)
(* collective to which some worker has not come, and take one with fewest  *)
(* calls.  The worker it waits for has fewer, so it is not running.  But a *)
(* worker that went through its program has called every site, and this    *)
(* one no later than its peers; and one that raised did so on the first    *)
(* collective of the step, which nobody has left.                          *)
(***************************************************************************)

Running(r) == ~Done(r) /\ r \notin failed

\* All ranks execute identical sequences (hybrid_parallel.py:5), lest one wait for
\* a call that is never made: while a worker has still to finish, some worker is
\* outside the collectives or inside one to which all it waits for have come.  What
\* is outside them goes on by itself or after its side stream, so this is freedom
\* from the deadlock that the runs look for.
NobodyHangs ==
    (\E r \in Ranks : Running(r)) =>
        \E r \in Ranks : Running(r) /\ (r \in busy => Arrived(r))

\* A forward raises on what a collective brought.
Raised == \A r \in failed : Len(calls[r]) > 0

\* It does in every step: only a worker inside a collective raises.
LEMMA RaisedStep ==
  ASSUME HybridInv, Raised, [Next]_vars
  PROVE  Raised'
<1>0. TypeOK /\ Waiting
  BY DEF HybridInv
<1>1. ASSUME NEW r \in Ranks, CallStep(r)
      PROVE  Raised'
  <2>1. failed' = failed /\ r \notin failed
    BY <1>0, <1>1, Called
  <2>2. \A q \in Ranks : q # r => calls'[q] = calls[q]
    BY <1>0, <1>1, Called
  <2>3. failed \subseteq Ranks
    BY <1>0 DEF TypeOK
  <2>4. QED
    BY <2>1, <2>2, <2>3 DEF Raised
<1>2. ASSUME NEW r \in Ranks, RaiseStep(r)
      PROVE  Raised'
  <2>1. failed' = failed \cup {r} /\ calls' = calls /\ r \in busy
    BY <1>2 DEF RaiseStep
  <2>2. Len(calls[r]) > 0
    BY <1>0, <2>1 DEF Waiting
  <2>3. QED
    BY <2>1, <2>2 DEF Raised
<1>3. ASSUME NEW r \in Ranks, ReturnStep(r) \/ LocalStep(r)
      PROVE  Raised'
  BY <1>3 DEF ReturnStep, LocalStep, Raised
<1>4. CASE RestStep
  BY <1>4 DEF RestStep, position, Raised
<1>5. QED
  BY <1>1, <1>2, <1>3, <1>4, StepKinds

\* Numbers have a least member.
LEMMA LeastOf ==
  ASSUME NEW S \in SUBSET Nat, S # {}
  PROVE  \E m \in S : \A n \in S : m <= n
<1>1. IsWellFoundedOn(OpToRel(<, Nat), Nat)
  BY NatLessThanWellFounded
<1>2. PICK m \in S : \A n \in S : <<n, m>> \notin OpToRel(<, Nat)
  BY <1>1, WFMin
<1>3. ASSUME NEW n \in S
      PROVE  m <= n
  <2>1. m \in Nat /\ n \in Nat
    OBVIOUS
  <2>2. ~ (n < m)
    BY <1>2, <2>1 DEF OpToRel
  <2>3. QED
    BY <2>1, <2>2
<1>4. QED
  BY <1>3

\* A worker that went through its program has come to every collective that
\* another one is in: it called that site, and called it at the same place.
LEMMA FinishedArrived ==
  ASSUME HybridInv, NEW r \in busy, NEW q \in Ranks, Done(q)
  PROVE  Len(calls[q]) >= Len(calls[r])
<1> DEFINE n == Len(calls[r])
           l == layer[r]
           p == phase[r]
<1>0. TypeOK /\ Recorded /\ Increasing /\ Complete /\ Waiting /\ SameCalls
  BY DEF HybridInv
<1>1. r \in Ranks
  BY <1>0 DEF TypeOK
<1>2. /\ n \in Nat /\ DOMAIN calls[r] = 1..n /\ l \in Nat /\ p \in 1..13
      /\ Len(calls[q]) \in Nat /\ DOMAIN calls[q] = 1..Len(calls[q])
  BY <1>0, <1>1, Sites
<1>3. n > 0 /\ l < Passes /\ calls[r][n].layer = l /\ calls[r][n].phase = p
  BY <1>0 DEF Waiting, LastCall
<1>4. n \in DOMAIN calls[r]
  BY <1>2, <1>3
<1>5. CallSite(l, p)
  BY <1>0, <1>1, <1>3, <1>4 DEF Recorded
<1>6. Earlier(l, p, layer[q], phase[q])
  BY <1>3 DEF Earlier, Done
<1>7. PICK j \in DOMAIN calls[q] : calls[q][j].layer = l /\ calls[q][j].phase = p
  <2>1. l \in 0..(Passes - 1) /\ p \in Metadata..Logits
    BY <1>5 DEF CallSite
  <2>2. QED
    BY <1>0, <1>5, <1>6, <2>1 DEF Complete
<1>8. SUFFICES ASSUME Len(calls[q]) < n
               PROVE  FALSE
  BY <1>2
<1>9. j \in DOMAIN calls[r] /\ j < n
  BY <1>2, <1>8
<1>10. calls[r][j].layer = l /\ calls[r][j].phase = p
  BY <1>0, <1>1, <1>7, <1>9 DEF SameCalls, SameCall
<1>11. Earlier(l, p, l, p)
  BY <1>0, <1>1, <1>3, <1>4, <1>9, <1>10 DEF Increasing
<1>12. l \in Nat /\ p \in Nat
  BY <1>2
<1>13. QED
  BY <1>11, <1>12, Order

\* So has one whose forward raised: its peers are still in their first collective.
LEMMA RaisedArrived ==
  ASSUME HybridInv, Raised, FailsTogether, NEW r \in busy, NEW q \in failed
  PROVE  Len(calls[q]) >= Len(calls[r])
<1> DEFINE n == Len(calls[r])
<1>0. TypeOK /\ Increasing /\ Waiting
  BY DEF HybridInv
<1>1. r \in Ranks /\ q \in Ranks
  BY <1>0 DEF TypeOK
<1>2. n \in Nat /\ DOMAIN calls[r] = 1..n /\ Len(calls[q]) \in Nat
  BY <1>0, <1>1, Sites
<1>3. n > 0 /\ calls[r][n].layer = 0 /\ calls[r][n].phase = 1
  <2>1. layer[r] = 0 /\ phase[r] = 1
    BY <1>1, Phases DEF FailsTogether
  <2>2. QED
    BY <1>0, <2>1 DEF Waiting, LastCall
<1>4. ASSUME n > 1
      PROVE  FALSE
  <2>1. 1 \in DOMAIN calls[r] /\ n \in DOMAIN calls[r] /\ 1 < n
    BY <1>2, <1>4
  <2>2. Earlier(calls[r][1].layer, calls[r][1].phase, 0, 1)
    BY <1>0, <1>1, <1>3, <2>1 DEF Increasing
  <2>3. calls[r][1].layer \in Nat /\ calls[r][1].phase \in 1..13
    BY <1>0, <1>1, <2>1, Sites
  <2>4. QED
    BY <2>2, <2>3 DEF Earlier
<1>5. Len(calls[q]) > 0
  BY DEF Raised
<1>6. QED
  BY <1>2, <1>4, <1>5

\* Of the running workers, one with fewest calls waits for nobody.
LEMMA SomebodyGoesOn ==
  ASSUME HybridInv, Raised, FailsTogether
  PROVE  NobodyHangs
<1>0. TypeOK
  BY DEF HybridInv
<1>1. SUFFICES ASSUME NEW s \in Ranks, Running(s)
               PROVE  \E r \in Ranks : Running(r) /\ (r \in busy => Arrived(r))
  BY DEF NobodyHangs
<1> DEFINE S == {n \in Nat : \E r \in Ranks : Running(r) /\ Len(calls[r]) = n}
<1>2. Len(calls[s]) \in S
  BY <1>0, <1>1, Sites
<1>3. PICK m \in S : \A n \in S : m <= n
  BY <1>2, LeastOf
<1>4. PICK r \in Ranks : Running(r) /\ Len(calls[r]) = m
  BY <1>3
<1>5. ASSUME r \in busy, NEW q \in Awaited(r)
      PROVE  Len(calls[q]) >= Len(calls[r])
  <2>1. q \in Ranks
    <3>1. calls[r] \in Seq(CallRecord) /\ Len(calls[r]) > 0
      BY <1>0, <1>5 DEF TypeOK, HybridInv, Waiting
    <3>2. LastCall(r) \in CallRecord
      BY <3>1 DEF LastCall
    <3>3. LastCall(r).root \in Ranks
      BY <3>2 DEF CallRecord
    <3>4. QED
      BY <1>5, <3>3 DEF Awaited
  <2>2. CASE Running(q)
    <3>1. Len(calls[q]) \in S
      BY <1>0, <2>1, <2>2, Sites
    <3>2. QED
      BY <1>3, <1>4, <3>1
  <2>3. CASE Done(q)
    BY <1>5, <2>1, <2>3, FinishedArrived
  <2>4. CASE q \in failed
    BY <1>5, <2>4, RaisedArrived
  <2>5. QED
    BY <2>2, <2>3, <2>4 DEF Running
<1>6. r \in busy => Arrived(r)
  BY <1>5 DEF Arrived
<1>7. QED
  BY <1>4, <1>6

\* All ranks execute identical sequences (hybrid_parallel.py:5), so none waits for
\* a call that is never made: for every number of workers, layers and draft passes,
\* every partition, switch setting and encoder outcome, while a worker has still to
\* finish some worker can go on.
THEOREM WorkersNeverHang == Spec => []NobodyHangs
<1>1. Init => Raised
  BY DEF Init, Raised
<1>2. HybridInv /\ Raised /\ [Next]_vars => Raised'
  BY RaisedStep
<1>3. HybridInv /\ Raised /\ FailsTogether => NobodyHangs
  BY SomebodyGoesOn
<1>4. QED
  BY <1>1, <1>2, <1>3, HybridInvariant, ErrorsStopEverybody, PTL DEF Spec

=============================================================================
