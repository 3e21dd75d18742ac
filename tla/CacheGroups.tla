----------------------------- MODULE CacheGroups -----------------------------
(***************************************************************************)
(* serving/hybrid_cache_groups.py and serving/plan_hybrid_placement.py.    *)
(* vLLM puts the caches of all layers into groups whose layers share a     *)
(* physical block, and a block on a worker is as wide as that worker's     *)
(* widest group.  When layers have owners, refine_owner_state_groups moves *)
(* layers of bounded (sliding-window) state out of groups that would widen *)
(* a block past the worker's history; the planner estimates, from one      *)
(* measured start, the caches that every other cut between the owners      *)
(* would leave room for.  Both are functions; here their inputs vary.      *)
(***************************************************************************)
EXTENDS Naturals, Integers, Sequences, FiniteSets, FiniteSetsExt, SequencesExt

CONSTANTS
  LayerCount,  \* target layers 0 .. LayerCount - 1, and the draft layer after them
  Align,       \* a block is a multiple of this many bytes
  Reserve,     \* workspace the planner is told to keep free on each worker
  Models,      \* the caches a model's layers need, and vLLM's groups of them
  Receipts     \* attestations of a start

Workers == {0, 1}
Target == 0..(LayerCount - 1)
Layers == 0..LayerCount

Towers == {"visual", "audio_tower"}
CacheGroup == [eagle : BOOLEAN, layers : Seq(Layers)]

\* A page of a layer's cache, its window (0: history, all of it is kept), and groups.
Caches == [page : [Layers -> Nat \ {0}], window : [Layers -> Nat], groups : Seq(CacheGroup)]
Attestations ==
  [passed : BOOLEAN, workerPassed : [Workers -> BOOLEAN], owns : [Workers -> SUBSET Target],
   full : SUBSET Target, dense : [Target -> Nat], tower : [Towers -> [Workers -> Nat]],
   kv : [Workers -> Int]]

\* The layers of a group have one type, and a layer one place in one group.
Uniform(m, names) == \A y, z \in names : m.window[y] = m.window[z]
Distinct(groups) ==
  \A i, j \in DOMAIN groups : \A x \in DOMAIN groups[i].layers, y \in DOMAIN groups[j].layers :
    groups[i].layers[x] = groups[j].layers[y] => i = j /\ x = y
Names(groups) == UNION {ToSet(g.layers) : g \in ToSet(groups)}

PlacementAssumption ==
  /\ LayerCount \in Nat \ {0, 1} /\ Align \in Nat \ {0} /\ Reserve \in Nat
  /\ Models \subseteq Caches /\ Receipts \subseteq Attestations
  /\ \A m \in Models :
       /\ \A g \in ToSet(m.groups) : g.layers # <<>> /\ Uniform(m, ToSet(g.layers))
       /\ Distinct(m.groups) /\ Names(m.groups) = Layers

VARIABLES
  model,       \* the layers' caches and their global groups
  receipt,     \* the attestation the planner was given
  held,        \* the layers with a cache on each worker
  refined,     \* what refine_owner_state_groups returned for them
  estimate     \* the planner's row for the last cut

vars == <<model, receipt, held, refined, estimate>>

-----------------------------------------------------------------------------
(* refine_owner_state_groups.                                              *)

\* What some layers take together.
Total(bytes, names) ==
  LET upto[z \in 0..(LayerCount + 1)] ==
        IF z = 0 THEN 0 ELSE upto[z - 1] + (IF z - 1 \in names THEN bytes[z - 1] ELSE 0)
  IN upto[LayerCount + 1]

IsState(m, g) == \A z \in ToSet(g.layers) : m.window[z] # 0
Width(m, names) == Total(m.page, names)
Largest(S) == IF S = {} THEN 0 ELSE Max(S)

\* The widest history group of a worker, and what a state group may be wide there.
Anchor(m, on) == Largest({Width(m, ToSet(g.layers) \cap on) : g \in {f \in ToSet(m.groups) : ~IsState(m, f)}})
StateLayers(m) == UNION {ToSet(g.layers) : g \in {f \in ToSet(m.groups) : IsState(m, f)}}
Limit(m, on) == Largest({Anchor(m, on)} \cup {m.page[z] : z \in StateLayers(m) \cap on})

\* Mutant: a group that fits somewhere is taken to fit.
FitsSomewhere(m, h, names) == \E w \in Workers : Width(m, names \cap h[w]) <= Limit(m, h[w])

Fits(m, h, names) == \A w \in Workers : Width(m, names \cap h[w]) <= Limit(m, h[w])

\* One layer of a state group is retained or overflows.
Retain(m, h, g, acc, z) ==
  IF Fits(m, h, ToSet(acc.kept) \cup {z})
  THEN [acc EXCEPT !.kept = Append(@, z)]
  ELSE [acc EXCEPT !.over = Append(@, [eagle |-> g.eagle, layer |-> z])]

Split(m, h, g) ==
  LET upto[i \in 0..Len(g.layers)] ==
        IF i = 0 THEN [kept |-> <<>>, over |-> <<>>] ELSE Retain(m, h, g, upto[i - 1], g.layers[i])
  IN IF IsState(m, g) THEN upto[Len(g.layers)] ELSE [kept |-> g.layers, over |-> <<>>]

Overflow(m, h) ==
  LET upto[i \in 0..Len(m.groups)] ==
        IF i = 0 THEN <<>> ELSE upto[i - 1] \o Split(m, h, m.groups[i]).over
  IN upto[Len(m.groups)]

\* An overflowing layer goes to the first extra group that takes it.
Takes(m, h, g, one) ==
  LET names == ToSet(g.layers) \cup {one.layer}
  IN g.eagle = one.eagle /\ Uniform(m, names) /\ Fits(m, h, names)

Place(m, h, extra, one) ==
  LET fit == {i \in DOMAIN extra : Takes(m, h, extra[i], one)}
  IN IF fit = {} THEN Append(extra, [eagle |-> one.eagle, layers |-> <<one.layer>>])
     ELSE [extra EXCEPT ![Min(fit)].layers = Append(@, one.layer)]

Extra(m, h, over) ==
  LET upto[i \in 0..Len(over)] == IF i = 0 THEN <<>> ELSE Place(m, h, upto[i - 1], over[i])
  IN upto[Len(over)]

Raised == <<>>  \* one of the ValueErrors; no list of groups is empty

\* Groups keep their places, extra ones follow.
Refine(m, h) ==
  LET kept == [i \in DOMAIN m.groups |-> [m.groups[i] EXCEPT !.layers = Split(m, h, m.groups[i]).kept]]
      output == kept \o Extra(m, h, Overflow(m, h))
  IN IF \/ \E g \in ToSet(output) : g.layers = <<>> \/ ~Uniform(m, ToSet(g.layers))
        \/ ~Distinct(output) \/ Names(output) # Names(m.groups)
     THEN Raised ELSE output

\* vLLM (external): the bytes a physical block has on a worker.
Aligned(bytes) == ((bytes + Align - 1) \div Align) * Align
Stride(m, groups, on) == Aligned(Largest({Width(m, ToSet(g.layers) \cap on) : g \in ToSet(groups)}))

-----------------------------------------------------------------------------
(* The planner.                                                            *)

\* Ownership a cut gives; the draft layer, after all cuts, stays on worker 1.
CutAt(cut) == [w \in Workers |-> {z \in Layers : (z < cut) = (w = 0)}]
Replicated == [w \in Workers |-> Layers]

Present(r, t) == {r.tower[t][w] : w \in {v \in Workers : r.tower[t][v] # 0}}

\* What storage_plan accepts.
ValidReceipt(m, r) ==
  /\ r.passed /\ \A w \in Workers : r.workerPassed[w]
  /\ r.owns[0] \cap r.owns[1] = {}
  /\ r.owns[0] \cup r.owns[1] = Target
  /\ r.full = {z \in Target : m.window[z] = 0}
  /\ \A t \in Towers : Cardinality(Present(r, t)) = 1

OldTowers(r, w) == r.tower["visual"][w] + r.tower["audio_tower"][w]
Moved(r, owner, w, t) == IF owner[t] = w THEN Max(Present(r, t)) ELSE 0
NewTowers(r, owner, w) == Moved(r, owner, w, "visual") + Moved(r, owner, w, "audio_tower")

\* The cache memory of a worker if the layers were cut there and the towers moved.
Budget(r, cut, owner, w) ==
  r.kv[w] + Total(r.dense, r.owns[w]) + OldTowers(r, w)
    - Total(r.dense, CutAt(cut)[w] \cap Target) - NewTowers(r, owner, w) - Reserve

\* apply_real_cache_planner for one cut, with refined or with the global groups.
Pools(m, groups, cut, budget) ==
  IF \E w \in Workers : budget[w] <= 0
  THEN [feasible |-> FALSE, common |-> 0]
  ELSE LET stride == [w \in Workers |-> Stride(m, groups, CutAt(cut)[w])]
       IN [feasible |-> TRUE, stride |-> stride,
           common |-> Min({budget[w] \div stride[w] : w \in Workers})]

-----------------------------------------------------------------------------

None == [kind |-> "none"]
Refused == [kind |-> "refused"]

Init ==
  /\ model \in Models
  /\ receipt \in Receipts
  /\ held = CutAt(1)
  /\ refined = Refine(model, held)
  /\ estimate = None

\* A start of vLLM: the workers report their layers, the groups are refined.
Serve ==
  /\ held' \in {CutAt(cut) : cut \in 1..(LayerCount - 1)} \cup {Replicated}
  /\ refined' = Refine(model, held')
  /\ estimate' = None
  /\ UNCHANGED <<model, receipt>>

\* The groups a cut is estimated with, and a cut whose budget is below one block,
\* by which the planner divides: it ends, and no candidate is written.
Candidate(cut, budget, refine) ==
  IF refine /\ (\A w \in Workers : budget[w] > 0) THEN Refine(model, CutAt(cut)) ELSE model.groups

NoBlock(owner, refine) ==
  \E cut \in 1..(LayerCount - 1) :
    LET budget == [w \in Workers |-> Budget(receipt, cut, owner, w)]
        pools == Pools(model, Candidate(cut, budget, refine), cut, budget)
    IN pools.feasible /\ pools.common = 0

\* One candidate of the planner; an invalid receipt is refused as a whole.
Estimate ==
  \E owner \in [Towers -> Workers], refine \in BOOLEAN :
    /\ ValidReceipt(model, receipt) /\ ~NoBlock(owner, refine)
    /\ \E cut \in 1..(LayerCount - 1) :
         LET budget == [w \in Workers |-> Budget(receipt, cut, owner, w)]
         IN /\ held' = CutAt(cut)
            /\ refined' = Candidate(cut, budget, refine)
            /\ refined' # Raised
            /\ estimate' = [kind |-> "row", cut |-> cut, owner |-> owner, refine |-> refine,
                            budget |-> budget, pools |-> Pools(model, refined', cut, budget)]
            /\ UNCHANGED <<model, receipt>>

Refuse ==
  /\ ValidReceipt(model, receipt) =>
       \E owner \in [Towers -> Workers], refine \in BOOLEAN : NoBlock(owner, refine)
  /\ estimate' = Refused
  /\ UNCHANGED <<model, receipt, held, refined>>

Next == Serve \/ Estimate \/ Refuse

Spec == Init /\ [][Next]_vars

-----------------------------------------------------------------------------

Was == model.groups

\* Nothing is lost: each layer is in one group, a group keeps its place and only
\* loses layers, and groups of history are left alone.
Regrouped ==
  /\ \A z \in Layers : Cardinality({i \in DOMAIN refined : z \in ToSet(refined[i].layers)}) = 1
  /\ \A i \in DOMAIN Was :
       /\ ToSet(refined[i].layers) \subseteq ToSet(Was[i].layers)
       /\ refined[i].eagle = Was[i].eagle
       /\ ~IsState(model, Was[i]) => refined[i] = Was[i]
  /\ \A i \in DOMAIN refined : \A z \in ToSet(refined[i].layers) :
       \E j \in DOMAIN Was : z \in ToSet(Was[j].layers) /\ Was[j].eagle = refined[i].eagle

\* And it was for something: a block is no wider than the worker's history, or
\* than one state layer that is wider than all its history.
Narrow ==
  \A w \in Workers : Stride(model, refined, held[w]) = Aligned(Limit(model, held[w]))

\* The row for a placement is consistent: pools of the common size fit the budget
\* of each worker and one block more does not fit all; refining never costs blocks;
\* the measured placement is estimated at what was measured.
Consistent ==
  LET e == estimate
      placed == \A t \in Towers, w \in Workers : (receipt.tower[t][w] # 0) = (e.owner[t] = w)
      pools == e.pools
  IN /\ pools.feasible =>
          /\ \A w \in Workers : pools.common * pools.stride[w] <= e.budget[w]
          /\ \E w \in Workers : (pools.common + 1) * pools.stride[w] > e.budget[w]
          /\ e.refine => Pools(model, Was, e.cut, e.budget).common <= pools.common
     /\ (CutAt(e.cut)[0] = receipt.owns[0] /\ placed) =>
          \A w \in Workers : e.budget[w] = receipt.kv[w] - Reserve

\* Caches are regrouped without loss for every placement, as narrow as they can be
\* (hybrid_cache_groups.py; the claims check_hybrid_cache_groups.py makes for seven
\* cuts), and the planner's rows are consistent with its receipt.
PlacementSound ==
  /\ refined # Raised /\ Regrouped
  /\ estimate.kind = "none" => Narrow
  /\ estimate.kind = "row" => Consistent /\ (estimate.refine /\ estimate.pools.feasible => Narrow)
=============================================================================
