--------------------- MODULE LayerBoundaryStoreProofs ---------------------
(***************************************************************************)
(* Proofs that the layer-boundary store keeps its resume point through any *)
(* interleaving of commits, crashes, power failures and restarts, for any  *)
(* number of layers and any contents, and that it implements StableLog.    *)
(* Type correctness needs nothing; the rest assumes ReplayDurable.         *)
(***************************************************************************)
EXTENDS LayerBoundaryStore, FiniteSetTheorems, TLAPS

(* Membership facts about the directory operators.                         *)

\* A boundary is present exactly when its name is there.
LEMMA PresentName ==
  ASSUME NEW D, NEW b
  PROVE  b \in Present(D) <=> <<b, "name">> \in D
<1>1. <<b, "name">> \in D => b \in {x[1] : x \in D}
  <2>1. <<b, "name">>[1] = b
    OBVIOUS
  <2> QED BY <2>1
<1> QED BY <1>1 DEF Present

\* What fsync of the root does to the name of one boundary, and to its contents.
LEMMA SyncedPieces ==
  ASSUME NEW D, NEW V, NEW b
  PROVE  /\ <<b, "name">> \in RootSynced(D, V) <=> <<b, "name">> \in D
         /\ \A c \in Contents : <<b, c>> \in RootSynced(D, V) <=>
                                  <<b, c>> \in V /\ <<b, "name">> \in D
  BY DEF RootSynced, Contents

\* fsync of the root keeps the type of the durable pieces.
LEMMA SyncedType ==
  ASSUME NEW D, NEW V, D \subseteq Boundary \X Pieces, V \subseteq Boundary \X Pieces
  PROVE  RootSynced(D, V) \subseteq Boundary \X Pieces
  BY DEF RootSynced

\* A boundary's layer is a natural number in range.
LEMMA BoundaryLayer ==
  ASSUME NEW b \in Boundary
  PROVE  b.layer \in Layers /\ b.layer \in Int
<1>1. PICK k \in Layers : b \in [layer : {k}, index : [FirstLayer..k -> Entry], acts : Acts]
  BY DEF Boundary
<1>2. b.layer = k
  BY <1>1
<1> QED BY <1>2, LayersAssumption DEF Layers

\* Every boundary that may come back is well formed.
LEMMA AnywhereType ==
  ASSUME TypeOK, NEW b \in Anywhere
  PROVE  b \in Boundary /\ b.layer \in Int
<1>1. <<b, "name">> \in disk \/ <<b, "name">> \in durable
  BY PresentName DEF Anywhere
<1>2. b \in Boundary
  BY <1>1 DEF TypeOK
<1> QED BY <1>2, BoundaryLayer

\* Kept and Firm, said of the one boundary they are about.
LEMMA FirmIsPresent ==
  ASSUME NEW b, Firm(b)
  PROVE  b \in Present(disk) /\ b \in Anywhere /\ Kept(b) /\ Complete(disk, b)
  BY PresentName DEF Firm, Kept, Anywhere, Complete, Pieces, Contents

-----------------------------------------------------------------------------
(* Type correctness.                                                       *)

\* The initial state is well typed.
LEMMA TypeInit == Init => TypeOK
  BY LayersAssumption DEF Init, TypeOK, NoLayer, Committing, Staging

\* Every step keeps the types, action by action.
LEMMA TypeStep ==
  ASSUME TypeOK, [Next]_storeVars
  PROVE  TypeOK'
<1> USE LayersAssumption DEF TypeOK, NoLayer, Committing, Staging, Layers, Pieces, Contents
<1>1. ASSUME Prune PROVE durable' \subseteq Boundary \X Pieces
  BY <1>1, SyncedType DEF Prune
<1>2. CASE LoadLatest
  <2>1. ASSUME NEW b \in Latest(disk) PROVE b \in Boundary /\ b.layer \in Layers
    <3>1. <<b, "name">> \in disk
      BY PresentName DEF Latest
    <3> QED BY <3>1, BoundaryLayer
  <2> QED BY <1>1, <1>2, <2>1 DEF LoadLatest, Leftover
<1>3. ASSUME NEW b \in Boundary, BeginCommit(b) PROVE TypeOK'
  BY <1>1, <1>3 DEF BeginCommit
<1>4. ASSUME NEW k \in Layers, RefuseCommit(k) PROVE TypeOK'
  BY <1>1, <1>4 DEF RefuseCommit, Leftover
<1>5. CASE WritePayload
  BY <1>5 DEF WritePayload
<1>6. CASE FlushPayload
  BY <1>6 DEF FlushPayload
<1>7. CASE WriteManifest
  BY <1>7 DEF WriteManifest
<1>8. CASE SealStaging
  BY <1>8 DEF SealStaging
<1>9. CASE Promote
  <2>1. CASE dest \in Present(disk)
    BY <1>9, <2>1 DEF Promote
  <2>2. CASE dest \notin Present(disk)
    <3>1. dest \in Boundary
      BY <1>9 DEF Promote
    <3>2. {dest} \X tmp \subseteq Boundary \X Pieces
      BY <3>1
    <3>3. {dest} \X (dtmp \cap Contents) \subseteq Boundary \X Pieces
      BY <3>1
    <3> QED BY <1>9, <2>2, <3>2, <3>3 DEF Promote
  <2> QED BY <2>1, <2>2
<1>10. CASE SyncPromotion
  BY <1>10, SyncedType, BoundaryLayer DEF SyncPromotion
<1>11. CASE FinishCommit
  BY <1>11, SyncedType, BoundaryLayer DEF FinishCommit
<1>12. ASSUME NEW x \in disk, Discard(x[1], x[2]) PROVE TypeOK'
  BY <1>12 DEF Discard
<1>13. CASE AbortCommit
  BY <1>13 DEF AbortCommit
<1>14. CASE Crash
  BY <1>14 DEF Crash
<1>15. CASE PowerLoss
  <2>1. disk' \subseteq Boundary \X Pieces
    BY <1>15 DEF PowerLoss, Reachable
  <2> QED BY <1>15, <2>1 DEF PowerLoss
<1>16. CASE UNCHANGED storeVars
  BY <1>16 DEF storeVars
<1> QED
  BY <1>2, <1>3, <1>4, <1>5, <1>6, <1>7, <1>8, <1>9, <1>10, <1>11, <1>12, <1>13,
     <1>14, <1>15, <1>16 DEF Next, CommitStep, Fault

\* Every variable of the store keeps its type.
THEOREM StoreTypeCorrect == Spec => []TypeOK
<1>1. TypeOK /\ [Next]_storeVars => TypeOK'
  BY TypeStep
<1> QED BY TypeInit, <1>1, PTL DEF Spec

-----------------------------------------------------------------------------
(* The safety invariant.  DiskInv is the part about the medium alone.      *)

DiskInv == Rooted /\ Unique /\ Covered /\ AckedFirm

\* Changes that leave the disk, the medium and the barrier alone.
LEMMA DiskUnchanged ==
  ASSUME DiskInv, UNCHANGED <<disk, durable, acked>>
  PROVE  DiskInv' /\ Anywhere' = Anywhere /\ (\A b : Kept(b)' <=> Kept(b))
  BY DEF DiskInv, Rooted, Unique, Covered, AckedFirm, Anywhere, Kept, Firm

\* fsync of the root only turns visible names permanent and drops invisible ones.
LEMMA RootSync ==
  ASSUME DiskInv, disk' = disk, durable' = RootSynced(disk, durable)
  PROVE  /\ Anywhere' = Present(disk) /\ Anywhere' \subseteq Anywhere
         /\ \A b \in Present(disk) : Kept(b) => Kept(b)' /\ Firm(b)'
         /\ Rooted' /\ Unique' /\ Covered'
         /\ acked' = acked => AckedFirm'
<1>1. Anywhere' = Present(disk)
  <2>1. ASSUME NEW b PROVE b \in Present(durable') <=> b \in Present(disk)
    BY PresentName, SyncedPieces
  <2>2. Anywhere' = Present(disk') \cup Present(durable')
    BY DEF Anywhere
  <2> QED BY <2>1, <2>2
<1>2. Anywhere' \subseteq Anywhere
  BY <1>1 DEF Anywhere
<1>3. ASSUME NEW b \in Present(disk), Kept(b)
      PROVE  Kept(b)' /\ Firm(b)'
  <2>1. <<b, "name">> \in disk /\ <<b, "name">> \in durable'
    BY PresentName, SyncedPieces
  <2>2. Kept(b)'
    BY <1>3, <2>1, SyncedPieces DEF Kept
  <2> QED BY <2>1, <2>2 DEF Firm
<1>4. Rooted'
  BY DEF DiskInv, Rooted
<1>5. Unique'
  BY <1>2 DEF DiskInv, Unique
<1>6. \A c : Firm(c) => c \in Anywhere' /\ Firm(c)'
  BY <1>1, <1>3, FirmIsPresent
<1>7. Covered'
  BY <1>1, <1>2, <1>3, <1>6 DEF DiskInv, Covered
<1>8. acked' = acked => AckedFirm'
  BY <1>6 DEF DiskInv, AckedFirm
<1> QED BY <1>1, <1>2, <1>3, <1>4, <1>5, <1>7, <1>8

\* The pruning at the start of a load or a commit is harmless to the rest.
LEMMA PruneSafe ==
  ASSUME DiskInv, Prune, UNCHANGED <<disk, acked>>
  PROVE  DiskInv' /\ Anywhere' \subseteq Anywhere
<1>1. CASE tmp = {}
  BY <1>1, DiskUnchanged DEF Prune
<1>2. CASE tmp # {}
  BY <1>2, RootSync DEF Prune, DiskInv
<1> QED BY <1>1, <1>2

\* The newest visible boundary is complete: if content were missing, a newer
\* one would be permanent.
LEMMA NewestComplete ==
  ASSUME TypeOK, DiskInv, NEW b \in Latest(disk)
  PROVE  Complete(disk, b)
<1>1. b \in Present(disk) /\ b \in Anywhere /\ <<b, "name">> \in disk
  BY PresentName DEF Latest, Anywhere
<1>2. Kept(b)
  <2>1. SUFFICES ASSUME NEW c \in Anywhere, b.layer < c.layer, Firm(c) PROVE FALSE
    BY <1>1 DEF DiskInv, Covered
  <2>2. c.layer <= b.layer
    BY <2>1, FirmIsPresent DEF Latest
  <2> QED BY <1>1, <2>1, <2>2, AnywhereType
<1> QED BY <1>1, <1>2 DEF Kept, Complete, Pieces, Contents

\* A commit that follows the newest boundary is newer than everything a power
\* failure could bring back.
LEMMA CommitIsFresh ==
  ASSUME TypeOK, DiskInv, NEW k \in Layers, Follows(k), NEW b \in Anywhere
  PROVE  b.layer < k
<1> USE AnywhereType
<1>1. k \in Int
  BY LayersAssumption DEF Layers
<1>2. \E c \in Present(disk) : b.layer <= c.layer
  <2>1. CASE b \in Present(disk)
    BY <2>1
  <2>2. CASE b \notin Present(disk)
    <3>1. ~Kept(b)
      BY <2>2, PresentName DEF DiskInv, Rooted, Kept, Contents
    <3>2. PICK c \in Anywhere : b.layer < c.layer /\ Firm(c)
      BY <3>1 DEF DiskInv, Covered
    <3> QED BY <3>2, FirmIsPresent
  <2> QED BY <2>1, <2>2
<1>3. PICK c \in Present(disk) : b.layer <= c.layer
  BY <1>2
<1>4. PICK d \in Latest(disk) : d.layer = k - 1
  BY <1>3 DEF Follows
<1>5. c.layer <= d.layer /\ c \in Anywhere
  BY <1>3 DEF Latest, Anywhere
<1> QED BY <1>1, <1>3, <1>4, <1>5

\* An empty store satisfies the inductive invariant.
LEMMA SafetyInit ==
  ASSUME Init
  PROVE  IInv
<1>1. Anywhere = {}
  BY DEF Init, Anywhere, Present
<1> QED BY <1>1, TypeInit DEF Init, IInv, Rooted, Unique, Covered, AckedFirm, StagingInv,
                              PromotedInv, Staging

\* The rename makes dest the newest boundary, its contents already permanent.
LEMMA PromoteSafe ==
  ASSUME IInv, Promote
  PROVE  DiskInv' /\ PromotedInv'
<1> USE DEF IInv
<1>1. /\ dest \in Boundary /\ dest.layer \in Int
      /\ \A b \in Anywhere : b.layer < dest.layer /\ b.layer \in Int
      /\ Pieces \subseteq tmp /\ Contents \subseteq dtmp
  BY AnywhereType, BoundaryLayer DEF Promote, TypeOK, StagingInv, Staging, Committing, Pieces, Contents
<1>2. dest \notin Present(disk) /\ dest \notin Anywhere
  BY <1>1 DEF Anywhere
<1>3. /\ disk' = disk \cup ({dest} \X tmp)
      /\ durable' = durable \cup ({dest} \X (dtmp \cap Contents))
      /\ pc' = "promoted" /\ dest' = dest /\ acked' = acked
  BY <1>2 DEF Promote
<1>4. \A b, c : <<b, c>> \in disk' <=> <<b, c>> \in disk \/ (b = dest /\ c \in tmp)
  BY <1>3
<1>5. \A b, c : <<b, c>> \in durable' <=> <<b, c>> \in durable \/ (b = dest /\ c \in dtmp \cap Contents)
  BY <1>3
<1>6. Kept(dest)' /\ <<dest, "name">> \in disk'
  BY <1>1, <1>3, <1>4, <1>5 DEF Kept, Pieces, Contents
<1>7. Anywhere' = Anywhere \cup {dest}
  <2>1. ASSUME NEW b PROVE b \in Present(disk') <=> b \in Present(disk) \/ b = dest
    BY <1>1, <1>4, PresentName DEF Pieces
  <2>2. ASSUME NEW b PROVE b \in Present(durable') <=> b \in Present(durable)
    <3>1. "name" \notin Contents
      BY DEF Contents
    <3>2. <<b, "name">> \in durable' <=> <<b, "name">> \in durable
      BY <1>5, <3>1
    <3> QED BY <3>2, PresentName
  <2>3. Anywhere' = Present(disk') \cup Present(durable')
    BY DEF Anywhere
  <2> QED BY <2>1, <2>2, <2>3 DEF Anywhere
<1>8. \A b : (Kept(b) => Kept(b)') /\ (Firm(b) => Firm(b)')
  BY <1>4, <1>5 DEF Kept, Firm
<1>9. Rooted'
  <2>1. \A x \in disk' : x \in disk \/ x[1] = dest
    BY <1>3
  <2> QED BY <1>4, <1>6, <2>1 DEF Rooted
<1>10. Unique'
  BY <1>1, <1>7 DEF Unique
<1>11. Covered'
  BY <1>3, <1>6, <1>7, <1>8 DEF Covered
<1>12. AckedFirm'
  BY <1>3, <1>7, <1>8 DEF AckedFirm
<1>13. PromotedInv'
  BY <1>1, <1>3, <1>6, <1>7 DEF PromotedInv
<1> QED BY <1>9, <1>10, <1>11, <1>12, <1>13 DEF DiskInv

\* rmtree of an older generation leans on the newer, permanent one.
LEMMA DiscardSafe ==
  ASSUME IInv, NEW x \in disk, Discard(x[1], x[2])
  PROVE  DiskInv' /\ PromotedInv'
<1> USE DEF IInv
<1> DEFINE old == x[1]
<1>1. /\ pc = "discarding" /\ old # dest /\ pc' = pc /\ dest' = dest
      /\ acked' = acked /\ durable' = durable /\ disk' = disk \ {<<old, x[2]>>}
  BY DEF Discard
<1>2. /\ dest \in Boundary /\ Firm(dest) /\ dest \in Anywhere /\ dest.layer \in Int
      /\ \A b \in Anywhere : b # dest => b.layer < dest.layer
  BY <1>1, FirmIsPresent, AnywhereType DEF PromotedInv, TypeOK, Committing
<1>3. \A b, c : b # old => (<<b, c>> \in disk' <=> <<b, c>> \in disk)
  BY <1>1
<1>4. \A b : b # old => (Kept(b)' <=> Kept(b)) /\ (Firm(b)' <=> Firm(b))
  BY <1>1, <1>3 DEF Kept, Firm
<1>5. Anywhere' \subseteq Anywhere /\ \A b \in Anywhere : b # old => b \in Anywhere'
  <2>1. ASSUME NEW b PROVE b \in Present(disk') => b \in Present(disk)
    BY <1>1, PresentName
  <2>2. ASSUME NEW b, b # old PROVE b \in Present(disk) => b \in Present(disk')
    BY <1>3, <2>2, PresentName
  <2>3. Anywhere' = Present(disk') \cup Present(durable)
    BY <1>1 DEF Anywhere
  <2> QED BY <2>1, <2>2, <2>3 DEF Anywhere
<1>6. dest \in Anywhere' /\ Firm(dest)' /\ Kept(dest)' /\ <<dest, "name">> \in disk'
  BY <1>1, <1>2, <1>4, <1>5 DEF Firm
<1>7. Rooted'
  <2>1. SUFFICES ASSUME NEW y \in disk' PROVE <<y[1], "name">> \in disk'
    BY DEF Rooted
  <2>2. y \in disk /\ <<y[1], "name">> \in disk /\ y \in Boundary \X Pieces
    BY <1>1 DEF Rooted, TypeOK
  <2>3. CASE y[1] # old
    BY <1>3, <2>2, <2>3
  <2>4. CASE y[1] = old /\ x[2] # "name"
    BY <1>1, <2>2, <2>4
  <2>5. CASE y[1] = old /\ x[2] = "name"
    <3>1. \A c \in Contents : <<old, c>> \notin disk
      BY <2>5 DEF Discard
    <3>2. y = <<old, y[2]>> /\ y[2] \in Pieces
      BY <2>2, <2>5
    <3>3. y[2] = "name"
      BY <2>2, <3>1, <3>2 DEF Pieces
    <3> QED BY <1>1, <2>1, <2>5, <3>2, <3>3
  <2> QED BY <2>3, <2>4, <2>5
<1>8. Unique'
  BY <1>5 DEF Unique
<1>9. Covered'
  <2>1. PICK d : d = dest
    OBVIOUS
  <2>2. d \in Anywhere' /\ Kept(d)' /\ Firm(d)'
    BY <1>1, <1>2, <1>4, <1>6, <2>1, FirmIsPresent
  <2>3. \A b \in Anywhere' : b # d => b.layer < d.layer
    BY <1>2, <1>5, <2>1
  <2> QED BY <2>2, <2>3 DEF Covered
<1>10. AckedFirm'
  <2>1. SUFFICES ASSUME acked # NoLayer PROVE acked <= dest.layer
    BY <1>1, <1>6 DEF AckedFirm
  <2>2. PICK c \in Anywhere : acked <= c.layer
    BY <2>1 DEF AckedFirm
  <2> QED BY <1>2, <2>2, AnywhereType, LayersAssumption DEF TypeOK, NoLayer
<1>11. PromotedInv'
  BY <1>1, <1>2, <1>5, <1>6 DEF PromotedInv
<1> QED BY <1>7, <1>8, <1>9, <1>10, <1>11 DEF DiskInv

\* A power failure keeps everything that is both visible and permanent.
LEMMA PowerLossSafe ==
  ASSUME TypeOK, DiskInv, PowerLoss
  PROVE  /\ DiskInv'
         /\ \A b : Firm(b) => Firm(b)' /\ b \in Anywhere'
<1>1. PICK S \in SUBSET ((disk \ durable) \cup (durable \ disk)) :
        disk' = Reachable((disk \cap durable) \cup S)
  BY DEF PowerLoss
<1>2. durable' = disk' /\ acked' = acked
  BY DEF PowerLoss
<1>3. \A b, c : <<b, c>> \in disk' <=>
        /\ <<b, c>> \in (disk \cap durable) \cup S
        /\ <<b, "name">> \in (disk \cap durable) \cup S
  BY <1>1 DEF Reachable
<1>4. Anywhere' = Present(disk')
  BY <1>2 DEF Anywhere
<1>5. Anywhere' \subseteq Anywhere
  <2>1. SUFFICES ASSUME NEW b \in Present(disk') PROVE b \in Anywhere
    BY <1>4
  <2>2. <<b, "name">> \in disk'
    BY PresentName
  <2>3. <<b, "name">> \in disk \/ <<b, "name">> \in durable
    BY <1>1, <1>3, <2>2
  <2> QED BY <2>3, PresentName DEF Anywhere
<1>6. ASSUME NEW b \in Anywhere', Kept(b) PROVE Kept(b)'
  <2>1. <<b, "name">> \in disk'
    BY <1>4, PresentName
  <2> QED BY <1>2, <1>3, <1>6, <2>1 DEF Kept
<1>7. ASSUME NEW b, Firm(b) PROVE Firm(b)' /\ b \in Anywhere'
  <2>1. <<b, "name">> \in disk' /\ \A c \in Contents : <<b, c>> \in disk'
    BY <1>3, <1>7 DEF Firm, Kept
  <2> QED BY <1>2, <1>4, <2>1, PresentName DEF Firm, Kept
<1>8. Rooted'
  BY <1>1 DEF Rooted, Reachable
<1>9. Unique'
  BY <1>5 DEF DiskInv, Unique
<1>10. Covered'
  BY <1>5, <1>6, <1>7 DEF DiskInv, Covered
<1>11. AckedFirm'
  BY <1>2, <1>7 DEF DiskInv, AckedFirm
<1> QED BY <1>7, <1>8, <1>9, <1>10, <1>11 DEF DiskInv

-----------------------------------------------------------------------------
(* The step, action by action.                                             *)

\* Every step keeps the inductive invariant, provided the replay shards that
\* commit only hard-links were on the medium before.
LEMMA SafetyStep ==
  ASSUME ReplayDurable, IInv, [Next]_storeVars
  PROVE  IInv'
<1> USE DEF IInv
<1>0. TypeOK' /\ DiskInv
  BY TypeStep DEF DiskInv
<1>1. CASE LoadLatest
  <2>1. DiskInv'
    BY <1>0, <1>1, PruneSafe DEF LoadLatest
  <2>2. pc' \in {"ready", "unloadable"} /\ pc' # "unloadable"
    BY <1>0, <1>1, NewestComplete DEF LoadLatest
  <2> QED BY <1>0, <2>1, <2>2 DEF DiskInv, StagingInv, PromotedInv, Staging
<1>2. ASSUME NEW b \in Boundary, BeginCommit(b) PROVE IInv'
  <2>1. DiskInv' /\ Anywhere' \subseteq Anywhere
    BY <1>0, <1>2, PruneSafe DEF BeginCommit
  <2>2. \A c \in Anywhere' : c.layer < dest'.layer
    BY <1>0, <1>2, <2>1, CommitIsFresh, BoundaryLayer DEF BeginCommit
  <2>3. StagingInv' /\ PromotedInv'
    BY <1>2, <2>2 DEF BeginCommit, StagingInv, PromotedInv, Staging
  <2> QED BY <1>0, <1>2, <2>1, <2>3 DEF BeginCommit, DiskInv
<1>3. ASSUME NEW k \in Layers, RefuseCommit(k) PROVE IInv'
  <2>1. DiskInv'
    BY <1>0, <1>3, PruneSafe DEF RefuseCommit
  <2> QED BY <1>0, <1>3, <2>1 DEF RefuseCommit, DiskInv, StagingInv, PromotedInv, Staging
<1>4. CASE WritePayload \/ FlushPayload \/ WriteManifest \/ SealStaging
  <2> USE DEF WritePayload, FlushPayload, WriteManifest, SealStaging
  <2>1. UNCHANGED <<disk, durable, acked, dest>> /\ pc \in Staging /\ pc' \in Staging
    BY <1>4 DEF Staging
  <2>2. DiskInv' /\ Anywhere' = Anywhere
    BY <1>0, <2>1, DiskUnchanged
  <2>3. PromotedInv'
    BY <2>1 DEF PromotedInv, Staging
  <2>4. StagingInv'
    <3>1. \A b \in Anywhere' : b.layer < dest'.layer
      BY <2>1, <2>2 DEF StagingInv
    <3>2. CASE WritePayload
      BY <2>1, <3>1, <3>2 DEF StagingInv
    <3>3. CASE FlushPayload
      BY <2>1, <3>1, <3>3 DEF StagingInv
    <3>4. CASE WriteManifest
      BY <2>1, <3>1, <3>4 DEF StagingInv
    <3>5. CASE SealStaging
      BY <2>1, <3>1, <3>5 DEF StagingInv
    <3> QED BY <1>4, <3>2, <3>3, <3>4, <3>5
  <2> QED BY <1>0, <2>1, <2>2, <2>3, <2>4 DEF DiskInv, Staging
<1>5. CASE Promote
  <2>1. pc' = "promoted"
    <3>1. dest \notin Present(disk)
      BY <1>5, AnywhereType DEF Promote, StagingInv, Staging, Anywhere
    <3> QED BY <1>5, <3>1 DEF Promote
  <2> QED BY <1>0, <1>5, <2>1, PromoteSafe DEF DiskInv, StagingInv, Staging
<1>6. CASE SyncPromotion
  <2>1. UNCHANGED <<disk, dest>> /\ pc = "promoted" /\ pc' = "discarding"
    BY <1>6 DEF SyncPromotion
  <2>2. /\ Anywhere' \subseteq Anywhere /\ Anywhere' = Present(disk)
        /\ Rooted' /\ Unique' /\ Covered'
        /\ \A b \in Present(disk) : Kept(b) => Kept(b)' /\ Firm(b)'
    BY <1>0, <1>6, RootSync DEF SyncPromotion
  <2>3. PICK d : d = dest
    OBVIOUS
  <2>4. dest \in Present(disk) /\ Kept(d)' /\ Firm(d)' /\ Firm(dest)'
    BY <2>1, <2>2, <2>3, PresentName DEF PromotedInv, Firm, Kept
  <2>5. PromotedInv'
    BY <2>1, <2>2, <2>4, PresentName DEF PromotedInv, Firm
  <2>6. AckedFirm'
    <3>1. d \in Anywhere' /\ acked' <= d.layer
      BY <1>0, <1>6, <2>2, <2>3, <2>4, BoundaryLayer DEF SyncPromotion, TypeOK, Committing
    <3> QED BY <2>4, <3>1 DEF AckedFirm
  <2> QED BY <1>0, <2>1, <2>2, <2>5, <2>6 DEF StagingInv, Staging
<1>7. CASE FinishCommit
  <2>1. DiskInv'
    BY <1>0, <1>7, RootSync DEF FinishCommit, DiskInv
  <2> QED BY <1>0, <1>7, <2>1 DEF FinishCommit, DiskInv, StagingInv, PromotedInv, Staging
<1>8. ASSUME NEW x \in disk, Discard(x[1], x[2]) PROVE IInv'
  BY <1>0, <1>8, DiscardSafe DEF Discard, DiskInv, StagingInv, Staging
<1>9. CASE AbortCommit \/ Crash
  <2>1. UNCHANGED <<disk, durable, acked>> /\ pc' = "down"
    BY <1>9 DEF AbortCommit, Crash
  <2> QED BY <1>0, <2>1, DiskUnchanged DEF DiskInv, StagingInv, PromotedInv, Staging
<1>10. CASE PowerLoss
  <2>1. pc' = "down"
    BY <1>10 DEF PowerLoss
  <2> QED BY <1>0, <1>10, <2>1, PowerLossSafe DEF DiskInv, StagingInv, PromotedInv, Staging
<1>11. CASE UNCHANGED storeVars
  <2>1. UNCHANGED <<disk, durable, acked, tmp, dtmp, dest, pc>>
    BY <1>11 DEF storeVars
  <2>2. DiskInv' /\ Anywhere' = Anywhere
    BY <1>0, <2>1, DiskUnchanged
  <2>3. StagingInv'
    BY <2>1, <2>2 DEF StagingInv
  <2>4. PromotedInv'
    BY <2>1, <2>2 DEF PromotedInv, Kept, Firm
  <2> QED BY <1>0, <2>1, <2>2, <2>3, <2>4 DEF DiskInv
<1> QED
  BY <1>1, <1>2, <1>3, <1>4, <1>5, <1>6, <1>7, <1>8, <1>9, <1>10, <1>11
     DEF Next, CommitStep, Fault

\* The inductive invariant holds in every reachable state.
THEOREM StoreSafety ==
  ASSUME ReplayDurable
  PROVE  Spec => []IInv
<1>1. IInv /\ [Next]_storeVars => IInv'
  BY SafetyStep
<1> QED BY SafetyInit, <1>1, PTL DEF Spec

\* The newest boundary can always be loaded, whatever was interrupted.
THEOREM NewestLoadable ==
  ASSUME ReplayDurable
  PROVE  Spec => []NewestIsLoadable
<1>1. IInv => NewestIsLoadable
  BY NewestComplete DEF IInv, DiskInv, NewestIsLoadable
<1> QED BY <1>1, StoreSafety, PTL

\* A promotion reported durable stays loadable through every failure.
THEOREM BarrierHolds ==
  ASSUME ReplayDurable
  PROVE  Spec => []BarrierKept
<1>1. IInv => BarrierKept
  BY FirmIsPresent DEF IInv, AckedFirm, BarrierKept
<1> QED BY <1>1, StoreSafety, PTL

\* No layer has two generations and a commit never meets its own destination.
THEOREM GenerationUnique ==
  ASSUME ReplayDurable
  PROVE  Spec => []OneGenerationPerLayer
<1>1. IInv => OneGenerationPerLayer
  BY DEF IInv, Unique, StagingInv, Staging, Anywhere, OneGenerationPerLayer
<1> QED BY <1>1, StoreSafety, PTL

\* Only a permanent newer boundary, or a power failure before the barrier, makes
\* a complete boundary unloadable.
THEOREM DiscardIsSafe ==
  ASSUME ReplayDurable
  PROVE  Spec => DiscardAfterBarrier
<1> DEFINE Lost(b) == Complete(disk, b) /\ ~Complete(disk', b)
           Safe(b) == \/ \E c \in Present(disk') : b.layer < c.layer /\ Complete(disk' \cap durable', c)
                      \/ acked < b.layer
<1>1. ASSUME IInv, [Next]_storeVars
      PROVE  [\A b \in Present(disk) : Lost(b) => Safe(b)]_storeVars
  <2> SUFFICES ASSUME NEW b \in Present(disk), Lost(b) PROVE Safe(b)
    OBVIOUS
  <2> USE <1>1 DEF IInv
  <2>1. b \in Anywhere /\ b.layer \in Int /\ TypeOK /\ DiskInv
    BY AnywhereType DEF Anywhere, DiskInv
  <2>2. ASSUME disk \subseteq disk' PROVE FALSE
    BY <2>2 DEF Complete
  <2>3. CASE PowerLoss
    <3>1. SUFFICES ASSUME b.layer <= acked PROVE Safe(b)
      BY <2>1, LayersAssumption DEF TypeOK, NoLayer
    <3>2. acked # NoLayer
      <4>1. b.layer \in Layers
        BY <2>1, AnywhereType, BoundaryLayer
      <4> QED BY <3>1, <4>1, LayersAssumption DEF NoLayer, Layers
    <3>3. PICK c \in Anywhere : acked <= c.layer /\ Firm(c)
      BY <3>2 DEF AckedFirm
    <3>4. c.layer \in Int /\ b.layer <= c.layer
      BY <2>1, <3>1, <3>3, AnywhereType, LayersAssumption DEF TypeOK, NoLayer
    <3>5. Complete(disk' \cap durable', c) /\ c \in Present(disk') /\ Complete(disk', c)
      <4>1. Firm(c)'
        BY <2>1, <2>3, <3>3, PowerLossSafe
      <4> QED BY <4>1, PresentName DEF Firm, Kept, Complete, Pieces, Contents
    <3>6. b # c
      BY <3>5
    <3>7. b.layer < c.layer
      BY <2>1, <3>4, <3>6 DEF Unique
    <3> QED BY <3>5, <3>7
  <2>4. ASSUME NEW x \in disk, Discard(x[1], x[2]) PROVE Safe(b)
    <3>1. /\ pc = "discarding" /\ x[1] # dest /\ durable' = durable
          /\ disk' = disk \ {<<x[1], x[2]>>}
      BY <2>4 DEF Discard
    <3>2. b # dest
      BY <3>1 DEF PromotedInv, Firm, Kept, Complete, Pieces, Contents
    <3>3. b.layer < dest.layer /\ Firm(dest)
      BY <2>1, <3>1, <3>2 DEF PromotedInv
    <3>4. Complete(disk' \cap durable', dest) /\ dest \in Present(disk')
      BY <3>1, <3>3, PresentName DEF Firm, Kept, Complete, Pieces, Contents
    <3> QED BY <3>3, <3>4
  <2>5. CASE Promote
    BY <2>2, <2>5 DEF Promote
  <2>6. ASSUME disk' = disk PROVE Safe(b)
    BY <2>2, <2>6
  <2> QED
    BY <2>3, <2>4, <2>5, <2>6
       DEF Next, CommitStep, Fault, LoadLatest, BeginCommit, RefuseCommit, WritePayload,
           FlushPayload, WriteManifest, SealStaging, SyncPromotion, FinishCommit,
           AbortCommit, Crash, storeVars
<1>2. IInv /\ [Next]_storeVars => [\A b \in Present(disk) : Lost(b) => Safe(b)]_storeVars
  BY <1>1
<1>3. Spec => [][\A b \in Present(disk) : Lost(b) => Safe(b)]_storeVars
  BY <1>2, StoreSafety, PTL DEF Spec
<1> QED BY <1>3 DEF DiscardAfterBarrier

-----------------------------------------------------------------------------
(* The store as a stable log.                                              *)

\* Of any boundaries one is the newest.
LEMMA HasNewest ==
  ASSUME NEW B \in SUBSET Boundary, B # {}
  PROVE  \E b \in B : \A c \in B : c.layer <= b.layer
<1> DEFINE R == OpToRel(<, Nat)
           T == {LastLayer - b.layer : b \in B}
<1>1. \A b \in B : b.layer \in Int /\ LastLayer - b.layer \in Nat
  BY BoundaryLayer, LayersAssumption DEF Layers
<1>2. T \subseteq Nat /\ T # {}
  BY <1>1
<1> HIDE DEF R, T
<1>3. PICK x \in T : \A y \in T : ~ (<<y, x>> \in R)
  BY <1>2, WFMin, NatLessThanWellFounded DEF R
<1>4. PICK b \in B : x = LastLayer - b.layer
  BY <1>3 DEF T
<1>5. ASSUME NEW c \in B PROVE c.layer <= b.layer
  <2>1. LastLayer - c.layer \in T /\ LastLayer - c.layer \in Nat /\ x \in Nat
    BY <1>1, <1>3, <1>2 DEF T
  <2>2. ~ (<<LastLayer - c.layer, x>> \in R)
    BY <1>3, <2>1
  <2>3. ~ (LastLayer - c.layer < x)
    BY <2>1, <2>2 DEF R, OpToRel
  <2>4. QED
    BY <1>1, <1>4, <2>3, LayersAssumption
<1>6. QED
  BY <1>5

\* What a boundary says of the layers up to its own.
Told(b) == [n \in 1..(b.layer - NoLayer) |-> b.index[n + NoLayer]]

\* It is a sequence of entries, no longer than the target layers.
LEMMA TellsEntries ==
  ASSUME NEW b \in Boundary
  PROVE  /\ b.layer - NoLayer \in Nat /\ b.layer - NoLayer <= LastLayer - NoLayer
         /\ \A j \in FirstLayer..b.layer : b.index[j] \in Entry
         /\ Told(b) \in Seq(Entry) /\ Len(Told(b)) = b.layer - NoLayer
<1>1. PICK k \in Layers : b \in [layer : {k}, index : [FirstLayer..k -> Entry], acts : Acts]
  BY DEF Boundary
<1>2. b.layer = k /\ b.index \in [FirstLayer..k -> Entry]
  BY <1>1
<1>3. b.layer \in Int /\ FirstLayer <= b.layer /\ b.layer <= LastLayer
  BY BoundaryLayer, LayersAssumption DEF Layers
<1>4. b.layer - NoLayer \in Nat /\ b.layer - NoLayer <= LastLayer - NoLayer
  BY <1>3, LayersAssumption DEF NoLayer
<1>5. \A j \in FirstLayer..b.layer : b.index[j] \in Entry
  BY <1>2
<1>6. Told(b) \in [1..(b.layer - NoLayer) -> Entry]
  BY <1>3, <1>5, LayersAssumption DEF NoLayer, Told
<1> DEFINE m == b.layer - NoLayer
<1>7. m \in Nat /\ Told(b) \in [1..m -> Entry]
  BY <1>4, <1>6
<1> HIDE DEF m
<1>8. Told(b) \in Seq(Entry) /\ Len(Told(b)) = m
  BY <1>7
<1>9. QED
  BY <1>4, <1>5, <1>8 DEF m

\* The pairs of one boundary number its layers.
LEMMA LogOfOne ==
  ASSUME NEW b \in Boundary
  PROVE  /\ LogOf({b}) = {<<n, Told(b)[n]>> : n \in 1..(b.layer - NoLayer)}
         /\ Cardinality(LogOf({b})) = b.layer - NoLayer
<1>1. /\ b.layer \in Int /\ FirstLayer \in Int /\ b.layer - NoLayer \in Nat /\ NoLayer = FirstLayer - 1
  BY BoundaryLayer, TellsEntries, LayersAssumption DEF NoLayer
<1> DEFINE m == b.layer - NoLayer
           P == {<<n, Told(b)[n]>> : n \in 1..m}
           f == [n \in 1..m |-> <<n, Told(b)[n]>>]
<1>2. LogOf({b}) = P
  <2>1. LogOf({b}) = {<<j - NoLayer, b.index[j]>> : j \in FirstLayer..b.layer}
    BY DEF LogOf
  <2>2. ASSUME NEW j \in FirstLayer..b.layer PROVE <<j - NoLayer, b.index[j]>> \in P
    <3>1. j - NoLayer \in 1..m /\ (j - NoLayer) + NoLayer = j
      BY <1>1
    <3>2. Told(b)[j - NoLayer] = b.index[j]
      BY <3>1 DEF Told
    <3>3. QED
      BY <3>1, <3>2
  <2>3. ASSUME NEW n \in 1..m PROVE <<n, Told(b)[n]>> \in {<<j - NoLayer, b.index[j]>> : j \in FirstLayer..b.layer}
    <3>1. n + NoLayer \in FirstLayer..b.layer /\ (n + NoLayer) - NoLayer = n
      BY <1>1
    <3>2. Told(b)[n] = b.index[n + NoLayer]
      BY DEF Told
    <3>3. QED
      BY <3>1, <3>2
  <2>4. QED
    BY <2>1, <2>2, <2>3
<1>3. f \in Bijection(1..m, P)
  <2>1. f \in Injection(1..m, P)
    BY DEF Injection, IsInjective
  <2>2. f \in Surjection(1..m, P)
    BY DEF Surjection
  <2>3. QED
    BY <2>1, <2>2 DEF Bijection
<1>4. ExistsBijection(1..m, P)
  BY <1>3 DEF ExistsBijection
<1>5. IsFiniteSet(1..m) /\ Cardinality(1..m) = m
  BY <1>1, FS_Interval
<1>6. Cardinality(P) = m
  BY <1>4, <1>5, FS_Bijection
<1>7. QED
  BY <1>2, <1>6

\* What a reader of the store would find: the log of the newest boundary.
LEMMA NewestLogIs ==
  ASSUME NEW D, NEW b \in Boundary, Latest(D) = {b}
  PROVE  LET pairs == LogOf(Latest(D))
         IN [n \in 1..Cardinality(pairs) |-> CHOOSE e \in Entry : <<n, e>> \in pairs] = Told(b)
<1> DEFINE m == b.layer - NoLayer
           pairs == LogOf({b})
           P == {<<n, Told(b)[n]>> : n \in 1..m}
<1>1. pairs = P /\ Cardinality(pairs) = m /\ m \in Nat
  BY LogOfOne, TellsEntries
<1>2. ASSUME NEW n \in 1..m PROVE (CHOOSE e \in Entry : <<n, e>> \in pairs) = Told(b)[n]
  <2>1. Told(b)[n] \in Entry
    <3>1. n + NoLayer \in FirstLayer..b.layer
      BY <1>1, BoundaryLayer, LayersAssumption DEF NoLayer
    <3>2. QED
      BY <3>1, TellsEntries DEF Told
  <2>2. <<n, Told(b)[n]>> \in pairs
    BY <1>1
  <2>3. \A e : <<n, e>> \in pairs => e = Told(b)[n]
    BY <1>1
  <2>4. QED
    BY <2>1, <2>2, <2>3
<1>3. [n \in 1..m |-> CHOOSE e \in Entry : <<n, e>> \in pairs] = [n \in 1..m |-> Told(b)[n]]
  BY <1>2
<1>4. Told(b) = [n \in 1..m |-> Told(b)[n]]
  BY DEF Told
<1>5. QED
  BY <1>1, <1>3, <1>4

\* An empty store reads as the empty log.
LEMMA EmptyLogIs ==
  ASSUME NEW D, Latest(D) = {}
  PROVE  LET pairs == LogOf(Latest(D))
         IN [n \in 1..Cardinality(pairs) |-> CHOOSE e \in Entry : <<n, e>> \in pairs] = <<>>
<1>1. LogOf(Latest(D)) = {}
  BY DEF LogOf
<1>2. Cardinality(LogOf(Latest(D))) = 0 /\ 1..0 = {}
  BY <1>1, FS_EmptySet
<1>3. QED
  BY <1>1, <1>2

\* How many entries the boundaries of a set tell of: the newest one's.
LEMMA LengthOf ==
  ASSUME NEW B \in SUBSET Boundary, NEW b \in B, \A c \in B : c.layer <= b.layer
  PROVE  Cardinality({x[1] : x \in LogOf(B)}) = b.layer - NoLayer
<1> DEFINE m == b.layer - NoLayer
<1>1. m \in Nat /\ NoLayer = FirstLayer - 1 /\ FirstLayer \in Int /\ b.layer \in Int
      /\ \A c \in B : c.layer \in Int
  BY BoundaryLayer, TellsEntries, LayersAssumption DEF NoLayer
<1>2. {x[1] : x \in LogOf(B)} = 1..m
  <2>1. ASSUME NEW x \in LogOf(B) PROVE x[1] \in 1..m
    <3>1. PICK c \in B : x \in {<<j - NoLayer, c.index[j]>> : j \in FirstLayer..c.layer}
      BY <2>1 DEF LogOf
    <3>2. PICK j \in FirstLayer..c.layer : x[1] = j - NoLayer
      BY <3>1
    <3>3. QED
      BY <1>1, <3>2
  <2>2. ASSUME NEW n \in 1..m PROVE \E x \in LogOf(B) : x[1] = n
    <3>1. n + NoLayer \in FirstLayer..b.layer /\ (n + NoLayer) - NoLayer = n
      BY <1>1
    <3>2. <<n, b.index[n + NoLayer]>> \in LogOf(B)
      BY <3>1 DEF LogOf
    <3>3. QED
      BY <3>2
  <2>3. QED
    BY <2>1, <2>2
<1>3. Cardinality(1..m) = m
  BY <1>1, FS_Interval
<1>4. QED
  BY <1>2, <1>3

\* No boundary tells of nothing.
LEMMA NoLength == Cardinality({x[1] : x \in LogOf({})}) = 0
<1>1. {x[1] : x \in LogOf({})} = {}
  BY DEF LogOf
<1>2. QED
  BY <1>1, FS_EmptySet

\* The two readings of a state: none, or one newest boundary.
\* What a reader finds: nothing, or one newest boundary that can be loaded.
OneNewest ==
  \/ Latest(disk) = {} /\ Present(disk) = {}
  \/ \E b \in Present(disk) : b \in Boundary /\ Latest(disk) = {b} /\ Complete(disk, b) /\ Kept(b)

\* In every state that the invariant allows, the newest boundary is one and complete.
LEMMA LatestIs ==
  ASSUME TypeOK, DiskInv
  PROVE  OneNewest
<1>1. Present(disk) \subseteq Boundary /\ Present(disk) \subseteq Anywhere
  BY AnywhereType DEF Anywhere
<1>2. CASE Present(disk) = {}
  BY <1>2 DEF Latest, OneNewest
<1>3. CASE Present(disk) # {}
  <2>1. PICK b \in Present(disk) : \A c \in Present(disk) : c.layer <= b.layer
    BY <1>1, <1>3, HasNewest
  <2>2. b \in Latest(disk) /\ b \in Boundary
    BY <1>1, <2>1 DEF Latest
  <2>3. ASSUME NEW c \in Latest(disk) PROVE c = b
    <3>1. c \in Present(disk) /\ c.layer <= b.layer /\ b.layer <= c.layer
      BY <2>1 DEF Latest
    <3>2. c.layer \in Int /\ b.layer \in Int /\ c \in Anywhere /\ b \in Anywhere
      BY <1>1, <3>1, BoundaryLayer
    <3>3. QED
      BY <3>1, <3>2 DEF DiskInv, Unique
  <2>4. Complete(disk, b)
    BY <2>2, NewestComplete
  <2>5. Kept(b)
    <3>1. SUFFICES ASSUME NEW c \in Anywhere, b.layer < c.layer, Firm(c) PROVE FALSE
      BY <1>1, <2>1 DEF DiskInv, Covered
    <3>2. c.layer <= b.layer /\ c.layer \in Int /\ b.layer \in Int
      BY <2>1, <3>1, <1>1, FirmIsPresent, AnywhereType
    <3>3. QED
      BY <3>1, <3>2
  <2>6. QED
    BY <2>2, <2>3, <2>4, <2>5 DEF OneNewest
<1>4. QED
  BY <1>2, <1>3

-----------------------------------------------------------------------------
(* Every boundary continues the older ones.                                *)

\* c tells of b's layers what b does.
Agree(b, c) == \A j \in FirstLayer..b.layer : c.index[j] = b.index[j]

\* All the boundaries there are, and the one being staged, are of one lineage; the staged one
\* is of the next layer.
Chain ==
  /\ \A b, c \in Anywhere : b.layer <= c.layer => Agree(b, c)
  /\ pc \in Staging =>
       /\ \A b \in Anywhere : Agree(b, dest)
       /\ IF Present(disk) = {} THEN dest.layer = FirstLayer
            ELSE \E b \in Latest(disk) : b.layer = dest.layer - 1

\* A boundary that may come back is no newer than the newest one.
LEMMA NothingNewer ==
  ASSUME TypeOK, DiskInv, NEW b \in Anywhere
  PROVE  \E c \in Latest(disk) : b.layer <= c.layer /\ c \in Present(disk) /\ c \in Anywhere
<1>1. \E c \in Present(disk) : b.layer <= c.layer /\ c.layer \in Int /\ b.layer \in Int
  <2>1. CASE b \in Present(disk)
    BY <2>1, AnywhereType
  <2>2. CASE b \notin Present(disk)
    <3>1. ~Kept(b)
      BY <2>2, PresentName DEF DiskInv, Rooted, Kept, Contents
    <3>2. PICK c \in Anywhere : b.layer < c.layer /\ Firm(c)
      BY <3>1 DEF DiskInv, Covered
    <3>3. c \in Present(disk) /\ c.layer \in Int /\ b.layer \in Int
      BY <3>2, FirmIsPresent, AnywhereType
    <3> QED BY <3>2, <3>3
  <2> QED BY <2>1, <2>2
<1>2. PICK c \in Present(disk) : b.layer <= c.layer /\ c.layer \in Int /\ b.layer \in Int
  BY <1>1
<1>3. PICK d \in Present(disk) : d \in Boundary /\ Latest(disk) = {d}
  BY <1>2, LatestIs DEF OneNewest
<1>4. c.layer <= d.layer /\ d \in Anywhere /\ d.layer \in Int
  BY <1>2, <1>3, BoundaryLayer DEF Latest, Anywhere
<1> QED BY <1>2, <1>3, <1>4

\* The first part survives whatever adds no boundary.
LEMMA AgreeKept ==
  ASSUME Chain, Anywhere' \subseteq Anywhere
  PROVE  \A b, c \in Anywhere' : b.layer <= c.layer => Agree(b, c)
BY DEF Chain

\* Every step keeps the boundaries a chain.
LEMMA ChainStep ==
  ASSUME IInv, Chain, [Next]_storeVars
  PROVE  Chain'
<1> USE DEF IInv
<1>0. TypeOK /\ DiskInv
  BY DEF DiskInv
<1>1. ASSUME Anywhere' \subseteq Anywhere, pc' \notin Staging PROVE Chain'
  BY <1>1, AgreeKept DEF Chain, Agree
<1>2. CASE LoadLatest \/ (\E k \in Layers : RefuseCommit(k))
  <2>1. Prune /\ UNCHANGED <<disk, acked>> /\ pc' \notin Staging
    BY <1>2 DEF LoadLatest, RefuseCommit, Staging
  <2>2. QED
    BY <1>0, <1>1, <2>1, PruneSafe
<1>3. ASSUME NEW b \in Boundary, BeginCommit(b) PROVE Chain'
  <2>1. Anywhere' \subseteq Anywhere /\ dest' = b /\ disk' = disk /\ Follows(b.layer) /\ Extends(b)
    BY <1>0, <1>3, PruneSafe DEF BeginCommit
  <2>2. ASSUME NEW c \in Anywhere PROVE Agree(c, b)
    <3>1. PICK d \in Latest(disk) : c.layer <= d.layer /\ d \in Anywhere
      BY <1>0, NothingNewer
    <3>2. Agree(c, d) /\ c.layer \in Int /\ d.layer \in Int
      BY <1>0, <3>1, AnywhereType DEF Chain
    <3>3. ASSUME NEW j \in FirstLayer..c.layer PROVE b.index[j] = c.index[j]
      <4>1. j \in FirstLayer..d.layer
        BY <3>1, <3>2, LayersAssumption
      <4>2. QED
        BY <2>1, <3>1, <3>2, <4>1 DEF Extends, Agree
    <3>4. QED
      BY <3>3 DEF Agree
  <2>3. IF Present(disk) = {} THEN b.layer = FirstLayer ELSE \E c \in Latest(disk) : c.layer = b.layer - 1
    BY <2>1 DEF Follows
  <2>4. \A c, d \in Anywhere' : c.layer <= d.layer => Agree(c, d)
    BY <2>1, AgreeKept
  <2>5. QED
    BY <2>1, <2>2, <2>3, <2>4 DEF Chain, Agree
<1>4. CASE WritePayload \/ FlushPayload \/ WriteManifest \/ SealStaging \/ UNCHANGED storeVars
  <2>1. UNCHANGED <<disk, durable, dest>> /\ (pc' \in Staging => pc \in Staging)
    BY <1>4 DEF WritePayload, FlushPayload, WriteManifest, SealStaging, storeVars, Staging
  <2>2. Anywhere' = Anywhere
    BY <2>1 DEF Anywhere
  <2>3. QED
    BY <2>1, <2>2 DEF Chain, Agree
<1>5. CASE Promote
  <2>1. /\ dest \in Boundary /\ dest.layer \in Int
        /\ \A b \in Anywhere : b.layer < dest.layer /\ b.layer \in Int /\ Agree(b, dest)
    BY <1>5, AnywhereType, BoundaryLayer DEF Promote, TypeOK, StagingInv, Staging, Committing, Chain
  <2>2. Anywhere' \subseteq Anywhere \cup {dest} /\ pc' \notin Staging
    <3>1. disk' \subseteq disk \cup ({dest} \X tmp) /\ durable' \subseteq durable \cup ({dest} \X (dtmp \cap Contents))
          /\ pc' \notin Staging
      BY <1>5 DEF Promote, Staging
    <3>2. ASSUME NEW b, <<b, "name">> \in disk' \/ <<b, "name">> \in durable' PROVE b \in Anywhere \cup {dest}
      <4>1. <<b, "name">> \in disk \/ <<b, "name">> \in durable \/ b = dest
        BY <3>1, <3>2
      <4>2. QED
        BY <4>1, PresentName DEF Anywhere
    <3>3. Anywhere' = Present(disk') \cup Present(durable')
      BY DEF Anywhere
    <3>4. QED
      BY <3>1, <3>2, <3>3, PresentName
  <2>3. ASSUME NEW b \in Anywhere', NEW c \in Anywhere', b.layer <= c.layer PROVE Agree(b, c)
    <3>1. CASE b = dest
      <4>1. c = dest
        BY <2>1, <2>2, <2>3, <3>1
      <4>2. QED
        BY <3>1, <4>1 DEF Agree
    <3>2. CASE b # dest /\ c = dest
      BY <2>1, <2>2, <3>2
    <3>3. CASE b # dest /\ c # dest
      BY <2>2, <2>3, <3>3 DEF Chain
    <3>4. QED
      BY <3>1, <3>2, <3>3
  <2>4. QED
    BY <2>2, <2>3 DEF Chain, Agree
<1>6. CASE SyncPromotion \/ FinishCommit
  <2>1. disk' = disk /\ durable' = RootSynced(disk, durable) /\ pc' \notin Staging
    BY <1>6 DEF SyncPromotion, FinishCommit, Staging
  <2>2. QED
    BY <1>0, <1>1, <2>1, RootSync
<1>7. ASSUME NEW x \in disk, Discard(x[1], x[2]) PROVE Chain'
  <2>1. disk' \subseteq disk /\ durable' = durable /\ pc' \notin Staging
    BY <1>7 DEF Discard, Staging
  <2>2. Anywhere' \subseteq Anywhere
    <3>1. \A b \in Present(disk') : b \in Present(disk)
      BY <2>1, PresentName
    <3>2. QED
      BY <2>1, <3>1 DEF Anywhere
  <2>3. QED
    BY <1>1, <2>1, <2>2
<1>8. CASE AbortCommit \/ Crash
  <2>1. UNCHANGED <<disk, durable>> /\ pc' \notin Staging
    BY <1>8 DEF AbortCommit, Crash, Staging
  <2>2. QED
    BY <1>1, <2>1 DEF Anywhere
<1>9. CASE PowerLoss
  <2>1. Anywhere' \subseteq Anywhere /\ pc' \notin Staging
    <3>1. disk' \subseteq disk \cup durable /\ durable' = disk' /\ pc' \notin Staging
      BY <1>9 DEF PowerLoss, Reachable, Staging
    <3>2. \A b \in Present(disk') : b \in Present(disk) \cup Present(durable)
      BY <3>1, PresentName
    <3>3. QED
      BY <3>1, <3>2 DEF Anywhere
  <2>2. QED
    BY <1>1, <2>1
<1> QED
  BY <1>2, <1>3, <1>4, <1>5, <1>6, <1>7, <1>8, <1>9 DEF Next, CommitStep, Fault

-----------------------------------------------------------------------------
(* The steps, read as steps of the log.                                    *)

\* The first boundary tells of one layer.
LEMMA FirstTold ==
  ASSUME NEW c \in Boundary, c.layer = FirstLayer
  PROVE  Told(c) = Append(<<>>, c.index[c.layer])
<1>1. c.layer - NoLayer = 1 /\ 1 + NoLayer = c.layer
  BY LayersAssumption DEF NoLayer
<1>2. Told(c) = [n \in 1..1 |-> c.index[n + NoLayer]]
  BY <1>1 DEF Told
<1>3. [n \in 1..1 |-> c.index[n + NoLayer]] = <<c.index[c.layer]>>
  BY <1>1
<1>4. QED
  BY <1>2, <1>3

\* The boundary that follows another appends its own layer.
LEMMA NextTold ==
  ASSUME NEW b \in Boundary, NEW c \in Boundary, c.layer = b.layer + 1, Agree(b, c)
  PROVE  Told(c) = Append(Told(b), c.index[c.layer])
<1> DEFINE m == b.layer - NoLayer
<1>1. /\ m \in Nat /\ c.layer - NoLayer = m + 1 /\ (m + 1) + NoLayer = c.layer
      /\ Told(b) \in Seq(Entry) /\ Len(Told(b)) = m
      /\ NoLayer = FirstLayer - 1 /\ FirstLayer \in Int /\ b.layer \in Int
  BY TellsEntries, BoundaryLayer, LayersAssumption DEF NoLayer
<1>2. ASSUME NEW n \in 1..(m + 1)
      PROVE  Told(c)[n] = IF n = m + 1 THEN c.index[c.layer] ELSE Told(b)[n]
  <2>1. Told(c)[n] = c.index[n + NoLayer]
    BY <1>1 DEF Told
  <2>2. CASE n = m + 1
    BY <1>1, <2>1, <2>2
  <2>3. CASE n # m + 1
    <3>1. n \in 1..m /\ n + NoLayer \in FirstLayer..b.layer
      BY <1>1, <2>3
    <3>2. Told(b)[n] = b.index[n + NoLayer]
      BY <3>1 DEF Told
    <3>3. QED
      BY <2>1, <2>3, <3>1, <3>2 DEF Agree
  <2>4. QED
    BY <2>2, <2>3
<1>3. Told(c) = [n \in 1..(m + 1) |-> Told(c)[n]]
  BY <1>1 DEF Told
<1> HIDE DEF m
<1>4. Append(Told(b), c.index[c.layer]) = [n \in 1..(m + 1) |-> IF n = m + 1 THEN c.index[c.layer] ELSE Told(b)[n]]
  BY <1>1
<1>5. QED
  BY <1>2, <1>3, <1>4

\* An older boundary tells of a prefix.
LEMMA PrefixTold ==
  ASSUME NEW b \in Boundary, NEW c \in Boundary, b.layer <= c.layer, Agree(b, c)
  PROVE  Told(b) = SubSeq(Told(c), 1, Len(Told(b))) /\ Len(Told(b)) \in 0..Len(Told(c))
<1> DEFINE m == b.layer - NoLayer
           k == c.layer - NoLayer
<1>1. /\ m \in Nat /\ k \in Nat /\ m <= k
      /\ Len(Told(b)) = m /\ Len(Told(c)) = k /\ Told(c) \in Seq(Entry) /\ Told(b) \in Seq(Entry)
      /\ NoLayer = FirstLayer - 1 /\ FirstLayer \in Int /\ b.layer \in Int /\ c.layer \in Int
  BY TellsEntries, BoundaryLayer, LayersAssumption DEF NoLayer
<1>2. ASSUME NEW n \in 1..m PROVE Told(b)[n] = Told(c)[n]
  <2>1. n + NoLayer \in FirstLayer..b.layer /\ n \in 1..k
    BY <1>1
  <2>2. Told(b)[n] = b.index[n + NoLayer] /\ Told(c)[n] = c.index[n + NoLayer]
    BY <2>1 DEF Told
  <2>3. QED
    BY <2>1, <2>2 DEF Agree
<1>3. Told(b) = [n \in 1..m |-> Told(b)[n]]
  BY DEF Told
<1> HIDE DEF m, k
<1>4. SubSeq(Told(c), 1, m) = [n \in 1..m |-> Told(c)[n]]
  BY <1>1
<1>5. QED
  BY <1>1, <1>2, <1>3, <1>4

\* fsync of the root settles everything a reader would find.
LEMMA Settles ==
  ASSUME TypeOK, DiskInv, disk' = disk, durable' = RootSynced(disk, durable)
  PROVE  NewestLog' = NewestLog /\ StableLength' = Len(NewestLog)
<1>1. NewestLog' = NewestLog
  BY DEF NewestLog
<1>2. FirmBoundaries' \subseteq Present(disk) /\ Present(disk) \subseteq Boundary
  BY AnywhereType DEF FirmBoundaries, Anywhere
<1>3. CASE Latest(disk) = {} /\ Present(disk) = {}
  <2>1. FirmBoundaries' = {}
    BY <1>2, <1>3
  <2>2. StableLength' = 0
    BY <2>1, NoLength DEF StableLength
  <2>3. NewestLog = <<>>
    BY <1>3, EmptyLogIs DEF NewestLog
  <2>4. QED
    BY <1>1, <2>2, <2>3
<1>4. ASSUME NEW b \in Present(disk), b \in Boundary, Latest(disk) = {b}, Kept(b)
      PROVE  StableLength' = Len(NewestLog)
  <2>1. b \in FirmBoundaries'
    BY <1>4, RootSync DEF FirmBoundaries
  <2>2. \A c \in FirmBoundaries' : c.layer <= b.layer
    BY <1>2, <1>4 DEF Latest
  <2>3. PICK B : B = FirmBoundaries'
    OBVIOUS
  <2>4. Cardinality({x[1] : x \in LogOf(B)}) = b.layer - NoLayer
    BY <1>2, <2>1, <2>2, <2>3, LengthOf
  <2>5. StableLength' = b.layer - NoLayer
    BY <2>3, <2>4 DEF StableLength
  <2>6. NewestLog = Told(b)
    BY <1>4, NewestLogIs DEF NewestLog
  <2>7. QED
    BY <1>4, <2>5, <2>6, TellsEntries
<1>5. QED
  BY <1>1, <1>3, <1>4, LatestIs DEF OneNewest

\* The pruning syncs the root, or does nothing.
LEMMA PruneSettles ==
  ASSUME TypeOK, DiskInv, Prune, disk' = disk
  PROVE  NewestLog' = NewestLog /\ StableLength' \in {StableLength, Len(NewestLog)}
<1>1. CASE durable' = durable
  BY <1>1 DEF NewestLog, StableLength, FirmBoundaries, Firm, Kept
<1>2. CASE durable' = RootSynced(disk, durable)
  BY <1>2, Settles
<1>3. QED
  BY <1>1, <1>2 DEF Prune

\* The rename appends the new layer's entry.
LEMMA PromoteExtends ==
  ASSUME IInv, Chain, Promote
  PROVE  \E e \in Entry : Log!Extend(e)
<1> USE DEF IInv
<1>1. /\ dest \in Boundary /\ dest.layer \in Int
      /\ \A b \in Anywhere : b.layer < dest.layer /\ b.layer \in Int /\ Agree(b, dest)
      /\ Pieces \subseteq tmp /\ TypeOK /\ DiskInv
      /\ IF Present(disk) = {} THEN dest.layer = FirstLayer ELSE \E b \in Latest(disk) : b.layer = dest.layer - 1
  BY AnywhereType, BoundaryLayer
     DEF Promote, TypeOK, StagingInv, Staging, Committing, Pieces, Contents, DiskInv, Chain
<1>2. dest \notin Present(disk) /\ dest \notin Anywhere
  BY <1>1 DEF Anywhere
<1>3. /\ disk' = disk \cup ({dest} \X tmp)
      /\ durable' = durable \cup ({dest} \X (dtmp \cap Contents))
  BY <1>2 DEF Promote
<1>4. Present(disk') = Present(disk) \cup {dest}
  <2>1. ASSUME NEW b PROVE <<b, "name">> \in disk' <=> <<b, "name">> \in disk \/ b = dest
    BY <1>1, <1>3 DEF Pieces
  <2>2. ASSUME NEW b PROVE b \in Present(disk') <=> b \in Present(disk) \/ b = dest
    BY <2>1, PresentName
  <2>3. QED
    BY <2>2
<1>5. Latest(disk') = {dest}
  BY <1>1, <1>4 DEF Latest, Anywhere
<1>6. NewestLog' = Told(dest)
  BY <1>1, <1>5, NewestLogIs DEF NewestLog
<1>7. StableLength' = StableLength
  <2>1. ASSUME NEW b PROVE Firm(b)' <=> Firm(b)
    <3>1. \A c : <<b, c>> \in disk' <=> <<b, c>> \in disk \/ (b = dest /\ c \in tmp)
      BY <1>3
    <3>2. \A c : <<b, c>> \in durable' <=> <<b, c>> \in durable \/ (b = dest /\ c \in dtmp \cap Contents)
      BY <1>3
    <3>3. CASE b = dest
      <4>1. "name" \notin Contents
        BY DEF Contents
      <4>2. <<b, "name">> \notin disk /\ <<b, "name">> \notin durable
        BY <1>2, <3>3, PresentName DEF Anywhere
      <4>3. QED
        BY <3>2, <4>1, <4>2 DEF Firm
    <3>4. CASE b # dest
      BY <3>1, <3>2, <3>4 DEF Firm, Kept
    <3>5. QED
      BY <3>3, <3>4
  <2>2. FirmBoundaries' = FirmBoundaries
    <3>1. \A b : b \in FirmBoundaries' <=> b \in FirmBoundaries
      BY <1>4, <2>1, FirmIsPresent DEF FirmBoundaries
    <3>2. QED
      BY <3>1 DEF FirmBoundaries
  <2>3. QED
    BY <2>2 DEF StableLength
<1>8. Told(dest) = Append(NewestLog, dest.index[dest.layer]) /\ Len(NewestLog) < LastLayer - NoLayer
  <2>1. /\ dest.layer - NoLayer <= LastLayer - NoLayer /\ NoLayer = FirstLayer - 1
        /\ FirstLayer \in Int /\ LastLayer \in Int
    BY <1>1, TellsEntries, LayersAssumption DEF NoLayer
  <2>2. CASE Latest(disk) = {} /\ Present(disk) = {}
    <3>1. NewestLog = <<>> /\ dest.layer = FirstLayer
      BY <1>1, <2>2, EmptyLogIs DEF NewestLog
    <3>2. QED
      BY <1>1, <2>1, <3>1, FirstTold
  <2>3. ASSUME NEW b \in Present(disk), b \in Boundary, Latest(disk) = {b}
        PROVE  Told(dest) = Append(NewestLog, dest.index[dest.layer]) /\ Len(NewestLog) < LastLayer - NoLayer
    <3>1. NewestLog = Told(b) /\ Len(Told(b)) = b.layer - NoLayer
      BY <2>3, NewestLogIs, TellsEntries DEF NewestLog
    <3>2. dest.layer = b.layer + 1 /\ b \in Anywhere /\ b.layer \in Int
      BY <1>1, <2>3 DEF Anywhere
    <3>3. Told(dest) = Append(Told(b), dest.index[dest.layer])
      BY <1>1, <2>3, <3>2, NextTold
    <3>4. QED
      BY <2>1, <3>1, <3>2, <3>3
  <2>4. QED
    BY <1>1, <2>2, <2>3, LatestIs DEF OneNewest
<1>9. dest.index[dest.layer] \in Entry
  BY <1>1, TellsEntries, BoundaryLayer, LayersAssumption DEF Layers
<1>10. QED
  BY <1>6, <1>7, <1>8, <1>9 DEF Log!Extend

\* Removing an older generation changes nothing a reader would find.
LEMMA DiscardStutters ==
  ASSUME IInv, IInv', NEW x \in disk, Discard(x[1], x[2])
  PROVE  NewestLog' = NewestLog /\ StableLength' = StableLength
<1> USE DEF IInv
<1>1. /\ pc = "discarding" /\ dest' = dest /\ pc' = pc /\ TypeOK /\ DiskInv
      /\ durable' = durable /\ disk' \subseteq disk
  BY DEF Discard, DiskInv
<1>2. PICK d : d = dest
  OBVIOUS
<1>3. d \in Boundary /\ Firm(d) /\ Firm(d)' /\ d \in Present(disk) /\ d \in Present(disk')
  <2>1. Firm(dest) /\ Firm(dest)'
    BY <1>1 DEF PromotedInv
  <2>2. Firm(d) /\ Firm(d)'
    BY <1>1, <1>2, <2>1 DEF Firm, Kept
  <2>3. QED
    BY <1>1, <1>2, <2>2, PresentName DEF TypeOK, Committing, Firm
<1>4. \A b \in Present(disk) : b = d \/ b.layer < d.layer
  BY <1>1, <1>2 DEF PromotedInv, Anywhere
<1>5. Present(disk') \subseteq Present(disk) /\ d.layer \in Int /\ \A b \in Present(disk) : b.layer \in Int /\ b \in Boundary
  BY <1>1, <1>3, PresentName, AnywhereType, BoundaryLayer DEF Anywhere
<1>6. Latest(disk) = {d} /\ Latest(disk') = {d}
  BY <1>3, <1>4, <1>5 DEF Latest
<1>7. NewestLog' = NewestLog
  BY <1>6 DEF NewestLog
<1>8. PICK B : B = FirmBoundaries'
  OBVIOUS
<1>9. d \in B /\ d \in FirmBoundaries /\ B \subseteq Present(disk) /\ FirmBoundaries \subseteq Present(disk)
  BY <1>3, <1>5, <1>8 DEF FirmBoundaries
<1>10. /\ Cardinality({y[1] : y \in LogOf(B)}) = d.layer - NoLayer
       /\ Cardinality({y[1] : y \in LogOf(FirmBoundaries)}) = d.layer - NoLayer
  <2>1. B \in SUBSET Boundary /\ FirmBoundaries \in SUBSET Boundary
    BY <1>5, <1>9
  <2>2. \A c \in B \cup FirmBoundaries : c.layer <= d.layer
    BY <1>4, <1>5, <1>9
  <2>3. QED
    BY <1>9, <2>1, <2>2, LengthOf
<1>11. StableLength' = StableLength
  BY <1>8, <1>10 DEF StableLength
<1>12. QED
  BY <1>7, <1>11

\* A power failure leaves a prefix, at least the settled one.
LEMMA PowerLossLoses ==
  ASSUME IInv, IInv', OneNewest', Chain, PowerLoss
  PROVE  Log!Lose
<1> USE DEF IInv
<1>1. TypeOK /\ DiskInv /\ durable' = disk' /\ \A b : Firm(b) => Firm(b)'
  <2>1. TypeOK /\ DiskInv
    BY DEF DiskInv
  <2>2. QED
    BY <2>1, PowerLossSafe DEF PowerLoss
<1>2. Present(disk') \subseteq Anywhere
  <2>1. disk' \subseteq disk \cup durable
    BY DEF PowerLoss, Reachable
  <2>2. QED
    BY <2>1, PresentName DEF Anywhere
<1>3. PICK B : B = FirmBoundaries'
  OBVIOUS
<1>4. B \subseteq Present(disk') /\ FirmBoundaries \subseteq B
  BY <1>1, <1>3, PresentName DEF FirmBoundaries, Firm
<1>5. Present(disk) \subseteq Boundary /\ Present(disk') \subseteq Boundary
  BY <1>1, <1>2, AnywhereType DEF Anywhere
<1>6. CASE Latest(disk') = {} /\ Present(disk') = {}
  <2>1. B = {} /\ FirmBoundaries = {}
    BY <1>4, <1>6
  <2>2. StableLength' = 0 /\ StableLength = 0
    BY <1>3, <2>1, NoLength DEF StableLength
  <2>3. NewestLog' = <<>>
    BY <1>6, EmptyLogIs DEF NewestLog
  <2>4. Len(NewestLog) \in Nat /\ SubSeq(NewestLog, 1, 0) = <<>>
    <3>1. CASE NewestLog = <<>>
      BY <3>1
    <3>2. ASSUME NEW c \in Boundary, NewestLog = Told(c)
          PROVE  Len(NewestLog) \in Nat /\ SubSeq(NewestLog, 1, 0) = <<>>
      <4>1. Told(c) \in Seq(Entry)
        BY TellsEntries
      <4>2. QED
        BY <3>2, <4>1
    <3>3. QED
      BY <1>1, <3>1, <3>2, LatestIs, EmptyLogIs, NewestLogIs DEF OneNewest, NewestLog
  <2>5. QED
    BY <2>2, <2>3, <2>4 DEF Log!Lose
<1>7. ASSUME NEW b \in Present(disk'), Latest(disk') = {b}, Complete(disk', b)
      PROVE  Log!Lose
  <2>1. PICK c \in Latest(disk) : b.layer <= c.layer /\ c \in Present(disk) /\ c \in Anywhere
    BY <1>1, <1>2, <1>7, NothingNewer
  <2>2. b \in Boundary /\ c \in Boundary /\ Agree(b, c) /\ b.layer \in Int /\ c.layer \in Int
    BY <1>2, <1>5, <1>7, <2>1, BoundaryLayer DEF Chain
  <2>3. Latest(disk) = {c}
    BY <1>1, <2>1, LatestIs DEF OneNewest
  <2>4. NewestLog = Told(c) /\ NewestLog' = Told(b)
    BY <1>7, <2>2, <2>3, NewestLogIs DEF NewestLog
  <2>5. StableLength' = Len(Told(b))
    <3>1. b \in B
      BY <1>1, <1>3, <1>7 DEF FirmBoundaries, Firm, Kept, Complete, Pieces, Contents
    <3>2. \A a \in B : a.layer <= b.layer
      BY <1>4, <1>7 DEF Latest
    <3>3. Cardinality({x[1] : x \in LogOf(B)}) = b.layer - NoLayer
      BY <1>4, <1>5, <3>1, <3>2, LengthOf
    <3>4. QED
      BY <1>3, <2>2, <3>3, TellsEntries DEF StableLength
  <2>6. StableLength <= Len(Told(b)) /\ StableLength \in Nat
    <3>1. CASE FirmBoundaries = {}
      <4>1. StableLength = 0
        BY <3>1, NoLength DEF StableLength
      <4>2. QED
        BY <2>2, <4>1, TellsEntries
    <3>2. CASE FirmBoundaries # {}
      <4>1. FirmBoundaries \in SUBSET Boundary
        BY <1>4, <1>5
      <4>2. PICK a \in FirmBoundaries : \A o \in FirmBoundaries : o.layer <= a.layer
        BY <3>2, <4>1, HasNewest
      <4>3. StableLength = a.layer - NoLayer
        BY <4>1, <4>2, LengthOf DEF StableLength
      <4>4. a.layer <= b.layer /\ a.layer \in Int
        BY <1>4, <1>7, <4>1, <4>2, BoundaryLayer DEF Latest
      <4>5. a \in Boundary /\ a.layer - NoLayer \in Nat /\ Len(Told(b)) = b.layer - NoLayer /\ NoLayer \in Int
        BY <2>2, <4>1, <4>2, TellsEntries, LayersAssumption DEF NoLayer
      <4>6. QED
        BY <2>2, <4>3, <4>4, <4>5
    <3>3. QED
      BY <3>1, <3>2
  <2>7. Told(b) = SubSeq(Told(c), 1, Len(Told(b))) /\ Len(Told(b)) \in 0..Len(Told(c))
    BY <2>1, <2>2, PrefixTold
  <2>8. PICK n : n = Len(Told(b))
    OBVIOUS
  <2>9. n \in StableLength..Len(NewestLog) /\ NewestLog' = SubSeq(NewestLog, 1, n) /\ StableLength' = n
    <3>1. Len(Told(c)) \in Nat
      BY <2>2, TellsEntries
    <3>2. QED
      BY <2>4, <2>5, <2>6, <2>7, <2>8, <3>1
  <2>10. QED
    BY <2>9 DEF Log!Lose
<1>8. QED
  BY <1>6, <1>7 DEF OneNewest

\* The step, action by action.
LEMMA LogStep ==
  ASSUME ReplayDurable, IInv, IInv', OneNewest', Chain, [Next]_storeVars
  PROVE  [Log!Next]_(Log!logVars)
<1>0. TypeOK /\ DiskInv
  BY DEF IInv, DiskInv
<1>1. ASSUME NewestLog' = NewestLog, StableLength' \in {StableLength, Len(NewestLog)}
      PROVE  [Log!Next]_(Log!logVars)
  BY <1>1 DEF Log!Next, Log!Settle, Log!logVars
<1>2. CASE LoadLatest \/ (\E b \in Boundary : BeginCommit(b)) \/ (\E k \in Layers : RefuseCommit(k))
  <2>1. Prune /\ disk' = disk
    BY <1>2 DEF LoadLatest, BeginCommit, RefuseCommit
  <2>2. QED
    BY <1>0, <1>1, <2>1, PruneSettles
<1>3. CASE WritePayload \/ FlushPayload \/ WriteManifest \/ SealStaging \/ AbortCommit \/ Crash \/ UNCHANGED storeVars
  <2>1. UNCHANGED <<disk, durable>>
    BY <1>3 DEF WritePayload, FlushPayload, WriteManifest, SealStaging, AbortCommit, Crash, storeVars
  <2>2. QED
    BY <1>1, <2>1 DEF NewestLog, StableLength, FirmBoundaries, Firm, Kept
<1>4. CASE Promote
  BY <1>4, PromoteExtends DEF Log!Next
<1>5. CASE SyncPromotion \/ FinishCommit
  <2>1. disk' = disk /\ durable' = RootSynced(disk, durable)
    BY <1>5 DEF SyncPromotion, FinishCommit
  <2>2. QED
    BY <1>0, <1>1, <2>1, Settles
<1>6. ASSUME NEW x \in disk, Discard(x[1], x[2]) PROVE [Log!Next]_(Log!logVars)
  BY <1>1, <1>6, DiscardStutters
<1>7. CASE PowerLoss
  BY <1>7, PowerLossLoses DEF Log!Next
<1> QED
  BY <1>2, <1>3, <1>4, <1>5, <1>6, <1>7 DEF Next, CommitStep, Fault

\* The store implements the stable log: renames append, an fsync of the root settles what can
\* be read, a power failure takes back unsettled entries only, and nothing else shows.
THEOREM StoreImplementsLog ==
  ASSUME ReplayDurable
  PROVE  Spec => ImplementsStableLog
<1>1. Init => Log!Init
  <2>1. SUFFICES ASSUME Init PROVE Log!Init
    OBVIOUS
  <2>2. Present(disk) = {} /\ Latest(disk) = {} /\ FirmBoundaries = {}
    BY <2>1 DEF Init, Present, Latest, FirmBoundaries
  <2>3. NewestLog = <<>> /\ StableLength = 0
    BY <2>2, EmptyLogIs, NoLength DEF NewestLog, StableLength
  <2>4. QED
    BY <2>3 DEF Log!Init
<1>2. Init => Chain
  BY DEF Init, Chain, Anywhere, Present, Staging
<1>3. IInv /\ Chain /\ [Next]_storeVars => Chain'
  BY ChainStep
<1>4. IInv => OneNewest
  BY LatestIs DEF IInv, DiskInv
<1>5. IInv /\ IInv' /\ OneNewest' /\ Chain /\ [Next]_storeVars => [Log!Next]_(Log!logVars)
  BY LogStep
<1>6. QED
  BY <1>1, <1>2, <1>3, <1>4, <1>5, StoreSafety, PTL DEF Spec, ImplementsStableLog, Log!Spec
=============================================================================
