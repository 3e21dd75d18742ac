---------------------------- MODULE CacheBundle ----------------------------
(***************************************************************************)
(* Compiled caches from warmed servers to release images and into runtime  *)
(* caches: release/cache_bundle.py (export, merge, seed), build.py and     *)
(* entrypoint.sh.                                                          *)
(*                                                                         *)
(* Every rank has a runtime cache, a directory mounted by each container   *)
(* that runs there: compiled files by name, and the temporary files of     *)
(* seedings.  A compiled name is keyed by what it was compiled from; two   *)
(* compilations of one name may still differ in their bytes.  The          *)
(* compilers, which are external, write beside a target and rename.        *)
(***************************************************************************)
EXTENDS Naturals, Functions

CONSTANTS
  Ranks,       \* hosts
  Objects,     \* names under b12x/compile
  Graphs,      \* names under triton and vllm
  Temps,       \* names mkstemp may return
  Builds,      \* bytes a compilation may produce
  Runtimes,    \* source and dependency fingerprints
  Containers,  \* containers that may run at once
  MaxStarts, MaxDamage   \* bounds

CacheAssumption ==
  /\ Objects \cap Graphs = {} /\ Temps \cap (Objects \cup Graphs) = {}
  /\ {MaxStarts, MaxDamage} \subseteq Nat

VARIABLES
  cache,    \* each rank's runtime cache: name |-> [data, by]
  bundle,   \* each rank's exported bundle and the merged one, or NoBundle
  image,    \* the bundle in the release image, NoBundle before it is built
  cpc,      \* each container: "none", "check", "look", "link" or "serve"
  where,    \* the rank it runs on
  runtime,  \* its runtime
  todo,     \* names its seeding has not come to
  file,     \* the name in hand
  temp,     \* the temporary file in hand
  starts, spoils

containers == <<cpc, where, runtime, todo, file, temp>>
vars == <<cache, bundle, image, containers, starts, spoils>>

Compiled == Objects \cup Graphs
NoFiles == [f \in {} |-> 0]
Put(d, f, x) == [g \in DOMAIN d \cup {f} |-> IF g = f THEN x ELSE d[g]]
NoBundle == [runtime |-> "none", manifest |-> NoFiles, payload |-> NoFiles]

\* The development servers that are to be warmed, each on a rank of its own.
Init ==
  /\ cache = [k \in Ranks |-> NoFiles]
  /\ bundle = [b \in Ranks \cup {"merged"} |-> NoBundle]
  /\ image = NoBundle
  /\ cpc = [c \in Containers |-> "serve"]
  /\ where \in {w \in [Containers -> Ranks] : IsInjective(w)}
  /\ runtime \in [Containers -> Runtimes]
  /\ todo = [c \in Containers |-> {}]
  /\ file = [c \in Containers |-> "none"] /\ temp = [c \in Containers |-> "none"]
  /\ starts = 0 /\ spoils = 0

-----------------------------------------------------------------------------
(* Export, merge and build.                                                *)

\* Export: the container runs, the output is new, objects and graphs are there.
\* Lock and .tmp files are dropped, a .seed- file is not.
Export(c) ==
  /\ cpc[c] = "serve"
  /\ LET rank == where[c]
         payload == [f \in DOMAIN cache[rank] |-> cache[rank][f].data]
     IN /\ bundle[rank] = NoBundle
        /\ DOMAIN payload \cap Objects # {} /\ DOMAIN payload \cap Graphs # {}
        /\ bundle' = [bundle EXCEPT ![rank] =
             [runtime |-> runtime[c], manifest |-> payload, payload |-> payload]]
  /\ UNCHANGED <<cache, image, containers, starts, spoils>>

\* The added rank's objects: each with its recorded hash, none that the primary
\* has under the same name with other bytes.
Additions(b) == DOMAIN bundle[b].manifest \cap Objects
Intact(b) == \A f \in Additions(b) : bundle[b].payload[f] = bundle[b].manifest[f]
Agree(a, b) == \A f \in Additions(b) \cap DOMAIN bundle[a].manifest :
                 bundle[b].manifest[f] = bundle[a].manifest[f]

\* Merge rank b's objects into primary a, whose own payload is copied unread.
Merge(a, b) ==
  /\ bundle["merged"] = NoBundle
  /\ NoBundle \notin {bundle[a], bundle[b]}
  /\ bundle[a].runtime = bundle[b].runtime
  /\ Intact(b) /\ Agree(a, b)
  /\ LET Join(p, q) == [f \in DOMAIN p \cup Additions(b) |-> IF f \in DOMAIN p THEN p[f] ELSE q[f]]
     IN bundle' = [bundle EXCEPT !["merged"] =
          [runtime |-> bundle[a].runtime,
           manifest |-> Join(bundle[a].manifest, bundle[b].manifest),
           payload |-> Join(bundle[a].payload, bundle[b].payload)]]
  /\ UNCHANGED <<cache, image, containers, starts, spoils>>

\* The parent is the image in which the bundle's cache was warmed.
Build(b) ==
  /\ image = NoBundle /\ bundle[b] # NoBundle
  /\ image' = bundle[b]
  /\ UNCHANGED <<cache, bundle, containers, starts, spoils>>

\* A payload file is damaged on its way between the hosts or on a disk.
Damage(b, f) ==
  /\ spoils < MaxDamage /\ f \in DOMAIN bundle[b].payload
  /\ spoils' = spoils + 1
  /\ bundle' = [bundle EXCEPT ![b].payload[f] = "cut"]
  /\ UNCHANGED <<cache, image, containers, starts>>

-----------------------------------------------------------------------------
(* A container: entrypoint.sh seeds the mounted cache, then serves.        *)

Start(c, k, place, r) ==
  /\ cpc[c] = "none" /\ starts < MaxStarts
  /\ starts' = starts + 1
  /\ cpc' = [cpc EXCEPT ![c] = place]
  /\ where' = [where EXCEPT ![c] = k] /\ runtime' = [runtime EXCEPT ![c] = r]
  /\ UNCHANGED <<cache, bundle, image, todo, file, temp, spoils>>

\* A development image has no seed.
StartDevelopment(c, k) == \E r \in Runtimes : Start(c, k, "serve", r)
StartRelease(c, k) == image # NoBundle /\ Start(c, k, "check", image.runtime)

\* Seed: the runtime and every payload hash are checked before anything is written.
CheckSeed(c) ==
  /\ cpc[c] = "check"
  /\ IF runtime[c] = image.runtime /\ image.payload = image.manifest
       THEN /\ cpc' = [cpc EXCEPT ![c] = "look"]
            /\ todo' = [todo EXCEPT ![c] = DOMAIN image.manifest]
       ELSE cpc' = [cpc EXCEPT ![c] = "none"] /\ UNCHANGED todo
  /\ UNCHANGED <<cache, bundle, image, where, runtime, file, temp, starts, spoils>>

\* A name that exists is left alone.
SeedSkip(c, f) ==
  /\ cpc[c] = "look" /\ f \in todo[c] /\ f \in DOMAIN cache[where[c]]
  /\ todo' = [todo EXCEPT ![c] = @ \ {f}]
  /\ UNCHANGED <<cache, bundle, image, cpc, where, runtime, file, temp, starts, spoils>>

\* For another a temporary file is made, to be filled.
SeedLook(c, f, t) ==
  /\ cpc[c] = "look" /\ f \in todo[c] /\ {f, t} \cap DOMAIN cache[where[c]] = {}
  /\ todo' = [todo EXCEPT ![c] = @ \ {f}]
  /\ cpc' = [cpc EXCEPT ![c] = "link"]
  /\ file' = [file EXCEPT ![c] = f] /\ temp' = [temp EXCEPT ![c] = t]
  /\ cache' = [cache EXCEPT ![where[c]] = Put(@, t, [data |-> "cut", by |-> "seed"])]
  /\ UNCHANGED <<bundle, image, where, runtime, starts, spoils>>

Seeded(d, f) == Put(d, f, [data |-> image.payload[f], by |-> "seed"])
Without(d, t) == [f \in DOMAIN d \ {t} |-> d[f]]

\* The temporary file is put in the target's place and removed.
Place(c, d) ==
  /\ cpc[c] = "link"
  /\ cache' = [cache EXCEPT ![where[c]] = Without(d, temp[c])]
  /\ cpc' = [cpc EXCEPT ![c] = "look"]
  /\ file' = [file EXCEPT ![c] = "none"] /\ temp' = [temp EXCEPT ![c] = "none"]
  /\ UNCHANGED <<bundle, image, where, runtime, todo, starts, spoils>>

\* Mutant: it is renamed over the target.
SeedRename(c) == Place(c, Seeded(cache[where[c]], file[c]))

\* os.link: the target appears whole, or another writer's stays.
SeedLink(c) ==
  LET d == cache[where[c]]
  IN Place(c, IF file[c] \in DOMAIN d THEN d ELSE Seeded(d, file[c]))

Serve(c) ==
  /\ cpc[c] = "look" /\ todo[c] = {}
  /\ cpc' = [cpc EXCEPT ![c] = "serve"]
  /\ UNCHANGED <<cache, bundle, image, where, runtime, todo, file, temp, starts, spoils>>

\* A server finds a name missing and compiles it; the rename comes later.
Compile(c, f) ==
  /\ cpc[c] = "serve" /\ file[c] = "none" /\ f \notin DOMAIN cache[where[c]]
  /\ file' = [file EXCEPT ![c] = f]
  /\ UNCHANGED <<cache, bundle, image, cpc, where, runtime, todo, temp, starts, spoils>>

Rename(c, x) ==
  /\ cpc[c] = "serve" /\ file[c] # "none"
  /\ cache' = [cache EXCEPT ![where[c]] = Put(@, file[c], [data |-> x, by |-> "compiler"])]
  /\ file' = [file EXCEPT ![c] = "none"]
  /\ UNCHANGED <<bundle, image, cpc, where, runtime, todo, temp, starts, spoils>>

\* Stopped or killed at any point; a temporary file stays, not yet filled.
Stop(c) ==
  /\ cpc[c] # "none"
  /\ cpc' = [cpc EXCEPT ![c] = "none"]
  /\ todo' = [todo EXCEPT ![c] = {}]
  /\ file' = [file EXCEPT ![c] = "none"] /\ temp' = [temp EXCEPT ![c] = "none"]
  /\ UNCHANGED <<cache, bundle, image, where, runtime, starts, spoils>>

Next ==
  \/ \E c \in Containers : Export(c) \/ CheckSeed(c) \/ SeedLink(c) \/ Serve(c) \/ Stop(c)
  \/ \E c \in Containers, k \in Ranks : StartDevelopment(c, k) \/ StartRelease(c, k)
  \/ \E c \in Containers, f \in Compiled : Compile(c, f)
  \/ \E c \in Containers, x \in Builds : Rename(c, x)
  \/ \E c \in Containers, f \in Compiled \cup Temps :
       SeedSkip(c, f) \/ \E t \in Temps : SeedLook(c, f, t)
  \/ \E a, b \in Ranks : Merge(a, b)
  \/ \E b \in DOMAIN bundle : Build(b) \/ \E f \in Compiled \cup Temps : Damage(b, f)

Spec == Init /\ [][Next]_vars

-----------------------------------------------------------------------------

\* "atomically copies missing files into the writable mounted runtime cache,
\* preserving existing entries" (release/README.md, What the image includes):
\* with servers compiling and other containers seeding the same directory, no
\* compiled name ever vanishes, none changes but by a compiler, and what a seed
\* adds under one is a compiler's whole file, although bundles are taken from
\* running servers, merged from two hosts and damaged on the way, and temporary
\* files of killed seedings lie in the caches and in the bundles.
SeedStep ==
  \A k \in Ranks, f \in Compiled :
    /\ f \in DOMAIN cache[k] => f \in DOMAIN cache'[k]
    /\ f \in DOMAIN cache'[k] /\ cache'[k][f].by = "seed"
         => IF f \in DOMAIN cache[k] THEN cache'[k][f] = cache[k][f]
                                     ELSE cache'[k][f].data \in Builds

SeedAddsOnly == [][SeedStep]_vars
=============================================================================
