------------------------------- MODULE Prepare -------------------------------
(***************************************************************************)
(* prepare_component (greentic-component/src/prepare.rs, loader.rs, abi.rs, *)
(* describe.rs) next to the build pipeline: threads of a long-lived process *)
(* load the manifest, compare the artifact's hash, check its world, read    *)
(* its lifecycle exports and its description.  The world check and the      *)
(* description are cached by the stamp (length and modification time) the   *)
(* artifact has before it is read.  Every step opens the file anew, while   *)
(* build rewrites it.                                                       *)
(***************************************************************************)
EXTENDS BuildPipeline

CONSTANTS
    Preparers,    \* threads that prepare the component
    Worlds,       \* world names
    WorldOf,      \* the manifest's world, by the author's revision
    ExportOf,     \* the manifest's describe_export, by the author's revision
    Accepted,     \* the <<code, world>> check_world accepts
    MaxPrepares   \* bound: prepare_component calls

ASSUME PrepareAssumption ==
    /\ WorldOf \in [Revisions -> Worlds]
    /\ Accepted \subseteq Revisions \X Worlds
    /\ MaxPrepares \in Nat

VARIABLES
    abiCache,       \* ABI_CACHE: by world, the stamp that was checked (0: none)
    describeCache,  \* DESCRIBE_CACHE: stamp (0: none), export and description
    prep,           \* per preparer: its call
    prepares

caches == <<abiCache, describeCache>>
prepareVars == <<buildVars, caches, prep, prepares>>

(* What is told of the code of an artifact: its revision, 0 for nothing (a  *)
(* torn file has no exports).                                               *)
Facts == Revisions \cup {0}
FactsOf(contents) == IF contents \in {Torn, NoFile} THEN 0 ELSE contents.code

(* A description has the functions of the code and, as its name and         *)
(* schema_id, the world of the manifest it was made for, which the artifact *)
(* itself need not name; that of a torn file is a file beside it.           *)
Descriptions == [code : Facts, world : Worlds \cup {"none"}]
Described(contents, world) ==
    [code |-> FactsOf(contents), world |-> IF FactsOf(contents) = 0 THEN "none" ELSE world]
NoDescription == [code |-> 0, world |-> "none"]

Exports == {ExportOf[a] : a \in Revisions}
PrepareSteps == {"idle", "verify", "hash", "stampWorld", "checkWorld", "cacheWorld", "lifecycle",
                 "stampDescribe", "describe", "cacheDescribe", "done"}
Preps == [pc : PrepareSteps, manifest : Manifests \cup {Torn},
          stamp : Nat,          \* taken by the cached step in progress
          lifecycle : Facts, describe : Descriptions,
          stirred : BOOLEAN]    \* history: the artifact was written since the call began

Fresh == [pc |-> "idle", manifest |-> Torn, stamp |-> 0, lifecycle |-> 0,
          describe |-> NoDescription, stirred |-> FALSE]

PrepareInit ==
    /\ BuildInit
    /\ abiCache = [world \in Worlds |-> 0]
    /\ describeCache = [stamp |-> 0, export |-> ExportOf[1], describe |-> NoDescription]
    /\ prep = [p \in Preparers |-> Fresh]
    /\ prepares = 0

PrepAt(p, pc) == prep[p].pc = pc
Step(p, r) == prep' = [prep EXCEPT ![p] = r] /\ UNCHANGED <<buildVars, prepares>>
PrepareFails(p) == Step(p, Fresh) /\ UNCHANGED caches

(* discover reads the manifest, which must have a config_schema (the schema *)
(* of manifests requires it) and name an artifact that exists.              *)
Parses(m) == m # Torn /\ m.schema # "absent"
Discover(p) ==
    /\ prep[p].pc \in {"idle", "done"}
    /\ prepares < MaxPrepares
    /\ Parses(manifest) /\ wasm # NoFile
    /\ prepares' = prepares + 1
    /\ prep' = [prep EXCEPT ![p] = [Fresh EXCEPT !.pc = "verify", !.manifest = manifest]]
    /\ UNCHANGED <<buildVars, caches>>

(* The loader, and prepare_component again, hash the artifact and compare.  *)
CompareHash(p, at, next) ==
    /\ PrepAt(p, at)
    /\ \/ wasm = prep[p].manifest.hash /\ Step(p, [prep[p] EXCEPT !.pc = next]) /\ UNCHANGED caches
       \/ wasm # prep[p].manifest.hash /\ PrepareFails(p)
VerifyHash(p) == CompareHash(p, "verify", "hash")
ComputeHash(p) == CompareHash(p, "hash", "stampWorld")

(* cached_world_check: a stamp that was checked for this world suffices.    *)
World(p) == WorldOf[prep[p].manifest.author]
AbiHit(p) == abiCache[World(p)] = wasmTime
StampWorld(p) ==
    /\ PrepAt(p, "stampWorld")
    /\ Step(p, [prep[p] EXCEPT !.pc = IF AbiHit(p) THEN "lifecycle" ELSE "checkWorld",
                               !.stamp = wasmTime])
    /\ UNCHANGED caches
CheckPreparedWorld(p) ==
    /\ PrepAt(p, "checkWorld")
    /\ \/ /\ <<FactsOf(wasm), World(p)>> \in Accepted
          /\ Step(p, [prep[p] EXCEPT !.pc = "cacheWorld"])
          /\ UNCHANGED caches
       \/ <<FactsOf(wasm), World(p)>> \notin Accepted /\ PrepareFails(p)
StampWhenCaching(p) == wasmTime
EntryStamp(p) == prep[p].stamp
CacheWorld(p) ==
    /\ PrepAt(p, "cacheWorld")
    /\ abiCache' = [abiCache EXCEPT ![World(p)] = EntryStamp(p)]
    /\ Step(p, [prep[p] EXCEPT !.pc = "lifecycle", !.stamp = 0])
    /\ UNCHANGED describeCache

(* has_lifecycle takes an artifact it cannot read as one without exports.   *)
Lifecycle(p) ==
    /\ PrepAt(p, "lifecycle")
    /\ Step(p, [prep[p] EXCEPT !.pc = "stampDescribe", !.lifecycle = FactsOf(wasm), !.stamp = 0])
    /\ UNCHANGED caches

(* cached_describe: the entry must have the artifact's stamp and have been  *)
(* made through the same describe_export; nothing asks for which world.     *)
Export(p) == ExportOf[prep[p].manifest.author]
DescribeHitAnyStamp(p) == describeCache.stamp # 0 /\ describeCache.export = Export(p)
DescribeHit(p) == describeCache.stamp = wasmTime /\ describeCache.export = Export(p)
StampDescribe(p) ==
    /\ PrepAt(p, "stampDescribe")
    /\ Step(p, IF DescribeHit(p)
               THEN [prep[p] EXCEPT !.pc = "done", !.describe = describeCache.describe]
               ELSE [prep[p] EXCEPT !.pc = "describe", !.stamp = wasmTime])
    /\ UNCHANGED caches
LoadDescribe(p) ==
    /\ PrepAt(p, "describe")
    /\ \/ Step(p, [prep[p] EXCEPT !.pc = "cacheDescribe", !.describe = Described(wasm, World(p))])
          /\ UNCHANGED caches
       \/ FactsOf(wasm) = 0 /\ PrepareFails(p)
CacheDescribe(p) ==
    /\ PrepAt(p, "cacheDescribe")
    /\ describeCache' = [stamp |-> EntryStamp(p), export |-> Export(p), describe |-> prep[p].describe]
    /\ Step(p, [prep[p] EXCEPT !.pc = "done", !.stamp = 0])
    /\ UNCHANGED abiCache

(* clear_cache_for                                                          *)
ClearCache ==
    /\ abiCache' = [world \in Worlds |-> 0]
    /\ describeCache' = [stamp |-> 0, export |-> ExportOf[1], describe |-> NoDescription]
    /\ UNCHANGED <<buildVars, prep, prepares>>

PrepareStep(p) ==
    \/ Discover(p) \/ VerifyHash(p) \/ ComputeHash(p)
    \/ StampWorld(p) \/ CheckPreparedWorld(p) \/ CacheWorld(p) \/ Lifecycle(p)
    \/ StampDescribe(p) \/ LoadDescribe(p) \/ CacheDescribe(p)

(* The project goes on changing under the preparers.                        *)
ProjectStep ==
    /\ BuildNext
    /\ prep' = [p \in Preparers |->
                  IF wasmTime' # wasmTime /\ prep[p].pc \notin {"idle", "done"}
                  THEN [prep[p] EXCEPT !.stirred = TRUE] ELSE prep[p]]
    /\ UNCHANGED <<caches, prepares>>

PrepareNext == ProjectStep \/ ClearCache \/ \E p \in Preparers : PrepareStep(p)

PrepareSpec == PrepareInit /\ [][PrepareNext]_prepareVars

-----------------------------------------------------------------------------
(* Types; the manifest of a call has parsed, so it has a config_schema, and *)
(* stamps never come from the future.                                       *)
PrepareTypeOK ==
    /\ abiCache \in [Worlds -> 0..wasmTime]
    /\ describeCache \in [stamp : 0..wasmTime, export : Exports, describe : Descriptions]
    /\ prep \in [Preparers -> Preps]
    /\ \A p \in Preparers :
         /\ prep[p].stamp <= wasmTime
         /\ ~PrepAt(p, "idle") => prep[p].manifest # Torn /\ prep[p].manifest.schema # "absent"
    /\ prepares \in 0..MaxPrepares

(* The worlds of the manifests with one describe_export, which is as far as *)
(* the key of a description tells manifests apart (prepare.rs:125).         *)
WorldsOf(export) == {WorldOf[a] : a \in {b \in Revisions : ExportOf[b] = export}}

(* An entry with the stamp the artifact has now tells the truth about what  *)
(* it contains now, whatever was written while the entry was made: the      *)
(* stamp is taken before the file is read (prepare.rs:101-115, 122-142).    *)
(* The world a description names is that of a manifest with its export.     *)
CachesHonest ==
    /\ \A world \in Worlds :
         wasmTime # 0 /\ abiCache[world] = wasmTime => <<FactsOf(wasm), world>> \in Accepted
    /\ wasmTime # 0 /\ describeCache.stamp = wasmTime =>
         \E world \in WorldsOf(describeCache.export) :
           describeCache.describe = Described(wasm, world)

(* The invariant of the caches: types, validated manifests, and honesty.    *)
PrepareInv == PrepareTypeOK /\ CachesHonest

(* A call during which nobody wrote the artifact describes one artifact:    *)
(* the one of the hash, which is accepted for the world the manifest names, *)
(* although each part is read anew or comes from a cache filled by an       *)
(* earlier or a concurrent call (prepare.rs:59-72).  The world that the     *)
(* description names is the manifest's or that of another revision of it    *)
(* with the same describe_export: after an edit of the world alone it is    *)
(* the old one that is returned, as long as the artifact keeps its stamp.   *)
PreparedOneArtifact ==
    \A p \in Preparers :
        PrepAt(p, "done") /\ ~prep[p].stirred =>
            /\ prep[p].lifecycle = FactsOf(prep[p].manifest.hash)
            /\ <<FactsOf(prep[p].manifest.hash), World(p)>> \in Accepted
            /\ \E world \in WorldsOf(Export(p)) :
                 prep[p].describe = Described(prep[p].manifest.hash, world)

-----------------------------------------------------------------------------
(* The inductive invariant.  An answer about to be cached with the stamp    *)
(* the artifact still has is one about that artifact; ...                   *)
AnswersHonest ==
    \A p \in Preparers :
        prep[p].stamp = wasmTime =>
            /\ PrepAt(p, "cacheWorld") => <<FactsOf(wasm), World(p)>> \in Accepted
            /\ PrepAt(p, "cacheDescribe") => prep[p].describe = Described(wasm, World(p))

(* ... and a call that nobody disturbed knows that the artifact is the one  *)
(* of its manifest, and of that one what it has found out so far.           *)
Working == PrepareSteps \ {"idle", "done"}
KnownWorld == Working \ {"verify", "hash", "stampWorld", "checkWorld"}
KnownLifecycle == KnownWorld \ {"cacheWorld", "lifecycle"}
Knows(r, artifact) ==
    ~r.stirred =>
        /\ r.pc \in Working \ {"verify"} => artifact = r.manifest.hash
        /\ r.pc \in KnownWorld \cup {"done"} =>
              <<FactsOf(r.manifest.hash), WorldOf[r.manifest.author]>> \in Accepted
        /\ r.pc \in KnownLifecycle \cup {"done"} => r.lifecycle = FactsOf(r.manifest.hash)
        /\ r.pc \in {"cacheDescribe", "done"} =>
              \E world \in WorldsOf(ExportOf[r.manifest.author]) :
                r.describe = Described(r.manifest.hash, world)
PrepareIInv ==
    /\ BuildIInv /\ PrepareInv
    /\ \A p \in Preparers : PrepAt(p, "idle") \/ wasm # NoFile
    /\ AnswersHonest
    /\ \A p \in Preparers : Knows(prep[p], wasm)
=============================================================================
