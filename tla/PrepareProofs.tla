---------------------------- MODULE PrepareProofs ----------------------------
(* Proofs about Prepare: the stamps of the caches and what calls that run   *)
(* beside each other, and beside build, may conclude from them.             *)
EXTENDS Prepare, ExchangeProofs

USE BuildAssumption, PrepareAssumption

(* What the invariant says of one call, given the artifact.                 *)
CallFits(r, artifact, time) ==
    /\ r \in Preps
    /\ r.stamp <= time
    /\ r.pc # "idle" => r.manifest # Torn /\ r.manifest.schema # "absent" /\ artifact # NoFile
    /\ r.stamp = time =>
          /\ r.pc = "cacheWorld" =>
                <<FactsOf(artifact), WorldOf[r.manifest.author]>> \in Accepted
          /\ r.pc = "cacheDescribe" =>
                r.describe = Described(artifact, WorldOf[r.manifest.author])
    /\ Knows(r, artifact)

LEMMA FactsKnown == ASSUME NEW contents \in WasmFiles PROVE FactsOf(contents) \in Facts
  BY DEF FactsOf, Facts, WasmFiles, Wasms

LEMMA DescriptionsKnown ==
    /\ NoDescription \in Descriptions
    /\ \A contents \in WasmFiles, world \in Worlds : Described(contents, world) \in Descriptions
  BY FactsKnown DEF Described, Descriptions, NoDescription, Facts

(* A manifest's own world is among those of its export.                     *)
LEMMA OwnWorld ==
    ASSUME NEW a \in Revisions
    PROVE  WorldOf[a] \in WorldsOf(ExportOf[a])
  BY DEF WorldsOf

LEMMA FreshFits ==
    ASSUME NEW artifact, NEW time \in Nat
    PROVE  CallFits(Fresh, artifact, time)
<1>1. /\ Fresh \in Preps /\ Fresh.pc = "idle" /\ Fresh.stamp = 0
  BY DescriptionsKnown DEF Fresh, Preps, PrepareSteps, Facts
<1>2. QED
  BY <1>1 DEF CallFits, Knows, Working, KnownWorld, KnownLifecycle

-----------------------------------------------------------------------------
(* The invariant, call by call.                                             *)
CachesOk ==
    /\ abiCache \in [Worlds -> 0..wasmTime]
    /\ describeCache \in [stamp : 0..wasmTime, export : Exports, describe : Descriptions]
    /\ CachesHonest

LEMMA PrepareParts ==
    ASSUME PrepareIInv
    PROVE  /\ BuildIInv /\ CachesOk
           /\ prep \in [Preparers -> Preps] /\ prepares \in 0..MaxPrepares
           /\ \A p \in Preparers : CallFits(prep[p], wasm, wasmTime)
  BY DEF PrepareIInv, PrepareInv, PrepareTypeOK, CachesOk, CallFits, AnswersHonest, World, PrepAt

LEMMA PrepareWhole ==
    ASSUME BuildIInv', CachesOk', prep' \in [Preparers -> Preps], prepares' \in 0..MaxPrepares,
           \A p \in Preparers : CallFits(prep'[p], wasm', wasmTime')
    PROVE  PrepareIInv'
<1>1. PrepareTypeOK'
  BY DEF PrepareTypeOK, CachesOk, CallFits, PrepAt
<1>2. AnswersHonest'
  BY DEF AnswersHonest, CallFits, PrepAt, World
<1>3. /\ \A p \in Preparers : PrepAt(p, "idle")' \/ wasm' # NoFile
      /\ \A p \in Preparers : Knows(prep'[p], wasm')
  BY DEF CallFits, PrepAt
<1>4. QED
  BY <1>1, <1>2, <1>3 DEF PrepareIInv, PrepareInv, CachesOk

LEMMA WasmTypes ==
    ASSUME PrepareIInv
    PROVE  /\ wasm \in WasmFiles /\ wasmTime \in Nat /\ (wasm = NoFile <=> wasmTime = 0)
           /\ manifest \in Manifests \cup {Torn}
           /\ FactsOf(wasm) \in Facts
  BY PrepareParts, ProjectTypes, FactsKnown

(* A call in progress.                                                      *)
LEMMA CallTypes ==
    ASSUME PrepareIInv, NEW p \in Preparers, prep[p].pc # "idle"
    PROVE  /\ prep[p] \in Preps /\ prep[p].manifest \in Manifests
           /\ prep[p].manifest.author \in Revisions
           /\ World(p) = WorldOf[prep[p].manifest.author] /\ World(p) \in Worlds
           /\ Export(p) \in Exports
           /\ wasm # NoFile /\ wasmTime # 0
           /\ CallFits(prep[p], wasm, wasmTime)
<1>1. /\ CallFits(prep[p], wasm, wasmTime) /\ prep[p] \in Preps
      /\ prep[p].manifest \in Manifests
  BY PrepareParts DEF CallFits, Preps
<1>2. prep[p].manifest.author \in Revisions
  BY <1>1 DEF Manifests
<1>3. wasm # NoFile
  BY <1>1 DEF CallFits
<1>4. QED
  BY <1>1, <1>2, <1>3, WasmTypes DEF World, Export, Exports

(* A step of a preparer leaves the project alone; the call it leads to has  *)
(* to fit, and the caches.                                                  *)
LEMMA StepKeeps ==
    ASSUME PrepareIInv, NEW p \in Preparers, NEW r, Step(p, r), CachesOk',
           CallFits(r, wasm, wasmTime)
    PROVE  PrepareIInv'
<1> USE DEF Step
<1>1. UNCHANGED <<wasm, wasmTime>> /\ BuildIInv'
  <2>1. UNCHANGED <<wasm, wasmTime>>
    BY DEF buildVars, files
  <2>2. BuildIInv'
    BY PrepareParts, BuildStepIInv
  <2>3. QED
    BY <2>1, <2>2
<1>2. /\ prep' \in [Preparers -> Preps]
      /\ \A q \in Preparers : CallFits(prep'[q], wasm, wasmTime)
  BY PrepareParts DEF CallFits
<1>3. QED
  BY <1>1, <1>2, PrepareParts, PrepareWhole

LEMMA CachesKept ==
    ASSUME PrepareIInv, UNCHANGED <<buildVars, caches>>
    PROVE  CachesOk'
  BY PrepareParts DEF CachesOk, CachesHonest, caches, buildVars, files

LEMMA PrepareFailsKeeps ==
    ASSUME PrepareIInv, NEW p \in Preparers, PrepareFails(p)
    PROVE  PrepareIInv'
<1>1. CachesOk'
  BY CachesKept DEF PrepareFails, Step
<1>2. QED
  BY <1>1, StepKeeps, FreshFits, WasmTypes DEF PrepareFails

-----------------------------------------------------------------------------
LEMMA PrepareInitIInv == PrepareInit => PrepareIInv
<1> SUFFICES ASSUME PrepareInit PROVE PrepareIInv
  OBVIOUS
<1> USE DEF PrepareInit
<1>1. BuildIInv /\ wasmTime = 0
  BY BuildInitIInv DEF BuildInit
<1>2. 1 \in Revisions /\ ExportOf[1] \in Exports
  BY DEF Revisions, Exports
<1>3. \A p \in Preparers : CallFits(prep[p], wasm, wasmTime) /\ PrepAt(p, "idle")
                           /\ prep[p].stamp = 0
  BY <1>1, FreshFits DEF PrepAt, Fresh
<1>4. prep \in [Preparers -> Preps]
  BY <1>3 DEF CallFits
<1>5. PrepareTypeOK /\ CachesHonest
  BY <1>1, <1>2, <1>3, <1>4, DescriptionsKnown
     DEF PrepareTypeOK, CachesHonest, PrepAt, CallFits
<1>6. AnswersHonest
  BY <1>3 DEF AnswersHonest, PrepAt
<1>7. QED
  BY <1>1, <1>3, <1>5, <1>6 DEF PrepareIInv, PrepareInv, CallFits

LEMMA DiscoverKeeps ==
    ASSUME PrepareIInv, NEW p \in Preparers, Discover(p)
    PROVE  PrepareIInv'
<1> USE DEF Discover, Parses
<1> DEFINE r == [Fresh EXCEPT !.pc = "verify", !.manifest = manifest]
<1>1. manifest \in Manifests /\ manifest.schema # "absent"
  BY WasmTypes
<1>2. /\ r \in Preps /\ r.pc = "verify" /\ r.manifest = manifest /\ r.stamp = 0
  BY <1>1, DescriptionsKnown DEF Fresh, Preps, PrepareSteps, Facts
<1> HIDE DEF r
<1>3. CallFits(r, wasm, wasmTime)
  BY <1>1, <1>2, WasmTypes, Sentinels DEF CallFits, Knows, Working, KnownWorld, KnownLifecycle
<1>4. /\ prep' \in [Preparers -> Preps]
      /\ \A q \in Preparers : CallFits(prep'[q], wasm, wasmTime)
  BY <1>2, <1>3, PrepareParts DEF r
<1>5. UNCHANGED <<wasm, wasmTime>> /\ BuildIInv' /\ CachesOk'
  BY PrepareParts, BuildStepIInv, CachesKept DEF buildVars, files
<1>6. prepares' \in 0..MaxPrepares
  BY PrepareParts
<1>7. QED
  BY <1>4, <1>5, <1>6, PrepareWhole

LEMMA CompareHashKeeps ==
    ASSUME PrepareIInv, NEW p \in Preparers, NEW at, NEW next, CompareHash(p, at, next),
           <<at, next>> \in {<<"verify", "hash">>, <<"hash", "stampWorld">>}
    PROVE  PrepareIInv'
<1> USE DEF CompareHash, PrepAt
<1> DEFINE r == [prep[p] EXCEPT !.pc = next]
<1>1. CASE PrepareFails(p)
  BY <1>1, PrepareFailsKeeps
<1>2. CASE wasm = prep[p].manifest.hash /\ Step(p, r) /\ UNCHANGED caches
  <2>1. /\ prep[p] \in Preps /\ CallFits(prep[p], wasm, wasmTime)
    BY CallTypes
  <2>2. /\ r \in Preps /\ r.pc = next /\ r.manifest = prep[p].manifest
        /\ r.stamp = prep[p].stamp /\ r.stirred = prep[p].stirred
    BY <2>1 DEF Preps, PrepareSteps
  <2> HIDE DEF r
  <2>3. CallFits(r, wasm, wasmTime)
    BY <1>2, <2>1, <2>2 DEF CallFits, Knows, Working, KnownWorld, KnownLifecycle
  <2>4. CachesOk'
    BY <1>2, CachesKept DEF Step
  <2>5. QED
    BY <1>2, <2>3, <2>4, StepKeeps
<1>3. QED
  BY <1>1, <1>2

(* An entry with the stamp the artifact has now is as good as a check.      *)
LEMMA StampWorldKeeps ==
    ASSUME PrepareIInv, NEW p \in Preparers, StampWorld(p)
    PROVE  PrepareIInv'
<1> USE DEF StampWorld, PrepAt
<1> DEFINE pc == IF AbiHit(p) THEN "lifecycle" ELSE "checkWorld"
           r == [prep[p] EXCEPT !.pc = pc, !.stamp = wasmTime]
<1>1. /\ prep[p] \in Preps /\ CallFits(prep[p], wasm, wasmTime) /\ wasmTime \in Nat
      /\ World(p) = WorldOf[prep[p].manifest.author] /\ World(p) \in Worlds /\ wasmTime # 0
  BY CallTypes, WasmTypes
<1>2. AbiHit(p) => <<FactsOf(wasm), World(p)>> \in Accepted
  BY <1>1, PrepareParts DEF AbiHit, CachesOk, CachesHonest
<1>3. pc \in PrepareSteps
  BY DEF PrepareSteps
<1>4. /\ r \in Preps /\ r.pc = pc /\ r.manifest = prep[p].manifest
      /\ r.stamp = wasmTime /\ r.stirred = prep[p].stirred
  BY <1>1, <1>3 DEF Preps
<1>5. Step(p, r) /\ UNCHANGED caches
  OBVIOUS
<1> HIDE DEF r
<1>6. CallFits(r, wasm, wasmTime)
  BY <1>1, <1>2, <1>4 DEF CallFits, Knows, Working, KnownWorld, KnownLifecycle, PrepareSteps
<1>7. CachesOk'
  BY <1>5, CachesKept DEF Step
<1>8. QED
  BY <1>5, <1>6, <1>7, StepKeeps

LEMMA CheckPreparedWorldKeeps ==
    ASSUME PrepareIInv, NEW p \in Preparers, CheckPreparedWorld(p)
    PROVE  PrepareIInv'
<1> USE DEF CheckPreparedWorld, PrepAt
<1> DEFINE r == [prep[p] EXCEPT !.pc = "cacheWorld"]
<1>1. /\ prep[p] \in Preps /\ CallFits(prep[p], wasm, wasmTime)
      /\ World(p) = WorldOf[prep[p].manifest.author]
  BY CallTypes
<1>2. CASE PrepareFails(p)
  BY <1>2, PrepareFailsKeeps
<1>3. CASE <<FactsOf(wasm), World(p)>> \in Accepted /\ Step(p, r) /\ UNCHANGED caches
  <2>1. /\ r \in Preps /\ r.pc = "cacheWorld" /\ r.manifest = prep[p].manifest
        /\ r.stamp = prep[p].stamp /\ r.stirred = prep[p].stirred
    BY <1>1 DEF Preps, PrepareSteps
  <2> HIDE DEF r
  <2>2. CallFits(r, wasm, wasmTime)
    BY <1>1, <1>3, <2>1
       DEF CallFits, Knows, Working, KnownWorld, KnownLifecycle, PrepareSteps
  <2>3. CachesOk'
    BY <1>3, CachesKept DEF Step
  <2>4. QED
    BY <1>3, <2>2, <2>3, StepKeeps
<1>4. QED
  BY <1>2, <1>3

(* The stamp was taken before the artifact was read: if it is still the     *)
(* artifact's, so was the answer.                                           *)
LEMMA CacheWorldKeeps ==
    ASSUME PrepareIInv, NEW p \in Preparers, CacheWorld(p)
    PROVE  PrepareIInv'
<1> USE DEF CacheWorld, PrepAt, EntryStamp
<1> DEFINE r == [prep[p] EXCEPT !.pc = "lifecycle", !.stamp = 0]
<1>1. /\ prep[p] \in Preps /\ CallFits(prep[p], wasm, wasmTime) /\ wasmTime \in Nat
      /\ World(p) = WorldOf[prep[p].manifest.author] /\ World(p) \in Worlds /\ wasmTime # 0
  BY CallTypes, WasmTypes
<1>2. /\ r \in Preps /\ r.pc = "lifecycle" /\ r.manifest = prep[p].manifest
      /\ r.stamp = 0 /\ r.stirred = prep[p].stirred
  BY <1>1 DEF Preps, PrepareSteps
<1>3. Step(p, r)
  OBVIOUS
<1> HIDE DEF r
<1>4. CallFits(r, wasm, wasmTime)
  BY <1>1, <1>2 DEF CallFits, Knows, Working, KnownWorld, KnownLifecycle, PrepareSteps
<1>5. CachesOk'
  <2>1. prep[p].stamp \in 0..wasmTime
    BY <1>1 DEF CallFits, Preps
  <2>2. prep[p].stamp = wasmTime => <<FactsOf(wasm), World(p)>> \in Accepted
    BY <1>1 DEF CallFits
  <2>3. UNCHANGED <<wasm, wasmTime>>
    BY DEF Step, buildVars, files
  <2>4. QED
    BY <1>1, <2>1, <2>2, <2>3, PrepareParts DEF CachesOk, CachesHonest
<1>6. QED
  BY <1>3, <1>4, <1>5, StepKeeps

LEMMA LifecycleKeeps ==
    ASSUME PrepareIInv, NEW p \in Preparers, Lifecycle(p)
    PROVE  PrepareIInv'
<1> USE DEF Lifecycle, PrepAt
<1> DEFINE r == [prep[p] EXCEPT !.pc = "stampDescribe", !.lifecycle = FactsOf(wasm), !.stamp = 0]
<1>1. /\ prep[p] \in Preps /\ CallFits(prep[p], wasm, wasmTime) /\ FactsOf(wasm) \in Facts
      /\ wasmTime \in Nat
  BY CallTypes, WasmTypes
<1>2. /\ r \in Preps /\ r.pc = "stampDescribe" /\ r.manifest = prep[p].manifest
      /\ r.stamp = 0 /\ r.stirred = prep[p].stirred /\ r.lifecycle = FactsOf(wasm)
  BY <1>1 DEF Preps, PrepareSteps
<1>3. Step(p, r) /\ UNCHANGED caches
  OBVIOUS
<1> HIDE DEF r
<1>4. CallFits(r, wasm, wasmTime)
  BY <1>1, <1>2 DEF CallFits, Knows, Working, KnownWorld, KnownLifecycle, PrepareSteps
<1>5. CachesOk'
  BY <1>3, CachesKept DEF Step
<1>6. QED
  BY <1>3, <1>4, <1>5, StepKeeps

LEMMA StampDescribeKeeps ==
    ASSUME PrepareIInv, NEW p \in Preparers, StampDescribe(p)
    PROVE  PrepareIInv'
<1> USE DEF StampDescribe, PrepAt
<1> DEFINE hit == [prep[p] EXCEPT !.pc = "done", !.describe = describeCache.describe]
           miss == [prep[p] EXCEPT !.pc = "describe", !.stamp = wasmTime]
           r == IF DescribeHit(p) THEN hit ELSE miss
<1>1. /\ prep[p] \in Preps /\ CallFits(prep[p], wasm, wasmTime) /\ wasmTime # 0
      /\ wasmTime \in Nat
  BY CallTypes, WasmTypes
<1>2. /\ describeCache.describe \in Descriptions
      /\ DescribeHit(p) => \E world \in WorldsOf(Export(p)) :
                             describeCache.describe = Described(wasm, world)
  BY <1>1, PrepareParts DEF CachesOk, CachesHonest, DescribeHit
<1>3. ASSUME DescribeHit(p) PROVE CallFits(hit, wasm, wasmTime)
  <2>1. /\ hit \in Preps /\ hit.pc = "done" /\ hit.manifest = prep[p].manifest
        /\ hit.stamp = prep[p].stamp /\ hit.stirred = prep[p].stirred
        /\ hit.lifecycle = prep[p].lifecycle /\ hit.describe = describeCache.describe
    BY <1>1, <1>2 DEF Preps, PrepareSteps
  <2> HIDE DEF hit
  <2>2. QED
    BY <1>1, <1>2, <1>3, <2>1
       DEF CallFits, Knows, Working, KnownWorld, KnownLifecycle, PrepareSteps, Export
<1>4. CallFits(miss, wasm, wasmTime)
  <2>1. /\ miss \in Preps /\ miss.pc = "describe" /\ miss.manifest = prep[p].manifest
        /\ miss.stamp = wasmTime /\ miss.stirred = prep[p].stirred
        /\ miss.lifecycle = prep[p].lifecycle
    BY <1>1 DEF Preps, PrepareSteps
  <2> HIDE DEF miss
  <2>2. QED
    BY <1>1, <2>1 DEF CallFits, Knows, Working, KnownWorld, KnownLifecycle, PrepareSteps
<1>5. Step(p, r) /\ UNCHANGED caches
  OBVIOUS
<1>6. CachesOk'
  BY <1>5, CachesKept DEF Step
<1> HIDE DEF hit, miss
<1>7. CallFits(r, wasm, wasmTime)
  BY <1>3, <1>4
<1>8. QED
  BY <1>5, <1>6, <1>7, StepKeeps

LEMMA LoadDescribeKeeps ==
    ASSUME PrepareIInv, NEW p \in Preparers, LoadDescribe(p)
    PROVE  PrepareIInv'
<1> USE DEF LoadDescribe, PrepAt
<1> DEFINE r == [prep[p] EXCEPT !.pc = "cacheDescribe", !.describe = Described(wasm, World(p))]
<1>1. /\ prep[p] \in Preps /\ CallFits(prep[p], wasm, wasmTime)
      /\ World(p) = WorldOf[prep[p].manifest.author]
      /\ World(p) \in WorldsOf(ExportOf[prep[p].manifest.author])
      /\ Described(wasm, World(p)) \in Descriptions
  BY CallTypes, WasmTypes, OwnWorld, DescriptionsKnown
<1>2. CASE PrepareFails(p)
  BY <1>2, PrepareFailsKeeps
<1>3. CASE Step(p, r) /\ UNCHANGED caches
  <2>1. /\ r \in Preps /\ r.pc = "cacheDescribe" /\ r.manifest = prep[p].manifest
        /\ r.stamp = prep[p].stamp /\ r.stirred = prep[p].stirred
        /\ r.lifecycle = prep[p].lifecycle /\ r.describe = Described(wasm, World(p))
    BY <1>1 DEF Preps, PrepareSteps
  <2> HIDE DEF r
  <2>2. CallFits(r, wasm, wasmTime)
    BY <1>1, <2>1 DEF CallFits, Knows, Working, KnownWorld, KnownLifecycle, PrepareSteps
  <2>3. CachesOk'
    BY <1>3, CachesKept DEF Step
  <2>4. QED
    BY <1>3, <2>2, <2>3, StepKeeps
<1>4. QED
  BY <1>2, <1>3

LEMMA CacheDescribeKeeps ==
    ASSUME PrepareIInv, NEW p \in Preparers, CacheDescribe(p)
    PROVE  PrepareIInv'
<1> USE DEF CacheDescribe, PrepAt, EntryStamp
<1> DEFINE r == [prep[p] EXCEPT !.pc = "done", !.stamp = 0]
<1>1. /\ prep[p] \in Preps /\ CallFits(prep[p], wasm, wasmTime) /\ wasmTime \in Nat
      /\ Export(p) \in Exports
  BY CallTypes, WasmTypes
<1>2. /\ r \in Preps /\ r.pc = "done" /\ r.manifest = prep[p].manifest
      /\ r.stamp = 0 /\ r.stirred = prep[p].stirred
      /\ r.lifecycle = prep[p].lifecycle /\ r.describe = prep[p].describe
  BY <1>1 DEF Preps, PrepareSteps
<1>3. Step(p, r)
  OBVIOUS
<1> HIDE DEF r
<1>4. CallFits(r, wasm, wasmTime)
  BY <1>1, <1>2 DEF CallFits, Knows, Working, KnownWorld, KnownLifecycle, PrepareSteps
<1>5. CachesOk'
  <2>1. prep[p].stamp \in 0..wasmTime /\ prep[p].describe \in Descriptions
    BY <1>1 DEF CallFits, Preps
  <2>2. prep[p].stamp = wasmTime => \E world \in WorldsOf(Export(p)) :
                                      prep[p].describe = Described(wasm, world)
    BY <1>1, CallTypes, OwnWorld DEF CallFits, Export
  <2>3. UNCHANGED <<wasm, wasmTime>>
    BY DEF Step, buildVars, files
  <2>4. QED
    BY <1>1, <2>1, <2>2, <2>3, PrepareParts DEF CachesOk, CachesHonest
<1>6. QED
  BY <1>3, <1>4, <1>5, StepKeeps

-----------------------------------------------------------------------------
LEMMA ClearCacheKeeps ==
    ASSUME PrepareIInv, ClearCache
    PROVE  PrepareIInv'
<1> USE DEF ClearCache
<1>1. UNCHANGED <<wasm, wasmTime>>
  BY DEF buildVars, files
<1>2. BuildIInv'
  BY PrepareParts, BuildStepIInv
<1>3. 1 \in Revisions /\ ExportOf[1] \in Exports
  BY DEF Revisions, Exports
<1>4. CachesOk'
  BY <1>1, <1>3, WasmTypes, DescriptionsKnown DEF CachesOk, CachesHonest
<1>5. QED
  BY <1>1, <1>2, <1>4, PrepareParts, PrepareWhole

(* Nothing that was concluded from the old artifact is taken for the new    *)
(* one: its stamp is later than all there are.                              *)
LEMMA ProjectStepKeeps ==
    ASSUME PrepareIInv, ProjectStep
    PROVE  PrepareIInv'
<1> USE DEF ProjectStep
<1>1. BuildIInv'
  BY PrepareParts, BuildStepIInv
<1>2. /\ \/ UNCHANGED <<wasm, wasmTime>>
         \/ wasmTime' = wasmTime + 1 /\ wasm' # NoFile
      /\ wasmTime \in Nat
  BY PrepareParts, ArtifactStamped, WasmTypes
<1>3. CachesOk'
  BY <1>2, PrepareParts DEF CachesOk, CachesHonest, caches
<1>4. ASSUME NEW p \in Preparers
      PROVE  CallFits(prep'[p], wasm', wasmTime')
  <2> DEFINE r == prep[p]
             s == [r EXCEPT !.stirred = TRUE]
  <2>1. r \in Preps /\ CallFits(r, wasm, wasmTime)
    BY PrepareParts
  <2>2. CASE UNCHANGED <<wasm, wasmTime>>
    <3>1. prep'[p] = r
      BY <2>2
    <3>2. QED
      BY <2>1, <2>2, <3>1
  <2>3. CASE wasmTime' = wasmTime + 1 /\ wasm' # NoFile
    <3>1. /\ s \in Preps /\ s.pc = r.pc /\ s.manifest = r.manifest /\ s.stamp = r.stamp
          /\ s.stirred
      BY <2>1 DEF Preps
    <3>2. r.stamp \in Nat /\ r.stamp <= wasmTime
      BY <2>1 DEF Preps, CallFits
    <3>3. CASE r.pc \in {"idle", "done"}
      <4>1. prep'[p] = r
        BY <3>3
      <4>2. CallFits(r, wasm', wasmTime')
        BY <1>2, <2>1, <2>3, <3>2, <3>3 DEF CallFits, Knows, Working, KnownWorld, KnownLifecycle
      <4>3. QED
        BY <4>1, <4>2
    <3>4. CASE r.pc \notin {"idle", "done"}
      <4>1. prep'[p] = s
        BY <1>2, <2>3, <3>4
      <4> HIDE DEF s
      <4>2. CallFits(s, wasm', wasmTime')
        BY <1>2, <2>1, <2>3, <3>1, <3>2, <3>4 DEF CallFits, Knows
      <4>3. QED
        BY <4>1, <4>2
    <3>5. QED
      BY <3>3, <3>4
  <2>4. QED
    BY <1>2, <2>2, <2>3
<1>5. prep' \in [Preparers -> Preps]
  BY <1>4 DEF CallFits
<1>6. QED
  BY <1>1, <1>3, <1>4, <1>5, PrepareParts, PrepareWhole

LEMMA PrepareStutter ==
    ASSUME PrepareIInv, UNCHANGED prepareVars
    PROVE  PrepareIInv'
<1>1. UNCHANGED <<wasm, wasmTime, prep, prepares>>
  BY DEF prepareVars, buildVars, files
<1>2. BuildIInv' /\ CachesOk'
  BY PrepareParts, BuildStepIInv, CachesKept DEF prepareVars
<1>3. QED
  BY <1>1, <1>2, PrepareParts, PrepareWhole

LEMMA PrepareStepIInv == PrepareIInv /\ [PrepareNext]_prepareVars => PrepareIInv'
<1> SUFFICES ASSUME PrepareIInv, [PrepareNext]_prepareVars PROVE PrepareIInv'
  OBVIOUS
<1>1. ASSUME NEW p \in Preparers, PrepareStep(p) PROVE PrepareIInv'
  <2>1. CASE VerifyHash(p) \/ ComputeHash(p)
    BY <2>1, CompareHashKeeps DEF VerifyHash, ComputeHash
  <2>2. QED
    BY <1>1, <2>1, DiscoverKeeps, StampWorldKeeps, CheckPreparedWorldKeeps, CacheWorldKeeps,
       LifecycleKeeps, StampDescribeKeeps, LoadDescribeKeeps, CacheDescribeKeeps
       DEF PrepareStep
<1>2. QED
  BY <1>1, ClearCacheKeeps, ProjectStepKeeps, PrepareStutter DEF PrepareNext

(* Every behaviour of build and of any number of preparers beside it keeps  *)
(* the inductive invariant.                                                 *)
THEOREM PrepareInvariance == PrepareSpec => []PrepareIInv
<1>1. QED
  BY PrepareInitIInv, PrepareStepIInv, PTL DEF PrepareSpec

(* The caches never hold an entry that is taken for the present artifact    *)
(* and is wrong about it.                                                   *)
THEOREM CachesAreHonest == PrepareSpec => []PrepareInv
<1>1. PrepareIInv => PrepareInv
  BY DEF PrepareIInv
<1>2. QED
  BY PrepareInvariance, <1>1, PTL

(* A call that nobody disturbed describes one artifact, accepted for the    *)
(* world of its manifest, under the world of a manifest with the same       *)
(* describe_export.                                                         *)
THEOREM CallsDescribeOneArtifact == PrepareSpec => []PreparedOneArtifact
<1>1. PrepareIInv => PreparedOneArtifact
  BY DEF PrepareIInv, PreparedOneArtifact, Knows, PrepAt, World, Export
<1>2. QED
  BY PrepareInvariance, <1>1, PTL
=============================================================================
