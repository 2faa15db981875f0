# TLA+ models of greentic-component

greentic-component is a workspace of Rust crates around WASM components: a CLI
that creates, builds, tests, inspects, stores and publishes them, a library
that loads and prepares them, a runtime host that binds and invokes them, and a
store that fetches artifacts and caches them on disk. This directory holds TLA+
models of the parts whose behaviour depends on the order in which threads,
processes, crashes and file writes happen, the TLC configurations that check
them, and proofs, for every value of the constants, of the safety properties of
every part.

All paths below are relative to the repository. `PROJECT.json` maps every
definition to the lines it stands for.

## 1. The system

| Component | State it keeps | Operations | What is hard |
|---|---|---|---|
| artifact store (`crates/greentic-component-store`) | a cache directory: `<digest>.wasm` and one file per locator, by default a fixed directory under the temporary one, so shared by every process | `fetch`, `list` | clients that overlap; `fs::write` truncates and then fills; a failure to write the locator's file is only logged; locators of changing sources |
| component store (`greentic-component/src/store`) | `cache_dir`: an entry per digest and a hint (locator → digest) per locator; sources by id | `add_fs`, `add_oci`, `get` | two files per `get` with `await`s between the writes; dropped futures; clients with different policies; repair of hints |
| test harness (`src/test_harness`) | wasmtime engine and its epoch, state store, secrets store, per invocation a done flag, a deadline and a memory flag | `invoke`, host calls | one watchdog thread per invocation that outlives it, on a shared epoch; classification of errors after the fact |
| test command (`src/cmd/test.rs`) | arguments, harness, output and trace file | one run of several steps | combination of manifest, `--dry-run`, `--allow-*`; the order of output, trace and exit |
| build pipeline (`src/cmd/build.rs`, `config.rs`, `embedded_descriptor.rs`, `cmd/flow.rs`, `cmd/hash.rs`) | manifest file, artifact, `dist/` | `build`, `flow update`, `hash` | read-modify-write over minutes; in-place rewriting of cargo's output; a kill anywhere; edits meanwhile |
| prepare and loader (`src/prepare.rs`, `loader.rs`, `abi.rs`, `describe.rs`) | `ABI_CACHE`, `DESCRIBE_CACHE` of the process | `prepare_component`, `clear_cache_for`, `discover` | the artifact is opened anew for each fact while a build may rewrite it; cache keys by modification time |
| component runtime (`crates/greentic-component-runtime`) | per handle a map of tenant bindings under a mutex; a state store shared by all handles | `load`, `bind`, `invoke`, `describe`, host imports | binding and invoking at the same time; shared state; guests without a timeout |
| wizard (`src/cmd/wizard.rs`, `src/wizard`) | an output directory, answers documents, the answers of a dialog | dialog, plan, dry run, apply: create, add and update an operation, build and test, doctor | the old directory is removed before all answers are checked; files are written in place one by one; two files that have to agree; going back in a dialog |
| scaffold and new (`src/scaffold`, `src/cmd/new.rs`, `post.rs`) | a new directory, its git repository | request, template, rendering, each file through a temporary one, dependency check, git, compiler | failure or kill between the steps |
| doctor and inspect (`src/cmd/doctor.rs`, `inspect.rs`, `embedded_compare.rs`) | the store the component runs in, a harness | find artifact and manifest, call the component, judge, report | checks go on after failed ones; a trap spoils the calls after it; two copies of one search |
| store commands (`src/cmd/store.rs`, `store_publish.rs`) | the directory `fetch` writes to | `store fetch`, `store publish` | files read and written one after the other while builds replace them |
| manifest, resolve, security, schema tools, i18n, info, templates, CLI | none, or one file they write | one pass over a document | little: mostly pure functions |

How they interact. `build` writes what `prepare`, `hash`, `doctor` and `test`
read: the manifest and the artifact are the shared state of every command on a
project, without a lock; `new` and the wizard make and change the project, `store
publish` packs it. `test` invokes through the harness, and so does `doctor` for
a component that has only the node interface; one with the descriptor interface
`doctor` calls in a store of its own. The wizard runs `build`, cargo and
`doctor` as the last steps of a plan. The component store's `fs` and `oci` back ends
are what the artifact store is to other programs: two independent caches with
the same promise, that a locator keeps the content it was first fetched with and that
what a digest names is what it is the digest of.

What makes each correct:

* artifact store: never return bytes the policy refuses; a digest's file holds
  bytes of that digest; a locator means one content from its first fetch on.
* component store: never return what the caller's own policy refuses; no hint
  without an entry; damage is repaired by the next `get`.
* harness: a step is interrupted only if it, or a step before it, was late; a
  memory limit is blamed on the step that exceeded it; a guest that loops is
  stopped, as far as it runs and does not wait in the host.
* test command: nothing beyond manifest and flags is ever let through; output,
  trace and exit code agree; it ends, unless a guest waits for ever in one host call.
* build pipeline: an undisturbed command leaves a manifest whose hash is the
  artifact's and an artifact that carries that manifest; `config_schema` is the one
  the options ask for.
* prepare: what it returns is about one artifact; cache entries tell the truth about
  it. Which revision of the manifest a cached description takes its world from is
  as open as the cache key leaves it.
* runtime: an invocation uses a binding that was accepted for its own tenant;
  denied host calls change nothing; `write_if_absent` claims a key once; no
  mutex is held while a guest runs.
* wizard, new: a command that succeeds leaves the project that was asked for,
  with the user operations of `src/lib.rs` and manifest in agreement; a file of somebody else is not
  changed or removed without a consent given for it; `new` never leaves part of a
  file under its name.
* doctor: an "ok" is earned, no failed or missing answer is passed over, and
  inspect agrees with it wherever the two searches are the same; a node component that
  loops does not keep the report from coming.
* store commands: what reaches the store is one artifact with its own digests; a
  fetch that ends well leaves the artifact and the manifest of its source.

The hazards in `PROJECT.json` list where each of these could go wrong, line by
line.

## 2. Modules

    ContentStore                 abstract: bound locators, stored digests
      ^ implemented by               ^
    ArtifactStore                ComponentCache
      ^ MCArtifactStore            ^ MCComponentCache
      ^ ArtifactStoreProofs        ^ ComponentCacheProofs

    Harness <- TestCommand            BuildPipeline <- Prepare
      ^          ^ MCTestCommand          ^              ^ MCPrepare
      |          ^ HarnessProofs          |              ^ PrepareProofs
      |          |                        |
    Doctor ------+ (and SchemaIr)     Exchange
      ^ MCDoctor                        ^ MCExchange
                                        ^ ExchangeProofs <- PrepareProofs

    Scaffold <- Wizard                WizardDialog
                  ^ MCProject           ^ WizardDialogProofs
                  ^ ProjectProofs

    SharedState                  abstract: an atomic store of state
      ^ implemented by
    RuntimeHost
      ^ MCRuntimeHost
      ^ RuntimeHostProofs

An arrow from a module to another is EXTENDS (Doctor takes SchemaIr with
INSTANCE). Each MC module only defines values for constants. A definition whose
comment begins with "Mutant" or that names a slip of the code is used by no
specification: it is what the code would be with a bug a property has to catch,
listed under "mutants" in `PROJECT.json`.

### ContentStore

The promise of a cache to a caller who has it to himself: `bound` is a table
from locators to contents that is filled by the first fetch and never changes,
`stored` the contents that can be had by digest. A request is asked, then
served by digest, bound or refused, then answered. It has no files.

### ArtifactStore (`greentic-component-store/src/lib.rs`, `verify.rs`, `fs.rs`, `http.rs`)

`fetch` is a sequence of actions, one per access to the file system, as other
clients see them: look the pinned digest up (`PinnedMiss`, `PinnedHit`), look
the locator up (`CachedMiss`, `CachedHit`), read the source (`ReadOrigin`), and
for each of the two files truncate it and fill it (`OpenDigest`, `WriteDigest`,
`OpenLocator`, `WriteLocator`). The check of the policy is part of the action
that read the bytes. Bytes are named by the content they are, with `Empty` for
a file of length zero and `Garbled` for any other rest or mixture; a digest is
the content it belongs to. `Readable` is what a reader may get while others are
about to fill the file, `Overwrite` what a file holds after two writers of
different contents. `DigestWriteFails` is a failing write of the digest's
file, which ends the fetch, `LocatorWriteFails` one of the locator's file, which is
only logged; `Crash` ends a client at any place.
`Publish` changes or removes what a source has.

Left out: parsing of locators (a locator is its text and, per client, the
source it leads to, which captures that a relative path means other files in
other directories), `list`, and what is inside a signature policy beyond that
no signature is ever found.

### ComponentCache (`greentic-component/src/store`)

The same for `ComponentStore::get`: read the hint, read the entry and compare its digest
(`ReadHint`, `ReadData`), repair the hint if it differs, check compatibility,
or fetch from the source, check, and write entry and hint. `Interrupt`
is a dropped future, a kill or a failed write. ABI and capabilities of bytes
are the constant `Meta`, each client's `CompatPolicy` the constant `Policy`.
A hint may be blank (truncated and not filled: read as the empty id, whose path
is the cache directory itself) or cut.

### Harness (`greentic-component/src/test_harness`)

A harness invokes steps one after another. `Invoke` sets the epoch deadline one
past the current epoch and starts a watchdog; `WatchdogWakes` is the test of the
done flag after the sleep, `WatchdogFires` the increment of the epoch, two steps because they
are two in the thread. The guest is any guest: every host call that
changes something, growing its memory, failing, returning a result, or doing
nothing for ever. `Interrupted` is enabled when the epoch has reached the
deadline. `End` and `EndInError` translate `invoke`'s classification of the
error. The epoch is looked at in guest code only, so `waiting` is the guest in a host
call that takes its time: a granted `HttpRequest` (`linker.rs:235`, a blocking
client) or a poll or sleep of WASI (`WaitInHost`, `linker.rs:124`). Until
`HostReturns`, which need never come, no watchdog reaches it. `cause`, `late`,
`exceeded` and `effects` are histories.

### TestCommand (`cmd/test.rs`)

EXTENDS Harness: `Start` checks the arguments, `Prepare` derives the grant
from the manifest and the flags and seeds the store, `NextStep` invokes,
`StepFailed`, `OutputTooLong`, `AllStepsDone` follow its end, and `WriteOutput`,
`WriteTrace`, `WriteFailureTrace` write the files, each of which may fail and
may leave a truncated file. Watchdogs and guest act beside it.

### BuildPipeline (`cmd/build.rs`, `config.rs`, `embedded_descriptor.rs`, `cmd/flow.rs`, `cmd/hash.rs`)

Each worker runs one command at a time and holds in `job` what it has read; a
command reads the manifest in `Begin` and writes it back in `WriteOpen` and `WriteManifest`.
The manifest is reduced to the revision of the author's own fields, the state
of `config_schema`, the revision `dev_flows` was generated from and the hash.
A wasm file is the revision of the code and the sequence of manifest sections
appended to it. Cargo is external: it compiles when the source is newer than
its last output and else leaves the file as it is, sections, tears and all.
`Kill` ends a command anywhere; between the open and the write of a file that
leaves it torn. `EditSource` and `EditManifest` are the developer.

### Prepare (`prepare.rs`, `loader.rs`, `abi.rs`, `describe.rs`)

EXTENDS BuildPipeline: threads call `prepare_component` while builds go on.
Every opening of the artifact is an action: two hashes, stamp and world check, lifecycle,
stamp and description; the entry of each cache is made in an action after that.
The stamp (length and modification time) is the counter `wasmTime`: **each
write has a stamp of its own**. Two artifacts of equal length written within
the resolution of the clock would break that, and the caches with it; that
hazard stays with the reader. A description is the functions of the code and, as its
name and `schema_id`, the world of the manifest it was made for
(`describe.rs:92,117-137`): `Described`. The key of a cached one is the stamp and
`describe_export` (`prepare.rs:125`), so `StampDescribe` may hand out one made for
another world.

### Exchange (`cmd/store.rs`, `cmd/store_publish.rs`)

EXTENDS BuildPipeline: one `store publish` or `store fetch` at a time next to
the workers. `Publish` reads the manifest, `ReadWasm` the file named by
`--wasm` (the artifact or its copy in `dist/`), `Upload` sends the package once;
the store may hold it whether or not its answer arrives. `Fetch` gets what the
distributor client hands over, `OpenOutManifest` and `FillOutManifest` replace
the manifest, `Place` parses it and settles where the artifact goes, `OpenCopy`
and `FillCopy` copy it. `TradeFails` is a failed write or a kill at any of
these places. The Greentic Store and the client are external. `receipt` is the
history of the last fetch that ended well. A project starts unbuilt or as a
build has left it (`Built`).

### Scaffold (`src/scaffold`, `cmd/new.rs`, `cmd/post.rs`)

A project directory and the commands on it. A file is what a later reader can
tell of it: who wrote it last, whether it is whole, executable, and the part of
its text somebody reads (operations, default operation and capabilities in the
manifest, path dependencies in `Cargo.toml`, the operations `src/lib.rs`
lists). `Check` is request, template and rendering, which come before the first
write; each file is `OpenTemp`, `Persist` and perhaps `SetExecutable`, or
`WriteFails`; then `CheckDeps`, git step by step (`DetectGit` to `GitCommit`)
and `Compile`. A killed command leaves the directory as it is, its temporary
file included. `Edit` is the developer.

`disturbed` is the set of commands that overlapped with another one or with an
edit. The properties of what a command delivers speak of the others.

### Wizard (`cmd/wizard.rs`, `src/wizard`)

EXTENDS Scaffold: runs of the wizard with an answers document. `Resolve`
settles answers and mode; `Clear` removes or checks the output directory of a
create, and `Parse` reads the remaining answers and makes the plan;
`ReadManifest` and `RewriteLib` plan the new manifest and `src/lib.rs` of
`add_operation` and `update_operation`. `Output` writes the answers and, for a
dry run, the plan. The steps of a plan are executed in place: `EnsureDirs`,
`OpenFile` (truncates), `FillFile`, then `Build` and `Call` (cargo test,
doctor), each of which may fail.

### WizardDialog (`cmd/wizard.rs`)

The interactive wizard: main menu, the questions of a mode, `0` for back and
`m` for the menu, the overwrite question (`Agree`, `Decline`), the long list
of the advanced set-up (`Complete`), and what is made of the answers (`Gate`,
`Parse`, `Run`). Other programs create, fill, empty or remove the directories
meanwhile. `agreed` is the history of consents.

### Doctor, SchemaIr (`cmd/doctor.rs`, `cmd/inspect.rs`, `embedded_compare.rs`)

A subject is what the files are like: the target, the manifests around it, the
artifact with its embedded section, interfaces, description and config schema.
`Resolve` finds artifact and manifest, `Load` instantiates, `CallExport` makes
the calls of the descriptor path, with any answer, and with none after a trap;
`InvokeNode` and `JudgeNode` go through the operations of a node component on
Harness, which Doctor EXTENDS. The verdicts of both programs are functions of
what was read and answered. `SchemaIr` holds the checks of a typed schema, and of
a value against it, which call themselves for the parts of either, as recursive
functions over a set of schemas and a set of values that contain their parts.
What they are meant to come to is an assumption of `MCDoctor`, `SchemaExamples`, a
table written by hand that TLC compares them with.

The two programs have a copy each of the search for the manifest, and so has the
model. `ManifestRead` is doctor's, which looks into a target directory with or
without `file://` in front (`doctor.rs:62-65`); `InspectManifestRead` is
inspect's, which does not find a directory written as a URL to be one
(`inspect.rs:210`). A manifest may lie in the target directory and beside the
artifact, and these need not be the same.

### SharedState

The promise of the state store to the guests that share it: a call is asked,
settled at one instant, and returned. Settling changes the table only if the
caller has the right to the operation.

### RuntimeHost (`greentic-component-runtime/src`)

Threads run `load`, `bind` and `invoke`. `bindings[h]` is the map of a handle
and `bindingsLock[h]` its mutex, `store` and `storeLock` the state store of the
`HostPolicy` all handles were loaded with. `Bind` and `Invoke` are the part
before the mutex, `LockBindings`, `InsertBinding` and `CloneBinding` the rest;
`CloneBinding` lets the mutex go before the guest runs. The guest is any guest:
it makes a host call, returns, fails, or does nothing for ever. While `load`
runs the guest's `describe` it has the same imports and rights. A host call is
denied before the mutex (`Deny`) or takes it, works and returns;
`write_if_absent` is the two steps `FindState` and `InsertAbsent` under one
guard. `kv_get` of bytes that are no UTF-8 is an error that traps the guest.
`accepted` is the history of what `bind` said yes to.

What a guest writes is normalised when it parses as CBOR, the constant
`Stored`. Left out: `http_request` and the control interface, which touch none of
this, and the resolution of secrets, which is never reached (see the
observations below). Keys of the legacy calls are `ns:key` in the same map.

## 3. Runs

| Run | Question | States |
|---|---|---|
| `store` | Two clients, four policies, one locator that names another file for each of them, one fault, one change of a source: what comes back is always verified, concurrent writers of one digest agree, an immutable pin is served, and while fetches do not overlap and nothing has failed the files implement ContentStore | 3.4 M |
| `cache_faults` | A lax and a strict client, one fault, one change: policies hold, no hint without entry, what damage can block a locator; and, as long as gets do not overlap, hints and entries implement ContentStore | 1.9 M |
| `test_command` | The test command with two steps, manifests and arguments that grant more and less: what it reports, what it lets through, that it ends unless the guest waits for ever in one host call | 23 k |
| `build` | Two workers and a store command: every pair out of `build`, `flow update` and `hash` with the options that matter, `store publish` and `store fetch`, one edit of each kind, one kill: what an undisturbed command leaves verifies, `config_schema` is the one asked for, packages are consistent, fetches deliver | 2.5 M |
| `prepare` | Two threads prepare while up to two builds run and source or manifest is edited twice: caches tell the truth, a result is about one artifact, and its world is one that the manifest has or had | 2.6 M |
| `runtime` | Two threads load, bind and invoke two handles for two environments, their guests may never return: bindings are the caller's own, state calls are atomic and allowed, every mutex is let go | 272 k |
| `project` | Two commands out of twenty requests to `new` and the wizard on one directory, interleaved or one after the other, one kill, one edit, from each kind of directory: whole files, agreement of `src/lib.rs` and manifest, what was asked for, files of others kept | 1.7 M |
| `dialog` | Each way through the questions of each mode, two directories others change: answers are complete and current, a directory in use goes only with a consent for it | 94 k |
| `doctor` | Components that differ from a sound one in one respect, as file, manifest or directory; manifests in the target directory and beside the artifact, targets written as URLs; guests that answer anything: an ok is earned, inspect agrees where the searches do, interrupts and memory limits are blamed on their own operation, a looping node component does not hold up the report | 295 k |
| `harness_timeout` | violation, see section 6 | |
| `build_embed` | violation, see section 6 | |
| `runtime_scope` | violation, see section 6 | |

The runs `dialog`, `doctor`, `prepare` and `test_command` check the type
invariant together with the main invariant as one conjunction (`DialogInv`,
`DoctorInv`, `PrepareInv`, `TestCommandInv`).

Bounds, and why they are enough:

* One fault and one change of a source: a fault's damage shows in what later
  calls make of it, and a second fault only damages what the first could have.
  The theorems below hold for any number of them.
* Two clients: interference is between a client and whoever wrote the file it
  reads; the theorems are for any number.
* Two contents: the old and the new one. `Empty` and `Garbled` are further
  bytes that can be persisted under their own digest.
* Three operations of a node component in `doctor`: a step can be hit by the
  watchdogs of two earlier ones, so that the epoch can be two ahead of the one
  it began with. `operation` (the fourth call, of the manifest's first
  operation) is the same action as the others and is left out of the instance.
  One mode of `qa-spec` and `apply-answers` stands for five.
* `MaxCommands` = 2 with two workers: every pair of commands, overlapping or
  one after another, each also killed at each step, and the edits at each step
  of both. The chain "built, edited, built again" is within it.
* `build` has one store command at a time: publish and fetch only read the project,
  and meet in the store, where a package is there or is not. `SYMMETRY WorkersAlike` is sound, since no
  constant or property names a worker.
* `project`: `MaxCommands` = 2, `MaxKills` = 1, `MaxEdits` = 1. What a command
  that was killed or disturbed leaves is the start of the second one. The
  requests cover each mode, each template and a refusal before and after the directory is cleared; a renaming of one of the
  reserved operations is among the values the theorem is about but not among these: it only
  removes that operation from what the property asks for (section 5).
* `dialog`: two directories, so that a consent can be for the other one, and one change
  by others at any moment.
* `MaxPrepares` = 2: one call fills a cache and the other uses it, in every
  order; `ClearCache` is always possible. Two edits in all (`TwoEdits`), of the source or
  of the manifest; the first one of the manifest changes its world alone, the
  second one its `describe_export`.
* `runtime`: a race on a mutex is between two; two environments of one tenant
  are contexts that differ in one half of the key; one key of the state store
  is where calls meet, and calls on different keys are independent. Nothing in
  it is bounded in length.

`Prepare.cfg` uses a symmetry and a view. The preparers are interchangeable:
no constant or property names one. The view leaves out `dist` and `settled`,
which no action guard and no property of that run reads, so states that
differ in them alone have the same futures. Both are sound for invariants, and
this run checks only invariants.

`CHECK_DEADLOCK FALSE` stands where the system really stops: after the last
step or the end of the command, or at the bounds of commands and edits.

What the properties say is in the comment above each of them in its module.
The ones that need most care when the code changes:

* `ResultsVerified`, `DigestFilesIntact`, `ResultsCompatible`: in-place writes in
  a shared directory are safe only because every byte that is read is hashed
  and checked again, and because writers of one file write the same bytes.
* `ImplementsTable`: the moment of decision is the policy check, before the
  files change. In ComponentCache it is a property of the run with overlaps and
  faults: each step taken while nothing has overlapped or failed so far
  (`alone`, `faults = 0`) is a step of ContentStore.
* `ImplementsSharedState`: the step that decides is the one that reads or changes
  the map, so an entry `write_if_absent` found missing must still be missing
  when it inserts.
* `OnlyBlankHintsBlock`: after any interruption the next undisturbed `get`
  works, with one exception, a hint that was truncated and not filled.
* `InterruptNeedsLateStep`: it does not say that only a late step is
  interrupted. A watchdog that has seen its step still running may
  advance the epoch after that step has returned, and then the next step is
  interrupted at once; what holds is that some step up to this one was late.
* `ArtifactVerifies`: holds when the last command was undisturbed. It does not
  when a manifest is edited or another command runs during a build: the build
  writes back the manifest it read at its start, minutes before, and the
  edit is lost.
* `CachesHonest`: depends on the stamp being taken before the file is read.
* `PreparedOneArtifact`: it says of the world in a description only that it is one of a
  manifest with the same `describe_export`. After an edit of the world alone that is the
  old one, until the artifact is written or the cache cleared. If a build overlapped the
  call that made the description, the artifact need not even be accepted for
  that world; it is for the one of the manifest.
* `AlignedWhenDone`: the user operations agree in any case, the reserved ones unless
  a command was told to rename one of them (`ToRename`).
* `VerdictIsEarned`: `SoundFiles` goes as far as doctor looks, which is less than
  the documents say (section 6).

## 4. Fairness

`TestCommand`, `Doctor` (both over `Harness`) and `RuntimeHost` have liveness
properties.

* `WF(WatchdogWakes(s))`, `WF(WatchdogFires(s))`: watchdogs are OS threads that
  sleep for a finite time and then take two steps without a lock.
* `SF(Interrupted)`: compiled guest code checks the epoch at every function
  entry and loop back edge (`epoch_interruption(true)` in the engine's
  configuration), so a guest that goes on running comes to such a place. Strong,
  because a guest may call the host again and again: between two calls it passes
  such a place, but not while it is in one, where the action is disabled.
* No fairness for the guest: nothing makes it return, trap or call the host.
* `WF(Command)` in TestCommand: the command's own thread goes on between
  invocations.
* `WF(NodeStep)` in Doctor: doctor goes from one operation to the next. Nothing
  is assumed of the descriptor path, whose store has no deadline, so
  `NodeChecksEnd` is about node components only.
* `WF(HostStep(t))` in RuntimeHost: the host's own code, from the entry of
  `bind` or `invoke` to the guest and within a host call, runs without waiting
  except for a mutex. Weak fairness does not promise a waiting thread that it
  gets the mutex (`std::sync::Mutex` is not fair), and the property does not
  need it. No fairness for guests or for callers.

`LocksAreReleased` says that each mutex is free again and again.
`CommandEnds` and `NodeChecksEnd` hold under the others and under the condition
`[]<>~waiting`: every host call the guest waits in returns at last, though there may
be any number of them. Without it both are false. The HTTP client gives up after the 30
seconds that are its default, but a poll or sleep of WASI has no bound of its own, and the
timeout of an invocation does not reach a guest there, so `test` and `doctor` then
never end.

## 5. Proofs

Each theorem holds for every value of the constants: any number of clients, threads,
workers and steps, any requests and policies, any number of faults, kills, edits
and changes outside.

| Theorem | States |
|---|---|
| `ArtifactStoreProofs!TypeCorrect` | `TypeOK` |
| `ArtifactStoreProofs!OnlyVerifiedResults` | `ResultsVerified` |
| `ArtifactStoreProofs!ConcurrentPersistsAgree` | `DigestFilesIntact` |
| `ArtifactStoreProofs!PinsAreServed` | `ImmutablePinServed` |
| `ArtifactStoreProofs!StoreIsTable` | `ImplementsTable`, a refinement |
| `ComponentCacheProofs!TypeCorrect` | `TypeOK` |
| `ComponentCacheProofs!OnlyCompatibleResults` | `ResultsCompatible` |
| `ComponentCacheProofs!EntriesPrecedeHints` | `HintsLeadToEntries` |
| `ComponentCacheProofs!ConcurrentStoresAgree` | `EntriesIntact` |
| `ComponentCacheProofs!HintsKeepUp` | `HintFollowsResult`, an action property |
| `ComponentCacheProofs!DamageIsRepaired` | `OnlyBlankHintsBlock`, an action property |
| `ComponentCacheProofs!CacheIsTable` | `ImplementsTable`, a refinement |
| `HarnessProofs!SuccessIsWhole` | `TestCommandInv` |
| `HarnessProofs!TraceIsTrue` | `TraceMatchesExit` |
| `HarnessProofs!DryRunIsSealed` | `DryRunSealed` |
| `HarnessProofs!CapabilitiesAreEnforced` | `CapabilitiesEnforced` |
| `HarnessProofs!NoStrayInterrupt` | `InterruptNeedsLateStep` |
| `HarnessProofs!NoStrayMemoryBlame` | `MemoryBlameIsOwn` |
| `HarnessProofs!VerdictsAreEarned` | `DoctorInv` |
| `HarnessProofs!ProgramsAgree` | `InspectAgrees` |
| `HarnessProofs!DoctorHarness` | `InterruptNeedsLateStep` and `MemoryBlameIsOwn`, of doctor |
| `ExchangeProofs!BuildTypes` | `BuildTypeOK` |
| `ExchangeProofs!ArtifactIsVouchedFor` | `ArtifactVerifies` |
| `ExchangeProofs!SchemaIsAsAsked` | `SchemaAsAsked`, an action property |
| `ExchangeProofs!UploadsAreConsistent` | `PackagesConsistent` |
| `ExchangeProofs!FetchIsComplete` | `FetchDelivers` |
| `PrepareProofs!CachesAreHonest` | `PrepareInv` |
| `PrepareProofs!CallsDescribeOneArtifact` | `PreparedOneArtifact` |
| `RuntimeHostProofs!TypeCorrect` | `RuntimeTypeOK`, which includes that every binding kept satisfies the schema of its handle |
| `RuntimeHostProofs!OwnBindings` | `BindingsAreOwn` |
| `RuntimeHostProofs!StateCallsAtomic` | `ImplementsSharedState`, a refinement |
| `ProjectProofs!ProjectTypes` | `TypeOK` |
| `ProjectProofs!NewLeavesNothingPartial` | `NewFilesWhole` |
| `ProjectProofs!RequestIsDelivered` | `DeliversRequest`, an action property |
| `ProjectProofs!StrangersFilesAreKept` | `ForeignFilesKept`, an action property |
| `ProjectProofs!LibFollowsManifest` | `AlignedWhenDone`, an action property |
| `WizardDialogProofs!DialogIsComplete` | `DialogInv` |
| `WizardDialogProofs!RemovalIsConsented` | `RemovalConsented`, an action property |

Each follows from a theorem `Invariance` of its module (`DoctorInvariance` for doctor), that an inductive
invariant stated in the component's module always holds. The properties are not
inductive by themselves.

**The two caches.**

* `ResultsVerified` speaks of results; the bytes were checked several steps
  before, so `HeldVerified` carries "accepted by this call's policy" from the
  check through the four file operations, and `PinnedCalls` says that only a
  call with a pin is where a digest is looked up. `HeldCompatible` is the same for
  `ResultsCompatible`.
* `DigestFilesIntact` allows a file another client is filling to hold anything.
  That is too weak to be kept: `DigestFilesFilled` says that it is empty, so
  that `Overwrite` gives the digest's own bytes whoever fills it first.
  `EntriesFilled` and `EntryShape` are the same for `EntriesIntact`.
* `HintsLeadToEntries` needs `EntryBeforeHint`: whoever is between the entry
  and the hint has seen or made the entry, and entries are never removed.
* What sequential callers may rely on is a second invariant, `PrivateInv`, under
  the condition that nothing has overlapped so far and, for most of it, nothing
  has failed. `OneAtATime` says
  that then one call at most is under way; the other parts say what each file holds
  between calls and at each place within one: in ArtifactStore that a locator's
  file has bytes its source once published (`SourcesPublished`,
  `BytesPublished`) and agrees with the digest's (`FilesFollow`), in
  ComponentCache that the hint a call has read is the one on disk
  (`HintInHand`), names the entry it leads to (`HintsName`), and is what the
  call answers with (`GetsFollow`).
* `StoreIsTable` and `CacheIsTable` are step simulations on top of that, one lemma
  per action. The check of the policy is the step that decides: it maps to binding,
  serving or refusing, and the writes after it, which only bring the files in line
  with the decision, map to stuttering.

**Harness and test command.** The epoch is a counter that several watchdogs
advance, so `InterruptNeedsLateStep` needs to know who advanced it:
`EpochCounts` says that it is the number of steps whose watchdog fired, each of
which was late, and that no deadline is more than one above it; `OutcomesOpen`
that nothing is known yet of the steps to come. `Granted` fixes what `Prepare` derived from manifest and flags for the
rest of the run, from which the two properties of what is let through follow;
`Progress` ties the place in the command to the steps done and the files written.
What holds of a harness alone (`HarnessSound`) is proved once, action by action, for
whoever uses it, and cited by the test command and by doctor.

**Doctor and inspect.** `VerdictIsEarned` compares a report of diagnostics, gathered
along one of two paths, with what a sound component is. It is not inductive: that no
diagnostic is missing or out of place when the report is made depends on each answer
it is made of. `Course` says what doctor has found out by the time it is in
a phase; `Dialogue` that each call of the phase's plan has been answered, by something
that call can be answered with (`Possible`), or is still to be made, and that no call
of another plan was; `Pace` that the invocations of the harness keep step with the
plan of a node component, so that its last one is within the steps. The rest is about the
functions: `FilesJudged`, `DescriptorJudged` and `NodeAnswersJudged` show that, of
files that could be loaded and answers that may have come, there is no diagnostic
exactly if they are sound and good, and `GivenUpRightly` that doctor ends early only on what is not.
`ProgramsAgree` then compares what inspect
finds, with its own search, with sound files. What `Fits` and `Issues` of SchemaIr compute is
not used in any of these proofs: they hold for whatever the two say, and that the two
say the right thing is checked on examples only.

**Build, store commands, prepare.**

* `Held` says what a job holds at each place of `build`, `flow update` and
  `hash`. `Undisturbed` relates that to the artifact as long as nobody else has
  written or edited: what was hashed is what is there, and the section in front
  is of the manifest in hand. `ArtifactKnown` keeps what a finished command
  left. `ArtifactVerifies` is the last step of that chain.
* `PublishHolds` and `FetchHolds` carry what a store command has read, to the
  upload and to the receipt.
* A stamp is taken before the file is opened, so a fact in hand may be newer than its
  stamp. `AnswersHonest` and `Knows` say that if the stamp is still the
  artifact's, the fact is about the artifact; `CachesHonest` needs it for the entry
  made afterwards, `PreparedOneArtifact` for everything a call has put
  together since it compared the manifest's hash.

**Runtime.**

* `BindingsAreOwn` needs `TaskShape`, that a thread about to insert carries a
  config of a bind, valid for its handle. That one binding key means one context is
  the first assumption of `RuntimeAssumption`.
* `ImplementsSharedState` is a step simulation: each step of the host is one of
  SharedState or changes nothing it sees. `CallShape` says that a request is
  there exactly during a call and an answer exactly at its return;
  `StoreGuarded` that whoever is inside holds the mutex and has the right, and that
  the key is still absent at `InsertAbsent`. Without the last, the answer "created"
  would not be SharedState's.

**Wizard, new, dialog.**

* `CommandFits` says what a command holds at each place, and that what it
  has still to do is the rest of the script of its request; `DirectoryFits` that
  files are there only under a directory. `OnCourse` is the heart of
  `RequestIsDelivered`: a command that makes a project and has not been
  disturbed is the only one running, and every file there is one it
  wrote, in the order of its script, with the text its request asks for. When
  the script is at its end that is the whole project.
* `LInv`, on top of it, is about the two lists of operations. What is to be shown
  is that after a revision `src/lib.rs` lists what the manifest has, but a killed run leaves
  them different, so `Follows` speaks only of the run under way: its plan still has both
  files, the second made from the first; or only `src/lib.rs`, made from the manifest now in
  place; or nothing, and the two agree. That the reserved operations and the default are
  among the manifest's is checked by nobody: `Lists` has to hold of every
  manifest that is read, planned or in place, by whomever. `update_operation` accepts a
  reserved name (`cmd/wizard.rs:1007`, `1056`), renames it in the manifest and leaves it in
  `src/lib.rs`, so `ToRename` collects the operations that commands so far were told to
  rename: of the reserved ones `Lists` and the property claim only the others.
* `AnswersFollow` says that each question answered so far has an answer that
  belongs to it, whichever way was taken back and forth; `ConsentHasDirectory` and
  `Places` that a consent among the answers was given for the directory among the
  answers.

Assumptions. The named assumptions of the modules (`StoreAssumption`,
`CacheAssumption`, `HarnessAssumption`, `TestAssumption`, `BuildAssumption`,
`PrepareAssumption`, `RuntimeAssumption`, `ProjectAssumption`,
`WizardAssumption`, `MaxChangesAssumption`, `DoctorAssumption`, `ConfigAssumption`) type the constants and keep the values
that mean "none", "empty" or "torn" apart from the others. Those that say something of the
system are: steps are numbered from 1 and a call of the test command has at most
as many operations as there are steps, and so has doctor calls into a node component; the operations of a request have names, and a
request to add or update an operation that the wizard accepts names it; a context
is its environment and tenant (the code joins the two with `::`, which is taken to
be unambiguous). TLC evaluates all of them in the runs. Each inductive invariant
was checked with TLC on the instances of the runs before it was proved. A
digest naming one content, that is SHA-256 and BLAKE3 without collisions, is built
into the models, and so is a stamp of its own for each write of the artifact
(section 2, Prepare).

Model-checked only: liveness (`CommandEnds`, `NodeChecksEnd`, `LocksAreReleased`), since
fairness and ENABLED are beyond the prover. Every other property of a passing run is
stated by one of the theorems above.

## 6. Findings

Three runs expect a violation. Each is about what a document or a comment says.

1. `build_embed` (`embedded_descriptor.rs:210`). `build` appends a manifest section to whatever cargo
   left and reads the first one back. After an edit of the manifest alone cargo
   does not recompile, the old section stays in front, verification fails, and so does
   every later build until the source changes. The guide says
   that build embeds the manifest (`docs/component-developer-guide.md:83`).
2. `harness_timeout` (`test_harness/mod.rs:274`). A step interrupted for its timeout is reported as
   `test.failure`: `invoke` makes a new error of the text of the old one, so the
   search for the trap finds none and `test.timeout` cannot be reported.
3. `runtime_scope` (`host_imports.rs:250`). The state store's calls take a
   tenant context and ignore it; keys are used as given, in one map for all
   handles and tenants. `docs/component-developer-guide.md:138` says that state
   is tenant-scoped.

Seen while modelling, not the subject of a run:

* A partial `<digest>.wasm` left by a crash is refused by each later fetch that
  pins this digest and is not replaced; a fetch without the pin, or with the
  digest in upper case, rewrites it if it can still get the bytes.
* A partial locator file is accepted for ever by unpinned fetches.
* `FailureHinted` in TestCommand (`docs/component-testing.md:88`, "On failure the
  CLI prints a replay hint") does not hold: a failing write of output or trace
  after successful steps, and a failure before the steps, print none.
* `try_load` repairs a hint (`store/cache.rs:79`) before `get` checks the policy;
  `README.md:240` says checks come before cache writes succeed. Whoever reads the
  bytes later checks them again, so nothing unchecked is returned.
* The runtime's `load` leaves the list of declared secrets empty
  (`runtime/src/loader.rs:122`), so `bind` refuses every secret as not declared.
* `load` runs the guest's `describe` with the state rights of the policy, before
  anything is bound.
* `kv_put` of a text whose bytes parse as CBOR in another form than the canonical one
  stores something else than the text; `kv_get` may then trap.
* `DESCRIBE_CACHE` leaves the manifest's world out of its key
  (`prepare.rs:125`), while a description built from WIT carries it
  (`tests/describe_tests.rs:23-24`). A long-lived process that sees an edit of
  `world` alone hands out the old one. No document says what a cached description
  names, so no run expects a violation; `PreparedOneArtifact` says how far the answer can be off.
* `flow update --force-write-schema --no-write-schema` removes an
  authored `config_schema`.
* A kill while the artifact is rewritten leaves a torn file that cargo regards as fresh.
* A failed copy, or describe artifacts skipped with a warning, leave old files
  in `dist/` beside new ones.
* `build` runs the component's `describe` without a timeout
  (`cmd/build.rs:607`); so does the runtime's `load`.
* With `--no-write-schema` the inferred `config_schema` is taken out of the
  manifest before the describe step parses it against a schema that requires
  it (`cmd/build.rs:151`): the build fails after it has rewritten the artifact.
  `docs/cli.md:61` says the schema is removed from the written manifest.
* `update_operation` may rename a reserved operation such as `qa-spec`
  (`cmd/wizard.rs:1007`), after which `src/lib.rs`, where these are fixed, and
  the manifest disagree about it; `docs/component-developer-guide.md:253-256` says that it renames a
  user operation and that the two stay aligned. `AlignedWhenDone` leaves out a reserved operation
  that was to be renamed, and no other.
* The HTTP request of the harness (`test_harness/linker.rs:235`) and the polls of WASI (`:124`)
  block in the host, where the watchdog of a step does not reach them: a step may take
  longer than its timeout, and never end.
* Wizard dialog: `0` (announced as "0 = back", `cmd/wizard.rs:1642`) does nothing
  in the advanced pass, since every question before is answered and skipped; the default of `output_dir` that is made of the name
  (`cmd/wizard.rs:2286`) is never offered; a list of operations that does not
  parse ends the program in the advanced pass (`cmd/wizard.rs:1688`), any other bad
  answer only the dialog. An answer refused after the consent finds the directory
  already removed, and files put into it after the check are not looked for.
* doctor with `--manifest` examines the artifact that manifest names and not the target it was given,
  while inspect examines the target. The manifest's hash is verified only with
  `--manifest` or a manifest as target (`cmd/doctor.rs:103-123`); `docs/cli.md:113-114`, `124` and
  `README.md:307` promise it for all. A manifest that is the target is compared with
  the embedded one only if the search near the artifact finds it again. `--permissive` and the failure for empty
  schemas (`docs/cli.md:111`, `143`) are not in `cmd/doctor.rs`. `SoundFiles` asks for what the
  code asks for, so an "ok" of the model promises no more than that.
* inspect does not take `file://` off before it looks for a manifest in a target directory
  (`cmd/inspect.rs:210`), doctor does (`cmd/doctor.rs:62-65`): for such a target inspect
  compares with the manifest beside the artifact or with none. `InspectAgrees` is about
  the rest, and about the description there.
* doctor's calls of descriptor components have no deadline (`cmd/doctor.rs:956`), and
  a trap makes every later call fail. A bound of 0, or a `format` alone, counts as a
  constraint of a schema.
* `doctor <dir>` after a usual build finds several wasm files and is
  refused. inspect passes an artifact without an embedded manifest even with `--strict`.
* `store fetch` writes the manifest before it parses it and before it copies the
  artifact (`cmd/store.rs:84`): a failure leaves the new manifest next to the old artifact. A
  fetch of a source without a manifest leaves an older manifest beside the
  new artifact and reports it as written.
* `store publish` compares neither manifest and artifact nor the manifest's hash;
  a lost answer is reported as a failure although the store may hold the package.

## 7. Not modelled

* Rendering and reading of text: the texts of templates, i18n catalogues, `info`,
  output formats, CLI parsing. No state, or one file written once.
* Manifest parsing and schema tools: pure functions of one document. What the other
  models need of them (that `config_schema` is required, that a schema of poor quality
  is refused, that a list of operations has no duplicates) is in their guards.
* `enforce_capabilities` (`src/security.rs`): a comparison of two records
  without a caller in the repository.
* `resolve`: asks the external client and lists the exports of what it gets.
* Discovery by id (`loader.rs:143`): tries versions in reverse
  lexicographic order, a property of strings. `to_pack_entry`
  (`prepare.rs:221`) reads the manifest once more and writes nothing.
* The registry client (`greentic-distributor-client`), wasmtime and cargo: external,
  present through how the code here uses them.
* Decoding of WIT and WASM: the constants `Meta` and `Accepted`, and the
  revisions of artifacts.

## 8. Plan

Done, in this order: the caches with their abstract specification; harness and test
command; build pipeline; prepare; the runtime with its abstract state store;
scaffold and wizard; doctor and inspect; the dialog; the store commands; then the
proofs of every safety property and refinement of these, the agreement of
`src/lib.rs` with the manifest last.

What is left is what section 7 names, and the hazards of PROJECT.json without a property.
