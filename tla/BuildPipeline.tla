---------------------------- MODULE BuildPipeline ----------------------------
(***************************************************************************)
(* The commands that work on one component project: build (cmd/build.rs    *)
(* with config.rs and embedded_descriptor.rs), flow update (cmd/flow.rs)   *)
(* and hash (cmd/hash.rs).  Each reads the manifest, goes through a number *)
(* of steps with the manifest in memory and writes it back at the end;     *)
(* build also lets cargo compile the source, appends the manifest to the   *)
(* wasm file as a custom section and copies the wasm to dist/.  Several    *)
(* may run at a time, the developer edits source and manifest meanwhile,   *)
(* and each may be killed at any step: a file caught in fs::write is torn. *)
(***************************************************************************)
EXTENDS Naturals, Sequences

CONSTANTS
    Workers,      \* terminals and jobs that run commands
    Options,      \* the command lines they use
    Torn,         \* a file truncated and not yet filled again
    NoFile,       \* a file never written, or not in memory
    MaxEdits,     \* bound: edits of the source, and of the manifest
    MaxCommands,  \* bound: commands started
    MaxCrashes    \* bound: commands killed

Option == [kind : {"build", "flow", "hash"}, infer : BOOLEAN, write : BOOLEAN,
           force : BOOLEAN, flow : BOOLEAN]


VARIABLES
    source,      \* revision of the source code
    draft,       \* the manifest revision its author wrote last
    compiled,    \* the source revision cargo last compiled, 0 before
    manifest,    \* component.manifest.json
    wasm,        \* the artifact the manifest names
    wasmTime,    \* its modification time: the writes so far
    dist,        \* dist/: describe artifacts and the copy of the wasm
    job,         \* per worker: its command
    settled,     \* history: the undisturbed command the project is left by
    commands, crashes

files == <<manifest, wasm, wasmTime, dist>>
edits == <<source, draft>>
bounds == <<commands, crashes>>
buildVars == <<edits, compiled, files, job, settled, bounds>>

Revisions == 1..MaxEdits + 1
(* A wasm file: the code and the manifest sections appended to it.          *)
Wasms == [code : Revisions, sections : Seq(Revisions)]
WasmFiles == Wasms \cup {Torn, NoFile}

(* The manifest: the author's own fields (by revision; they are what is     *)
(* embedded), config_schema, the revision dev_flows was generated from (0:  *)
(* none), and hashes.component_wasm, which stands for the bytes it digests. *)
Schemas == {"absent", "authored", "inferred"}
Manifests == [author : Revisions, schema : Schemas, flows : Revisions \cup {0}, hash : WasmFiles]

ASSUME BuildAssumption ==
    /\ Options \subseteq Option /\ Options # {}
    /\ {MaxEdits, MaxCommands, MaxCrashes} \subseteq Nat
    /\ Torn # NoFile
    /\ Torn \notin Wasms \cup Manifests /\ NoFile \notin Wasms \cup Manifests

Steps == {"infer", "ready", "cargo", "check", "embed", "embedding", "hash", "describe",
          "copy", "write", "writing"}
Outcomes == {"none", "ok", "failed", "killed"}
Jobs == [pc : Steps \cup {"idle"}, opts : Options,
         inHand : Manifests \cup {Torn},  \* the manifest in memory
         bytes : WasmFiles,               \* the wasm in memory
         found : Schemas,                 \* history: config_schema it read
         overlapped : BOOLEAN,            \* history: others wrote the project meanwhile
         outcome : Outcomes]              \* how the last command ended

Idle(outcome) == [pc |-> "idle", opts |-> CHOOSE o \in Options : TRUE, inHand |-> Torn,
                  bytes |-> NoFile, found |-> "absent", overlapped |-> FALSE,
                  outcome |-> outcome]

BuildInit ==
    /\ source = 1
    /\ draft = 1
    /\ compiled = 0
    /\ \E schema \in {"absent", "authored"} :
         manifest = [author |-> 1, schema |-> schema, flows |-> 0, hash |-> NoFile]
    /\ wasm = NoFile
    /\ wasmTime = 0
    /\ dist = [describe |-> 0, wasm |-> NoFile]
    /\ job = [w \in Workers |-> Idle("none")]
    /\ settled = "no"
    /\ commands = 0
    /\ crashes = 0

-----------------------------------------------------------------------------
(* What the steps share.                                                    *)

At(w, pc) == job[w].pc = pc
Move(w, j) == job' = [job EXCEPT ![w] = j]

(* A step of w that writes the manifest or the wasm under the others' feet. *)
Noticed(j) == IF j.pc = "idle" THEN j ELSE [j EXCEPT !.overlapped = TRUE]
MoveWriting(w, j) == job' = [v \in Workers |-> IF v = w THEN j ELSE Noticed(job[v])]

Fail(w, outcome) ==
    /\ Move(w, Idle(outcome))
    /\ UNCHANGED <<files, settled>>

(* The artifact is written: it is newer than anything built from it.        *)
WasmWritten(w, j, contents) ==
    /\ MoveWriting(w, j)
    /\ wasm' = contents
    /\ wasmTime' = wasmTime + 1
    /\ settled' = "no"
    /\ UNCHANGED <<manifest, dist>>

(* The config_schema made from the WIT package, a schema file or a stub, by *)
(* whichever is there; and the dev_flows made from the operation's input    *)
(* schema, which follow from what the author wrote.                         *)
Inferred(m) == [m EXCEPT !.schema = "inferred"]
Regenerated(m) == [m EXCEPT !.flows = m.author]

UsesExisting(m, o) == m.schema # "absent" /\ ~o.force
PersistSchemaWhenWriting(m, o) == o.write
PersistSchema(m, o) == o.write \/ UsesExisting(m, o)
WithSchemaIfWritten(m, o) == IF UsesExisting(m, o) \/ ~o.write THEN m ELSE Inferred(m)
WithSchema(m, o) == IF UsesExisting(m, o) THEN m ELSE Inferred(m)
Unpersisted(j) == IF PersistSchema([schema |-> j.found], j.opts) THEN j.inHand
                  ELSE [j.inHand EXCEPT !.schema = "absent"]

-----------------------------------------------------------------------------
(* Reading the manifest, and config_schema.                                 *)

(* build and flow update read the manifest and settle its config_schema: an *)
(* existing one is used unless --force-write-schema, else one is inferred   *)
(* (refused under --no-infer-config).  An inferred schema is written to the *)
(* manifest at once unless --no-write-schema.                               *)
LoadManifest(w, o) ==
    LET m == WithSchema(manifest, o)
        j == [job[w] EXCEPT !.opts = o, !.found = manifest.schema, !.inHand = m,
                            !.outcome = "none"]
    IN  \/ /\ UsesExisting(manifest, o) \/ (o.infer /\ ~o.write)
           /\ Move(w, [j EXCEPT !.pc = "ready"])
           /\ UNCHANGED <<files, settled>>
        \/ /\ ~UsesExisting(manifest, o) /\ o.infer /\ o.write
           /\ MoveWriting(w, [j EXCEPT !.pc = "infer"])
           /\ manifest' = Torn
           /\ settled' = "no"
           /\ UNCHANGED <<wasm, wasmTime, dist>>

(* hash reads the manifest as it is and goes straight to the wasm.          *)
LoadForHash(w, o) ==
    /\ wasm # NoFile
    /\ Move(w, [job[w] EXCEPT !.pc = "hash", !.opts = o, !.found = manifest.schema,
                              !.inHand = manifest, !.outcome = "none"])
    /\ UNCHANGED <<files, settled>>

(* The manifest or its schema is refused: nothing was written.              *)
Refuse(w) == Fail(w, "failed")

Begin(w, o) ==
    /\ At(w, "idle")
    /\ commands < MaxCommands
    /\ commands' = commands + 1
    /\ \/ Refuse(w)
       \/ manifest # Torn /\ o.kind # "hash" /\ LoadManifest(w, o)
       \/ manifest # Torn /\ o.kind = "hash" /\ LoadForHash(w, o)
    /\ UNCHANGED <<edits, compiled, crashes>>

WriteInferred(w) ==
    /\ At(w, "infer")
    /\ MoveWriting(w, [job[w] EXCEPT !.pc = "ready"])
    /\ manifest' = job[w].inHand
    /\ settled' = "no"
    /\ UNCHANGED <<wasm, wasmTime, dist, edits, compiled, bounds>>

(* What build and flow update check of the manifest in memory, and the      *)
(* dev_flows they regenerate in it (build: unless --no-flow).  flow update  *)
(* goes on to write it, without a schema that is not to be persisted.       *)
Checks(w) ==
    LET j == job[w]
        m == IF j.opts.kind = "flow" \/ j.opts.flow THEN Regenerated(j.inHand) ELSE j.inHand
    IN  /\ At(w, "ready")
        /\ UNCHANGED <<edits, compiled, files, settled, bounds>>
        /\ \/ Refuse(w)
           \/ /\ j.opts.kind = "build"
              /\ Move(w, [j EXCEPT !.pc = "cargo", !.inHand = m])
           \/ /\ j.opts.kind = "flow"
              /\ Move(w, [j EXCEPT !.pc = "write",
                                   !.inHand = Unpersisted([j EXCEPT !.inHand = m])])

-----------------------------------------------------------------------------
(* build: the artifact.                                                     *)

(* cargo, which is not in src/: it may fail; it compiles what changed, into *)
(* a new file; it leaves its output alone when the source did not change.   *)
Cargo(w) ==
    /\ At(w, "cargo")
    /\ UNCHANGED <<edits, bounds>>
    /\ \/ Fail(w, "failed") /\ UNCHANGED compiled
       \/ /\ compiled = source /\ wasm # NoFile
          /\ Move(w, [job[w] EXCEPT !.pc = "check"])
          /\ UNCHANGED <<files, settled, compiled>>
       \/ /\ compiled' = source
          /\ WasmWritten(w, [job[w] EXCEPT !.pc = "check"], [code |-> source, sections |-> <<>>])

(* The artifact's exported world is checked, unless the environment says    *)
(* not to.                                                                  *)
CheckWorld(w) ==
    /\ At(w, "check")
    /\ \/ Fail(w, "failed")
       \/ Move(w, [job[w] EXCEPT !.pc = "embed"]) /\ UNCHANGED <<files, settled>>
    /\ UNCHANGED <<edits, compiled, bounds>>

(* embed_and_verify_wasm reads the artifact, appends the manifest to the    *)
(* copy in memory as a custom section and opens the file for writing.       *)
Appended(contents, author) ==
    IF contents = Torn THEN Torn ELSE [contents EXCEPT !.sections = Append(@, author)]
EmbedOpen(w) ==
    /\ At(w, "embed")
    /\ WasmWritten(w, [job[w] EXCEPT !.pc = "embedding",
                                     !.bytes = Appended(wasm, job[w].inHand.author)], Torn)
    /\ UNCHANGED <<edits, compiled, bounds>>

(* It fills the file and then reads the section back from its bytes, where  *)
(* the first of that name is found: it must be the one just appended.       *)
EmbedVerifies(j) == j.bytes # Torn /\ j.bytes.sections[1] = j.inHand.author
EmbedWrite(w) ==
    /\ At(w, "embedding")
    /\ WasmWritten(w, IF EmbedVerifies(job[w]) THEN [job[w] EXCEPT !.pc = "hash", !.bytes = NoFile]
                      ELSE Idle("failed"), job[w].bytes)
    /\ UNCHANGED <<edits, compiled, bounds>>

(* A schema that is not to be persisted leaves the manifest in memory, and  *)
(* the artifact's digest goes into it.  hash does the second part.          *)
HashedBeforeEmbedding(j, contents) ==
    IF contents = Torn \/ j.opts.kind = "hash" THEN contents
    ELSE [contents EXCEPT !.sections = SubSeq(@, 1, Len(@) - 1)]
Hashed(j, contents) == contents
HashWasm(w) ==
    LET j == job[w]
        kept == IF j.opts.kind = "build" THEN Unpersisted(j) ELSE j.inHand
    IN  /\ At(w, "hash")
        /\ Move(w, [j EXCEPT !.pc = IF j.opts.kind = "build" THEN "describe" ELSE "write",
                             !.inHand = [kept EXCEPT !.hash = Hashed(j, wasm)]])
        /\ UNCHANGED <<files, settled, edits, compiled, bounds>>

(* The manifest in memory is parsed again: one whose unpersisted schema was *)
(* just taken out is refused, so --no-write-schema does not get past this.  *)
(* Then the artifact is asked to describe itself: that may fail, or be      *)
(* skipped with a warning, which leaves the old dist/; else the answer is   *)
(* written there.                                                           *)
Describe(w) ==
    /\ At(w, "describe")
    /\ UNCHANGED <<edits, compiled, bounds, settled, manifest, wasm, wasmTime>>
    /\ \/ Move(w, Idle("failed")) /\ UNCHANGED dist
       \/ /\ job[w].inHand.schema # "absent"
          /\ Move(w, [job[w] EXCEPT !.pc = "write"])
          /\ UNCHANGED dist
       \/ /\ job[w].inHand.schema # "absent" /\ wasm # Torn
          /\ Move(w, [job[w] EXCEPT !.pc = "copy"])
          /\ dist' = [dist EXCEPT !.describe = wasm.code]

(* The copy of the artifact for dist/; its failure is not looked at.        *)
CopyWasm(w) ==
    /\ At(w, "copy")
    /\ Move(w, [job[w] EXCEPT !.pc = "write"])
    /\ dist' \in {dist, [dist EXCEPT !.wasm = wasm]}
    /\ UNCHANGED <<edits, compiled, bounds, settled, manifest, wasm, wasmTime>>

-----------------------------------------------------------------------------
(* Writing the manifest back, and what happens around the commands.         *)

WriteOpen(w) ==
    /\ At(w, "write")
    /\ MoveWriting(w, [job[w] EXCEPT !.pc = "writing"])
    /\ manifest' = Torn
    /\ settled' = IF job[w].opts.kind = "flow" /\ ~job[w].overlapped THEN settled ELSE "no"
    /\ UNCHANGED <<wasm, wasmTime, dist, edits, compiled, bounds>>

WriteManifest(w) ==
    /\ At(w, "writing")
    /\ MoveWriting(w, Idle("ok"))
    /\ manifest' = job[w].inHand
    /\ settled' = IF job[w].overlapped THEN "no"
                  ELSE IF job[w].opts.kind = "flow" THEN settled ELSE job[w].opts.kind
    /\ UNCHANGED <<wasm, wasmTime, dist, edits, compiled, bounds>>

(* The command is killed; a file it had open for writing stays torn.        *)
Kill(w) ==
    /\ ~At(w, "idle")
    /\ crashes < MaxCrashes
    /\ crashes' = crashes + 1
    /\ Fail(w, "killed")
    /\ UNCHANGED <<edits, compiled, commands>>

EditSource ==
    /\ source < MaxEdits + 1
    /\ source' = source + 1
    /\ UNCHANGED <<draft, compiled, files, job, settled, bounds>>

(* The author edits the manifest (and repairs a torn one): a field that is  *)
(* embedded changes, a config_schema may be written by hand or taken out.   *)
EditManifest ==
    /\ draft < MaxEdits + 1
    /\ draft' = draft + 1
    /\ job' = [v \in Workers |-> Noticed(job[v])]
    /\ \E schema \in {"absent", "authored"} :
         manifest' = IF manifest = Torn
                     THEN [author |-> draft', schema |-> schema, flows |-> 0, hash |-> NoFile]
                     ELSE [manifest EXCEPT !.author = draft',
                                           !.schema = IF @ = "inferred" THEN @ ELSE schema]
    /\ settled' = "no"
    /\ UNCHANGED <<source, compiled, wasm, wasmTime, dist, bounds>>

CommandStep(w) ==
    \/ \E o \in Options : Begin(w, o)
    \/ WriteInferred(w) \/ Checks(w)
    \/ Cargo(w) \/ CheckWorld(w) \/ EmbedOpen(w) \/ EmbedWrite(w) \/ HashWasm(w)
    \/ Describe(w) \/ CopyWasm(w) \/ WriteOpen(w) \/ WriteManifest(w)

BuildNext ==
    \/ \E w \in Workers : CommandStep(w) \/ Kill(w)
    \/ EditSource \/ EditManifest

BuildSpec == BuildInit /\ [][BuildNext]_buildVars

-----------------------------------------------------------------------------
(* Properties.                                                              *)

(* Types; and a command that is past reading its manifest holds one with a  *)
(* config_schema until it takes an unpersisted one out.                     *)
HoldsSchema == {"infer", "ready", "cargo", "check", "embed", "embedding"}
BuildTypeOK ==
    /\ {source, draft} \subseteq Revisions
    /\ compiled \in Revisions \cup {0}
    /\ manifest \in Manifests \cup {Torn}
    /\ wasm \in WasmFiles
    /\ wasmTime \in Nat
    /\ dist \in [describe : Revisions \cup {0}, wasm : WasmFiles]
    /\ job \in [Workers -> Jobs]
    /\ \A w \in Workers :
         /\ job[w].pc # "idle" => job[w].inHand # Torn
         /\ job[w].pc \in HoldsSchema => job[w].inHand.schema # "absent"
    /\ settled \in {"no", "hash", "build"}
    /\ commands \in 0..MaxCommands
    /\ crashes \in 0..MaxCrashes

(* Once build or hash has finished and nothing else wrote the project       *)
(* meanwhile, the artifact passes the manifest's hash check, and after      *)
(* build the manifest section every reader finds in it, the first, is the   *)
(* manifest's own (build.rs hashes after embedding, and embedding is        *)
(* verified), however many commands failed, were killed or ran at the same  *)
(* time before; the edits and commands that follow are what may end it.     *)
ArtifactVerifies ==
    settled # "no" /\ manifest # Torn =>
        /\ manifest.hash = wasm
        /\ settled = "build" /\ wasm # Torn => wasm.sections[1] = manifest.author

(* The inductive invariant.  What is in the hands of a command in progress: *)
(* a manifest with the config_schema its options ask for at this point, and *)
(* the artifact it is about to write.                                       *)
SchemaInHand(j) ==
    IF j.opts.kind = "hash" \/ UsesExisting([schema |-> j.found], j.opts) THEN j.found
    ELSE IF j.opts.write \/ j.pc \notin {"describe", "copy", "write", "writing"} THEN "inferred"
    ELSE "absent"
Held(j) ==
    j.pc # "idle" =>
        /\ j.outcome = "none"
        /\ j.pc \in {"cargo", "check", "embed", "embedding", "describe", "copy"} =>
              j.opts.kind = "build"
        /\ j.pc = "hash" => j.opts.kind # "flow"
        /\ j.pc = "embedding" => j.bytes # NoFile
        /\ j.inHand.schema = SchemaInHand(j)

(* What nobody else has touched fits together: the manifest in hand names   *)
(* the artifact once it was hashed, and build has embedded its author's     *)
(* fields; flow update leaves both as it found them.                        *)
Matches(m, artifact, left) ==
    /\ m.hash = artifact
    /\ left = "build" /\ artifact # Torn => artifact.sections[1] = m.author
Undisturbed(j, artifact, left) ==
    j.pc # "idle" /\ ~j.overlapped =>
        /\ j.opts.kind = "flow" /\ left # "no" => Matches(j.inHand, artifact, left)
        /\ j.opts.kind # "flow" /\ j.pc \in {"describe", "copy", "write", "writing"} =>
              j.inHand.hash = artifact
        /\ j.opts.kind = "build" /\ j.pc \in {"hash", "describe", "copy", "write", "writing"} =>
              artifact # Torn /\ artifact.sections[1] = j.inHand.author
ArtifactKnown ==
    /\ wasm = NoFile <=> wasmTime = 0
    /\ \A w \in Workers :
         job[w].pc \in {"check", "embed", "embedding", "hash", "describe", "copy"} => wasm # NoFile
BuildIInv ==
    /\ BuildTypeOK
    /\ \A w \in Workers : Held(job[w]) /\ Undisturbed(job[w], wasm, settled)
    /\ ArtifactVerifies
    /\ ArtifactKnown

(* config_schema in the manifest a command leaves, if nothing else wrote    *)
(* the project meanwhile: one that was there is kept unless                 *)
(* --force-write-schema was given, else the inferred one is there, and      *)
(* under --no-write-schema none is added (config.rs persist_schema, which   *)
(* build and flow update each apply in their own place).                    *)
SchemaWritten(w) ==
    At(w, "writing") /\ job'[w].outcome = "ok" /\ ~job[w].overlapped =>
        LET o == job[w].opts
            found == job[w].found
        IN  manifest'.schema =
              IF o.kind = "hash" \/ (found # "absent" /\ ~o.force) THEN found
              ELSE IF o.write THEN "inferred" ELSE "absent"
SchemaAsAsked == [][\A w \in Workers : SchemaWritten(w)]_buildVars

(* docs/component-developer-guide.md:83: build "canonicalizes that manifest *)
(* and embeds the projection into the Wasm".  So once build has written the *)
(* artifact, what a reader finds embedded is the manifest it was given.     *)
EmbeddedMetadataCurrent ==
    [][\A w \in Workers :
         At(w, "embedding") /\ ~At(w, "embedding")' /\ wasm' \notin {Torn, NoFile} =>
            wasm'.sections[1] = job[w].inHand.author]_buildVars
=============================================================================
