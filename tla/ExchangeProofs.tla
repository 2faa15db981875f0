--------------------------- MODULE ExchangeProofs ---------------------------
(* Proofs about BuildPipeline, for every number of workers, every set of    *)
(* command lines and every bound on edits, commands and crashes; and about  *)
(* Exchange: publish and fetch, with all these workers rewriting the        *)
(* project meanwhile.                                                       *)
EXTENDS Exchange, TLAPS

USE BuildAssumption

(* Reading a record field by field.                                         *)
LEMMA JobFields ==
    ASSUME NEW j \in Jobs
    PROVE  /\ j.pc \in Steps \cup {"idle"} /\ j.opts \in Option /\ j.opts \in Options
           /\ j.inHand \in Manifests \cup {Torn}
           /\ j.bytes \in WasmFiles /\ j.found \in Schemas
           /\ j.overlapped \in BOOLEAN /\ j.outcome \in Outcomes
  BY DEF Jobs

(* Contents of files are told apart.                                        *)
LEMMA Sentinels ==
    /\ Torn # NoFile
    /\ \A x \in Wasms : x # Torn /\ x # NoFile
    /\ \A m \in Manifests : m # Torn /\ m # NoFile
  OBVIOUS

(* All that the inductive invariant says of one worker's command, given the *)
(* artifact and how the project was left.                                   *)
JobFits(j, artifact, left) ==
    /\ j \in Jobs
    /\ j.pc # "idle" => j.inHand # Torn
    /\ j.pc \in HoldsSchema => j.inHand.schema # "absent"
    /\ Held(j)
    /\ j.pc \in {"check", "embed", "embedding", "hash", "describe", "copy"} => artifact # NoFile
    /\ Undisturbed(j, artifact, left)

(* A worker without a command, and one whose command was disturbed, fit     *)
(* every state of the project.                                              *)
LEMMA IdleFits ==
    ASSUME NEW outcome \in Outcomes, NEW artifact, NEW left
    PROVE  JobFits(Idle(outcome), artifact, left)
<1>1. (CHOOSE o \in Options : TRUE) \in Options
  OBVIOUS
<1>2. Idle(outcome) \in Jobs /\ Idle(outcome).pc = "idle"
  BY <1>1 DEF Idle, Jobs, WasmFiles, Schemas
<1>3. QED
  BY <1>2 DEF JobFits, Held, HoldsSchema, Undisturbed

LEMMA NoticedFits ==
    ASSUME NEW j, NEW artifact, NEW left, JobFits(j, artifact, left),
           NEW newArtifact, NEW newLeft, artifact = NoFile \/ newArtifact # NoFile
    PROVE  JobFits(Noticed(j), newArtifact, newLeft)
<1> DEFINE k == Noticed(j)
<1>1. j \in Jobs
  BY DEF JobFits
<1>2. /\ k \in Jobs /\ k.pc = j.pc /\ k.opts = j.opts /\ k.inHand = j.inHand
      /\ k.bytes = j.bytes /\ k.found = j.found /\ k.outcome = j.outcome
      /\ j.pc # "idle" => k.overlapped
  BY <1>1 DEF Noticed, Jobs
<1>3. Undisturbed(k, newArtifact, newLeft)
  BY <1>2 DEF Undisturbed
<1>4. Held(k)
  BY <1>2 DEF JobFits, Held, SchemaInHand
<1>5. JobFits(k, newArtifact, newLeft)
  <2> HIDE DEF k
  <2>1. QED
    BY <1>2, <1>3, <1>4 DEF JobFits
<1>6. QED
  BY <1>5

-----------------------------------------------------------------------------
(* The rest of the state: types, and a manifest that vouches for the        *)
(* artifact as the last undisturbed command left it.                        *)
ProjectOk ==
    /\ {source, draft} \subseteq Revisions
    /\ compiled \in Revisions \cup {0}
    /\ manifest \in Manifests \cup {Torn}
    /\ wasm \in WasmFiles /\ wasmTime \in Nat /\ (wasm = NoFile <=> wasmTime = 0)
    /\ dist \in [describe : Revisions \cup {0}, wasm : WasmFiles]
    /\ settled \in {"no", "hash", "build"}
    /\ commands \in 0..MaxCommands
    /\ crashes \in 0..MaxCrashes
    /\ ArtifactVerifies

LEMMA Parts ==
    ASSUME BuildIInv
    PROVE  /\ ProjectOk
           /\ job \in [Workers -> Jobs]
           /\ \A w \in Workers : JobFits(job[w], wasm, settled)
<1>1. ProjectOk /\ job \in [Workers -> Jobs]
  BY DEF BuildIInv, BuildTypeOK, ArtifactKnown, ProjectOk
<1>2. ASSUME NEW w \in Workers
      PROVE  JobFits(job[w], wasm, settled)
  BY <1>1 DEF BuildIInv, BuildTypeOK, ArtifactKnown, JobFits
<1>3. QED
  BY <1>1, <1>2

LEMMA Whole ==
    ASSUME ProjectOk, job \in [Workers -> Jobs],
           \A w \in Workers : JobFits(job[w], wasm, settled)
    PROVE  BuildIInv
<1>1. BuildTypeOK
  BY DEF BuildTypeOK, ProjectOk, JobFits
<1>2. ArtifactKnown
  BY DEF ArtifactKnown, ProjectOk, JobFits
<1>3. QED
  BY <1>1, <1>2 DEF BuildIInv, ProjectOk, JobFits

LEMMA WholeNext ==
    ASSUME ProjectOk', job' \in [Workers -> Jobs],
           \A w \in Workers : JobFits(job'[w], wasm', settled')
    PROVE  BuildIInv'
<1>1. BuildTypeOK'
  BY DEF BuildTypeOK, ProjectOk, JobFits
<1>2. ArtifactKnown'
  BY DEF ArtifactKnown, ProjectOk, JobFits
<1>3. \A w \in Workers : Held(job'[w]) /\ Undisturbed(job'[w], wasm', settled')
  BY DEF JobFits
<1>4. ArtifactVerifies'
  BY DEF ProjectOk
<1>5. QED
  BY <1>1, <1>2, <1>3, <1>4 DEF BuildIInv

(* A step of w that leaves the manifest and the artifact alone.             *)
LEMMA MoveKeeps ==
    ASSUME BuildIInv, NEW w \in Workers, NEW j, Move(w, j),
           UNCHANGED <<wasm, settled>>, ProjectOk', JobFits(j, wasm, settled)
    PROVE  BuildIInv'
<1>1. job \in [Workers -> Jobs] /\ j \in Jobs
  BY Parts DEF JobFits
<1>2. /\ job' \in [Workers -> Jobs] /\ job'[w] = j
      /\ \A v \in Workers : v # w => job'[v] = job[v]
  BY <1>1 DEF Move
<1>3. QED
  BY <1>2, Parts, WholeNext

(* A step of w that writes one of them: the others have been disturbed.     *)
LEMMA MoveWritingKeeps ==
    ASSUME BuildIInv, NEW w \in Workers, NEW j, MoveWriting(w, j), ProjectOk',
           wasm = NoFile \/ wasm' # NoFile, JobFits(j, wasm', settled')
    PROVE  BuildIInv'
<1>1. ASSUME NEW v \in Workers, v # w
      PROVE  JobFits(Noticed(job[v]), wasm', settled')
  BY <1>1, Parts, NoticedFits
<1>2. \A v \in Workers : job'[v] = IF v = w THEN j ELSE Noticed(job[v])
  BY DEF MoveWriting
<1>3. \A v \in Workers : JobFits(job'[v], wasm', settled')
  BY <1>1, <1>2
<1>4. job' \in [Workers -> Jobs]
  BY <1>3 DEF MoveWriting, JobFits
<1>5. QED
  BY <1>3, <1>4, WholeNext
-----------------------------------------------------------------------------
(* Taking a config_schema that is not to be persisted out of the manifest.  *)
LEMMA UnpersistedSchema ==
    ASSUME NEW j \in Jobs, j.inHand \in Manifests
    PROVE  /\ Unpersisted(j) \in Manifests
           /\ Unpersisted(j).author = j.inHand.author /\ Unpersisted(j).hash = j.inHand.hash
           /\ Unpersisted(j).flows = j.inHand.flows
           /\ PersistSchema([schema |-> j.found], j.opts) => Unpersisted(j) = j.inHand
           /\ ~PersistSchema([schema |-> j.found], j.opts) =>
                 Unpersisted(j).schema = "absent"
  BY DEF Unpersisted, Manifests, Schemas

(* Embedding appends a section and keeps what is there.                     *)
LEMMA AppendedSections ==
    ASSUME NEW contents \in WasmFiles, contents # NoFile, NEW author \in Revisions
    PROVE  /\ Appended(contents, author) \in WasmFiles
           /\ Appended(contents, author) # NoFile
<1>1. CASE contents = Torn
  BY <1>1 DEF Appended, WasmFiles
<1>2. CASE contents \in Wasms
  <2>1. Append(contents.sections, author) \in Seq(Revisions)
    BY <1>2 DEF Wasms
  <2>2. Appended(contents, author) \in Wasms
    BY <1>2, <2>1 DEF Appended, Wasms
  <2>3. QED
    BY <2>2 DEF WasmFiles
<1>3. QED
  BY <1>1, <1>2 DEF WasmFiles

(* A command fails or is killed.                                            *)
LEMMA FailKeeps ==
    ASSUME BuildIInv, NEW w \in Workers, NEW outcome \in Outcomes, Fail(w, outcome), ProjectOk'
    PROVE  BuildIInv'
  BY MoveKeeps, IdleFits DEF Fail, files

(* ProjectOk, of a step that leaves manifest, artifact and the history as   *)
(* they are.                                                                *)
LEMMA FilesKept ==
    ASSUME BuildIInv, UNCHANGED <<manifest, wasm, wasmTime, settled>>,
           {source, draft}' \subseteq Revisions, compiled' \in Revisions \cup {0},
           dist' \in [describe : Revisions \cup {0}, wasm : WasmFiles],
           commands' \in 0..MaxCommands, crashes' \in 0..MaxCrashes
    PROVE  ProjectOk'
  BY Parts DEF ProjectOk, ArtifactVerifies

LEMMA ProjectTypes ==
    ASSUME BuildIInv
    PROVE  /\ source \in Revisions /\ draft \in Revisions
           /\ compiled \in Revisions \cup {0}
           /\ manifest \in Manifests \cup {Torn}
           /\ wasm \in WasmFiles /\ wasmTime \in Nat /\ (wasm = NoFile <=> wasmTime = 0)
           /\ dist \in [describe : Revisions \cup {0}, wasm : WasmFiles]
           /\ settled \in {"no", "hash", "build"}
           /\ commands \in 0..MaxCommands /\ crashes \in 0..MaxCrashes
  BY Parts DEF ProjectOk

-----------------------------------------------------------------------------
LEMMA BuildInitIInv == BuildInit => BuildIInv
<1> SUFFICES ASSUME BuildInit PROVE BuildIInv
  OBVIOUS
<1> USE DEF BuildInit
<1>1. 1 \in Revisions /\ 0 \in 0..MaxCommands /\ 0 \in 0..MaxCrashes
  BY DEF Revisions
<1>2. ProjectOk
  BY <1>1 DEF ProjectOk, ArtifactVerifies, Manifests, Schemas, WasmFiles
<1>3. "none" \in Outcomes
  BY DEF Outcomes
<1>4. \A w \in Workers : JobFits(job[w], wasm, settled)
  BY <1>3, IdleFits
<1>5. job \in [Workers -> Jobs]
  BY <1>3, IdleFits DEF JobFits
<1>6. QED
  BY <1>2, <1>4, <1>5, Whole

LEMMA BeginKeeps ==
    ASSUME BuildIInv, NEW w \in Workers, NEW o \in Options, Begin(w, o)
    PROVE  BuildIInv'
<1> USE DEF Begin, At
<1>1. /\ UNCHANGED <<source, draft, compiled, crashes>>
      /\ commands' \in 0..MaxCommands
  BY ProjectTypes DEF edits
<1>2. CASE Refuse(w)
  <2>1. ProjectOk'
    BY <1>1, <1>2, ProjectTypes, FilesKept DEF Refuse, Fail, files
  <2>2. QED
    BY <1>2, <2>1, FailKeeps DEF Refuse, Outcomes
<1> SUFFICES ASSUME manifest # Torn,
                    \/ o.kind # "hash" /\ LoadManifest(w, o)
                    \/ o.kind = "hash" /\ LoadForHash(w, o)
             PROVE  BuildIInv'
  BY <1>2
<1>3. /\ manifest \in Manifests /\ manifest.schema \in Schemas /\ o \in Option
      /\ job[w] \in Jobs
  BY ProjectTypes, Parts DEF Manifests, JobFits
<1>4. CASE o.kind = "hash" /\ LoadForHash(w, o)
  <2> DEFINE j == [job[w] EXCEPT !.pc = "hash", !.opts = o, !.found = manifest.schema,
                                 !.inHand = manifest, !.outcome = "none"]
  <2>1. Move(w, j) /\ wasm # NoFile /\ UNCHANGED <<files, settled>>
    BY <1>4 DEF LoadForHash
  <2>2. /\ j \in Jobs /\ j.pc = "hash" /\ j.opts = o /\ j.found = manifest.schema
        /\ j.inHand = manifest /\ j.outcome = "none"
    BY <1>3 DEF Jobs, Steps, Outcomes
  <2> HIDE DEF j
  <2>3. JobFits(j, wasm, settled)
    BY <1>3, <1>4, <2>1, <2>2 DEF JobFits, HoldsSchema, Held, SchemaInHand, Undisturbed
  <2>4. ProjectOk'
    BY <1>1, <2>1, ProjectTypes, FilesKept DEF files
  <2>5. QED
    BY <2>1, <2>3, <2>4, MoveKeeps DEF files
<1>5. CASE o.kind # "hash" /\ LoadManifest(w, o)
  <2> DEFINE m == WithSchema(manifest, o)
             j == [job[w] EXCEPT !.opts = o, !.found = manifest.schema, !.inHand = m,
                                 !.outcome = "none"]
  <2>1. /\ m \in Manifests /\ m.author = manifest.author /\ m.hash = manifest.hash
        /\ m.schema = IF UsesExisting(manifest, o) THEN manifest.schema ELSE "inferred"
        /\ UsesExisting(manifest, o) <=> UsesExisting([schema |-> manifest.schema], o)
        /\ UsesExisting(manifest, o) => manifest.schema # "absent"
    BY <1>3 DEF WithSchema, Inferred, Manifests, Schemas, UsesExisting
  <2> DEFINE k(pc) == [j EXCEPT !.pc = pc]
  <2>2. ASSUME NEW pc \in {"infer", "ready"}
        PROVE  /\ k(pc) \in Jobs /\ k(pc).pc = pc /\ k(pc).opts = o
               /\ k(pc).found = manifest.schema /\ k(pc).inHand = m /\ k(pc).outcome = "none"
    BY <1>3, <2>1 DEF Jobs, Steps, Outcomes
  <2>3. \/ Move(w, k("ready")) /\ UNCHANGED <<files, settled>>
        \/ /\ MoveWriting(w, k("infer"))
           /\ manifest' = Torn /\ settled' = "no" /\ UNCHANGED <<wasm, wasmTime, dist>>
    BY <1>5 DEF LoadManifest
  <2> HIDE DEF m, k
  <2>4. ASSUME NEW left \in {"no", settled}
        PROVE  \A pc \in {"infer", "ready"} : JobFits(k(pc), wasm, left)
    <3> TAKE pc \in {"infer", "ready"}
    <3> DEFINE h == k(pc)
    <3>1. /\ h \in Jobs /\ h.pc = pc /\ h.opts = o /\ h.found = manifest.schema
          /\ h.inHand = m /\ h.outcome = "none"
      BY <2>2
    <3> HIDE DEF h
    <3>2. Held(h) /\ h.inHand # Torn /\ h.inHand.schema # "absent"
      BY <1>5, <2>1, <3>1 DEF Held, SchemaInHand
    <3>3. Undisturbed(h, wasm, left)
      <4>1. settled # "no" => Matches(m, wasm, settled)
        BY <2>1, Parts DEF ProjectOk, ArtifactVerifies, Matches
      <4>2. QED
        BY <1>5, <3>1, <4>1 DEF Undisturbed
    <3>4. JobFits(h, wasm, left)
      BY <3>1, <3>2, <3>3 DEF JobFits
    <3>5. QED
      BY <3>4 DEF h
  <2>5. CASE Move(w, k("ready")) /\ UNCHANGED <<files, settled>>
    <3>1. ProjectOk'
      BY <1>1, <2>5, ProjectTypes, FilesKept DEF files
    <3>2. QED
      BY <2>4, <2>5, <3>1, MoveKeeps DEF files
  <2>6. CASE /\ MoveWriting(w, k("infer"))
             /\ manifest' = Torn /\ settled' = "no" /\ UNCHANGED <<wasm, wasmTime, dist>>
    <3>1. ProjectOk'
      BY <1>1, <2>6, ProjectTypes DEF ProjectOk, ArtifactVerifies
    <3>2. QED
      BY <2>4, <2>6, <3>1, MoveWritingKeeps
  <2>7. QED
    BY <2>3, <2>5, <2>6
<1>6. QED
  BY <1>4, <1>5

(* What a command in progress has in hand.                                  *)
LEMMA InProgress ==
    ASSUME BuildIInv, NEW w \in Workers, ~At(w, "idle")
    PROVE  /\ job[w] \in Jobs /\ job[w].inHand \in Manifests /\ job[w].opts \in Option
           /\ job[w].inHand.author \in Revisions
           /\ job[w].outcome = "none" /\ JobFits(job[w], wasm, settled)
  BY Parts DEF At, JobFits, Held, Jobs, Manifests

(* A step that only moves on to the next place, within one part of the      *)
(* command, needs no other argument than this.                              *)
LEMMA WriteInferredKeeps ==
    ASSUME BuildIInv, NEW w \in Workers, WriteInferred(w)
    PROVE  BuildIInv'
<1> USE DEF WriteInferred, At
<1> DEFINE j == [job[w] EXCEPT !.pc = "ready"]
<1>1. /\ job[w] \in Jobs /\ job[w].inHand \in Manifests /\ JobFits(job[w], wasm, settled)
  BY InProgress
<1>2. /\ j \in Jobs /\ j.pc = "ready" /\ j.opts = job[w].opts /\ j.found = job[w].found
      /\ j.inHand = job[w].inHand /\ j.outcome = job[w].outcome
  BY <1>1 DEF Jobs, Steps
<1>3. MoveWriting(w, j) /\ manifest' = job[w].inHand /\ settled' = "no"
      /\ UNCHANGED <<wasm, wasmTime, dist, source, draft, compiled, commands, crashes>>
  BY DEF edits, bounds
<1> HIDE DEF j
<1>4. JobFits(j, wasm, "no")
  BY <1>1, <1>2 DEF JobFits, HoldsSchema, Held, SchemaInHand, Undisturbed
<1>5. ProjectOk'
  BY <1>1, <1>3, ProjectTypes DEF ProjectOk, ArtifactVerifies
<1>6. QED
  BY <1>3, <1>4, <1>5, MoveWritingKeeps

LEMMA ChecksKeeps ==
    ASSUME BuildIInv, NEW w \in Workers, Checks(w)
    PROVE  BuildIInv'
<1> DEFINE j == job[w]
           m == IF j.opts.kind = "flow" \/ j.opts.flow
                THEN Regenerated(j.inHand) ELSE j.inHand
           kb == [j EXCEPT !.pc = "cargo", !.inHand = m]
           jm == [j EXCEPT !.inHand = m]
           kf == [j EXCEPT !.pc = "write", !.inHand = Unpersisted(jm)]
<1>1. /\ j.pc = "ready" /\ UNCHANGED <<edits, compiled, files, settled, bounds>>
      /\ \/ Refuse(w)
         \/ j.opts.kind = "build" /\ Move(w, kb)
         \/ j.opts.kind = "flow" /\ Move(w, kf)
  BY DEF Checks, At
<1>2. /\ j \in Jobs /\ j.inHand \in Manifests /\ j.opts \in Option /\ JobFits(j, wasm, settled)
      /\ j.inHand.author \in Revisions
  BY <1>1, InProgress DEF At
<1>3. /\ m \in Manifests /\ m.author = j.inHand.author /\ m.hash = j.inHand.hash
      /\ m.schema = j.inHand.schema
  BY <1>2 DEF Manifests, Regenerated
<1>4. ProjectOk'
  BY <1>1, ProjectTypes, FilesKept DEF edits, files, bounds
<1>5. CASE Refuse(w)
  BY <1>4, <1>5, FailKeeps DEF Refuse, Outcomes
<1>6. CASE j.opts.kind = "build" /\ Move(w, kb)
  <2>1. /\ kb \in Jobs /\ kb.pc = "cargo" /\ kb.opts = j.opts /\ kb.found = j.found
        /\ kb.inHand = m /\ kb.outcome = j.outcome /\ kb.overlapped = j.overlapped
    BY <1>2, <1>3 DEF Jobs, Steps
  <2> HIDE DEF kb, m
  <2>2. JobFits(kb, wasm, settled)
    BY <1>1, <1>2, <1>3, <1>6, <2>1, Sentinels DEF JobFits, HoldsSchema, Held, SchemaInHand, Undisturbed
  <2>3. QED
    BY <1>1, <1>4, <1>6, <2>2, MoveKeeps DEF files
<1>7. CASE j.opts.kind = "flow" /\ Move(w, kf)
  <2>1. /\ jm \in Jobs /\ jm.inHand = m /\ jm.found = j.found /\ jm.opts = j.opts
    BY <1>2, <1>3 DEF Jobs
  <2> DEFINE u == Unpersisted(jm)
  <2>2. /\ u \in Manifests /\ u.author = m.author /\ u.hash = m.hash
        /\ PersistSchema([schema |-> j.found], j.opts) => u = m
        /\ ~PersistSchema([schema |-> j.found], j.opts) => u.schema = "absent"
    <3> HIDE DEF m, jm
    <3>1. QED
      BY <1>3, <2>1, UnpersistedSchema
  <2>3. kf = [j EXCEPT !.pc = "write", !.inHand = u]
    OBVIOUS
  <2> HIDE DEF u, m, jm, kf
  <2>4. /\ kf \in Jobs /\ kf.pc = "write" /\ kf.opts = j.opts /\ kf.found = j.found
        /\ kf.inHand = u /\ kf.outcome = j.outcome /\ kf.overlapped = j.overlapped
    BY <1>2, <2>2, <2>3 DEF Jobs, Steps
  <2>5. Held(kf)
    BY <1>1, <1>2, <1>3, <1>7, <2>2, <2>4
       DEF JobFits, HoldsSchema, Held, SchemaInHand, PersistSchema, UsesExisting
  <2>6. Undisturbed(kf, wasm, settled)
    BY <1>1, <1>2, <1>3, <1>7, <2>2, <2>4 DEF JobFits, Undisturbed, Matches
  <2>7. JobFits(kf, wasm, settled)
    BY <2>2, <2>4, <2>5, <2>6, Sentinels DEF JobFits, HoldsSchema
  <2>8. QED
    BY <1>1, <1>4, <1>7, <2>7, MoveKeeps DEF files
<1>8. QED
  BY <1>1, <1>5, <1>6, <1>7

(* The artifact is written: nothing is known of the project but types.      *)
LEMMA ArtifactWritten ==
    ASSUME BuildIInv, NEW w \in Workers, NEW j, NEW contents \in WasmFiles, contents # NoFile,
           WasmWritten(w, j, contents), JobFits(j, contents, "no"),
           compiled' \in Revisions \cup {0}, UNCHANGED <<edits, bounds>>
    PROVE  BuildIInv'
<1>1. ProjectOk'
  BY ProjectTypes DEF WasmWritten, ProjectOk, ArtifactVerifies, edits, bounds
<1>2. QED
  BY <1>1, MoveWritingKeeps DEF WasmWritten

LEMMA CargoKeeps ==
    ASSUME BuildIInv, NEW w \in Workers, Cargo(w)
    PROVE  BuildIInv'
<1> USE DEF Cargo, At
<1> DEFINE j == [job[w] EXCEPT !.pc = "check"]
<1>1. /\ job[w] \in Jobs /\ job[w].inHand \in Manifests /\ JobFits(job[w], wasm, settled)
  BY InProgress
<1>2. /\ j \in Jobs /\ j.pc = "check" /\ j.opts = job[w].opts /\ j.found = job[w].found
      /\ j.inHand = job[w].inHand /\ j.outcome = job[w].outcome
      /\ j.overlapped = job[w].overlapped
  BY <1>1 DEF Jobs, Steps
<1>3. CASE Fail(w, "failed") /\ UNCHANGED compiled
  <2>1. ProjectOk'
    BY <1>3, ProjectTypes, FilesKept DEF Fail, edits, files, bounds
  <2>2. QED
    BY <1>3, <2>1, FailKeeps DEF Outcomes
<1>4. CASE wasm # NoFile /\ Move(w, j) /\ UNCHANGED <<files, settled, compiled>>
  <2> HIDE DEF j
  <2>1. JobFits(j, wasm, settled)
    BY <1>1, <1>2, <1>4 DEF JobFits, HoldsSchema, Held, SchemaInHand, Undisturbed
  <2>2. ProjectOk'
    BY <1>4, ProjectTypes, FilesKept DEF edits, files, bounds
  <2>3. QED
    BY <1>4, <2>1, <2>2, MoveKeeps DEF files
<1>5. CASE compiled' = source /\ WasmWritten(w, j, [code |-> source, sections |-> <<>>])
  <2> DEFINE fresh == [code |-> source, sections |-> <<>>]
  <2>1. fresh \in Wasms
    BY ProjectTypes DEF Wasms
  <2> HIDE DEF j, fresh
  <2>2. fresh \in WasmFiles /\ fresh # NoFile
    BY <2>1, Sentinels DEF WasmFiles
  <2>3. JobFits(j, fresh, "no")
    BY <1>1, <1>2, <2>2 DEF JobFits, HoldsSchema, Held, SchemaInHand, Undisturbed
  <2>4. WasmWritten(w, j, fresh)
    BY <1>5 DEF fresh
  <2>5. QED
    BY <1>5, <2>2, <2>3, <2>4, ProjectTypes, ArtifactWritten
<1>6. QED
  BY <1>3, <1>4, <1>5

LEMMA CheckWorldKeeps ==
    ASSUME BuildIInv, NEW w \in Workers, CheckWorld(w)
    PROVE  BuildIInv'
<1> USE DEF CheckWorld, At
<1> DEFINE j == [job[w] EXCEPT !.pc = "embed"]
<1>1. /\ job[w] \in Jobs /\ JobFits(job[w], wasm, settled)
  BY InProgress
<1>2. /\ j \in Jobs /\ j.pc = "embed" /\ j.opts = job[w].opts /\ j.found = job[w].found
      /\ j.inHand = job[w].inHand /\ j.outcome = job[w].outcome
  BY <1>1 DEF Jobs, Steps
<1>3. ProjectOk'
  BY ProjectTypes, FilesKept DEF Fail, edits, files, bounds
<1> HIDE DEF j
<1>4. JobFits(j, wasm, settled)
  BY <1>1, <1>2 DEF JobFits, HoldsSchema, Held, SchemaInHand, Undisturbed
<1>5. CASE Fail(w, "failed")
  BY <1>3, <1>5, FailKeeps DEF Outcomes
<1>6. CASE Move(w, j) /\ UNCHANGED <<files, settled>>
  BY <1>3, <1>4, <1>6, MoveKeeps DEF files
<1>7. QED
  BY <1>5, <1>6 DEF j

LEMMA EmbedOpenKeeps ==
    ASSUME BuildIInv, NEW w \in Workers, EmbedOpen(w)
    PROVE  BuildIInv'
<1> USE DEF EmbedOpen, At
<1> DEFINE b == Appended(wasm, job[w].inHand.author)
           j == [job[w] EXCEPT !.pc = "embedding", !.bytes = b]
<1>1. /\ job[w] \in Jobs /\ job[w].inHand.author \in Revisions
      /\ JobFits(job[w], wasm, settled)
  BY InProgress
<1>2. b \in WasmFiles /\ b # NoFile
  BY <1>1, ProjectTypes, AppendedSections DEF JobFits
<1>3. WasmWritten(w, j, Torn) /\ UNCHANGED <<edits, compiled, bounds>>
  OBVIOUS
<1> HIDE DEF b
<1>4. /\ j \in Jobs /\ j.pc = "embedding" /\ j.opts = job[w].opts /\ j.found = job[w].found
      /\ j.inHand = job[w].inHand /\ j.outcome = job[w].outcome /\ j.bytes = b
  BY <1>1, <1>2 DEF Jobs, Steps
<1> HIDE DEF j
<1>5. JobFits(j, Torn, "no")
  BY <1>1, <1>2, <1>4, Sentinels DEF JobFits, HoldsSchema, Held, SchemaInHand, Undisturbed
<1>6. QED
  BY <1>3, <1>5, ProjectTypes, ArtifactWritten, Sentinels DEF WasmFiles

(* The section read back is the one just appended: so it is the first, and  *)
(* the artifact carries the author's fields of the manifest in hand.        *)
LEMMA EmbedWriteKeeps ==
    ASSUME BuildIInv, NEW w \in Workers, EmbedWrite(w)
    PROVE  BuildIInv'
<1> USE DEF EmbedWrite, At
<1> DEFINE b == job[w].bytes
           h == [job[w] EXCEPT !.pc = "hash", !.bytes = NoFile]
           j == IF EmbedVerifies(job[w]) THEN h ELSE Idle("failed")
<1>1. /\ job[w] \in Jobs /\ JobFits(job[w], wasm, settled)
  BY InProgress
<1>2. b \in WasmFiles /\ b # NoFile /\ job[w].opts.kind = "build"
  BY <1>1 DEF Jobs, JobFits, Held
<1>3. WasmWritten(w, j, b) /\ UNCHANGED <<edits, compiled, bounds>>
  OBVIOUS
<1>4. /\ h \in Jobs /\ h.pc = "hash" /\ h.opts = job[w].opts /\ h.found = job[w].found
      /\ h.inHand = job[w].inHand /\ h.outcome = job[w].outcome
  BY <1>1 DEF Jobs, Steps, WasmFiles
<1> HIDE DEF h
<1>5. ASSUME EmbedVerifies(job[w]) PROVE JobFits(h, b, "no")
  BY <1>1, <1>2, <1>4, <1>5
     DEF JobFits, HoldsSchema, Held, SchemaInHand, Undisturbed, EmbedVerifies
<1>6. JobFits(j, b, "no")
  BY <1>5, IdleFits DEF Outcomes
<1> HIDE DEF j
<1>7. QED
  BY <1>2, <1>3, <1>6, ProjectTypes, ArtifactWritten

LEMMA HashWasmKeeps ==
    ASSUME BuildIInv, NEW w \in Workers, HashWasm(w)
    PROVE  BuildIInv'
<1> USE DEF HashWasm, At
<1> DEFINE j == job[w]
           kept == IF j.opts.kind = "build" THEN Unpersisted(j) ELSE j.inHand
           m == [kept EXCEPT !.hash = wasm]
           next == IF j.opts.kind = "build" THEN "describe" ELSE "write"
           h == [j EXCEPT !.pc = next, !.inHand = m]
<1>1. /\ j \in Jobs /\ j.inHand \in Manifests /\ j.opts \in Option /\ j.outcome = "none"
      /\ JobFits(j, wasm, settled) /\ j.pc = "hash"
  BY InProgress
<1>2. /\ kept \in Manifests /\ kept.author = j.inHand.author
      /\ j.opts.kind # "build" \/ PersistSchema([schema |-> j.found], j.opts) => kept = j.inHand
      /\ j.opts.kind = "build" /\ ~PersistSchema([schema |-> j.found], j.opts) =>
            kept.schema = "absent"
  BY <1>1, UnpersistedSchema
<1>3. Move(w, h) /\ UNCHANGED <<files, settled, edits, compiled, bounds>>
  BY DEF Hashed
<1> HIDE DEF kept
<1>4. /\ m \in Manifests /\ m.author = kept.author /\ m.schema = kept.schema /\ m.hash = wasm
  BY <1>2, ProjectTypes DEF Manifests
<1> HIDE DEF m
<1>5. /\ h \in Jobs /\ h.pc = next /\ h.opts = j.opts /\ h.found = j.found
      /\ h.inHand = m /\ h.outcome = j.outcome /\ h.overlapped = j.overlapped
  BY <1>1, <1>4 DEF Jobs, Steps
<1> HIDE DEF h
<1>6. Held(h)
  <2> DEFINE existing == UsesExisting([schema |-> j.found], j.opts)
  <2>1. /\ j.opts.kind \in {"build", "hash"}
        /\ j.inHand.schema = IF j.opts.kind = "hash" \/ existing THEN j.found ELSE "inferred"
    BY <1>1 DEF JobFits, Held, SchemaInHand, Option
  <2>2. kept.schema = IF j.opts.kind = "hash" \/ existing THEN j.found
                      ELSE IF j.opts.write THEN "inferred" ELSE "absent"
    BY <1>2, <2>1 DEF PersistSchema
  <2>3. h.inHand.schema = SchemaInHand(h)
    BY <1>4, <1>5, <2>1, <2>2 DEF SchemaInHand
  <2>4. QED
    BY <1>1, <1>5, <2>1, <2>3 DEF Held
<1>7. Undisturbed(h, wasm, settled)
  BY <1>1, <1>2, <1>4, <1>5 DEF JobFits, Held, Undisturbed, Matches
<1>8. JobFits(h, wasm, settled)
  BY <1>1, <1>4, <1>5, <1>6, <1>7, Sentinels DEF JobFits, HoldsSchema
<1>9. ProjectOk'
  BY <1>3, ProjectTypes, FilesKept DEF edits, files, bounds
<1>10. QED
  BY <1>3, <1>8, <1>9, MoveKeeps DEF files

(* Steps of build after hashing and before it writes the manifest.          *)
LEMMA MoveOnFits ==
    ASSUME BuildIInv, NEW w \in Workers, job[w].pc \in {"describe", "copy"},
           NEW pc \in {"copy", "write"}
    PROVE  JobFits([job[w] EXCEPT !.pc = pc], wasm, settled)
<1> DEFINE j == [job[w] EXCEPT !.pc = pc]
<1>1. /\ job[w] \in Jobs /\ JobFits(job[w], wasm, settled)
  BY InProgress DEF At
<1>2. /\ j \in Jobs /\ j.pc = pc /\ j.opts = job[w].opts /\ j.found = job[w].found
      /\ j.inHand = job[w].inHand /\ j.outcome = job[w].outcome
      /\ j.overlapped = job[w].overlapped
  BY <1>1 DEF Jobs, Steps
<1>3. JobFits(j, wasm, settled)
  <2> HIDE DEF j
  <2>1. Held(j)
    BY <1>1, <1>2 DEF JobFits, Held, SchemaInHand
  <2>2. Undisturbed(j, wasm, settled)
    BY <1>1, <1>2 DEF JobFits, Held, Undisturbed
  <2>3. QED
    BY <1>1, <1>2, <2>1, <2>2 DEF JobFits, HoldsSchema
<1>4. QED
  BY <1>3

LEMMA DescribeKeeps ==
    ASSUME BuildIInv, NEW w \in Workers, Describe(w)
    PROVE  BuildIInv'
<1> USE DEF Describe, At
<1>1. wasm # Torn => wasm.code \in Revisions
  <2>1. wasm # NoFile
    BY Parts DEF JobFits
  <2>2. QED
    BY <2>1, ProjectTypes DEF WasmFiles, Wasms
<1>2. dist' \in [describe : Revisions \cup {0}, wasm : WasmFiles]
  BY <1>1, ProjectTypes
<1>3. ProjectOk'
  BY <1>2, ProjectTypes, FilesKept DEF edits, bounds
<1>4. CASE Move(w, Idle("failed"))
  BY <1>3, <1>4, MoveKeeps, IdleFits DEF Outcomes
<1>5. CASE \E pc \in {"copy", "write"} : Move(w, [job[w] EXCEPT !.pc = pc])
  BY <1>3, <1>5, MoveKeeps, MoveOnFits
<1>6. QED
  BY <1>4, <1>5

LEMMA CopyWasmKeeps ==
    ASSUME BuildIInv, NEW w \in Workers, CopyWasm(w)
    PROVE  BuildIInv'
<1> USE DEF CopyWasm, At
<1>1. dist' \in [describe : Revisions \cup {0}, wasm : WasmFiles]
  BY ProjectTypes
<1>2. ProjectOk'
  BY <1>1, ProjectTypes, FilesKept DEF edits, bounds
<1>3. QED
  BY <1>2, MoveKeeps, MoveOnFits

LEMMA WriteOpenKeeps ==
    ASSUME BuildIInv, NEW w \in Workers, WriteOpen(w)
    PROVE  BuildIInv'
<1> USE DEF WriteOpen, At
<1> DEFINE j == [job[w] EXCEPT !.pc = "writing"]
<1>1. /\ job[w] \in Jobs /\ JobFits(job[w], wasm, settled)
  BY InProgress
<1>2. /\ j \in Jobs /\ j.pc = "writing" /\ j.opts = job[w].opts /\ j.found = job[w].found
      /\ j.inHand = job[w].inHand /\ j.outcome = job[w].outcome
      /\ j.overlapped = job[w].overlapped
  BY <1>1 DEF Jobs, Steps
<1>3. /\ MoveWriting(w, j) /\ manifest' = Torn
      /\ settled' = IF job[w].opts.kind = "flow" /\ ~job[w].overlapped THEN settled ELSE "no"
      /\ UNCHANGED <<wasm, wasmTime, dist, source, draft, compiled, commands, crashes>>
  BY DEF edits, bounds
<1> HIDE DEF j
<1>4. JobFits(j, wasm, settled')
  <2>1. Held(j)
    BY <1>1, <1>2 DEF JobFits, Held, SchemaInHand
  <2>2. Undisturbed(j, wasm, settled')
    BY <1>1, <1>2, <1>3 DEF JobFits, Held, Undisturbed
  <2>3. QED
    BY <1>1, <1>2, <2>1, <2>2 DEF JobFits, HoldsSchema
<1>5. ProjectOk'
  BY <1>3, ProjectTypes DEF ProjectOk, ArtifactVerifies
<1>6. QED
  BY <1>3, <1>4, <1>5, MoveWritingKeeps

(* The manifest a command leaves undisturbed vouches for the artifact.      *)
LEMMA WriteManifestKeeps ==
    ASSUME BuildIInv, NEW w \in Workers, WriteManifest(w)
    PROVE  BuildIInv'
<1> USE DEF WriteManifest, At
<1> DEFINE j == job[w]
<1>1. /\ j \in Jobs /\ j.inHand \in Manifests /\ j.opts \in Option
      /\ JobFits(j, wasm, settled)
  BY InProgress
<1>2. /\ MoveWriting(w, Idle("ok")) /\ manifest' = j.inHand
      /\ settled' = IF j.overlapped THEN "no"
                    ELSE IF j.opts.kind = "flow" THEN settled ELSE j.opts.kind
      /\ UNCHANGED <<wasm, wasmTime, dist, source, draft, compiled, commands, crashes>>
  BY DEF edits, bounds
<1>3. j.opts.kind \in {"build", "flow", "hash"}
  BY <1>1 DEF Option
<1>4. settled' \in {"no", "hash", "build"}
  BY <1>2, <1>3, ProjectTypes
<1>5. ArtifactVerifies'
  <2> SUFFICES ASSUME settled' # "no" PROVE Matches(j.inHand, wasm, settled')
    BY <1>2 DEF ArtifactVerifies, Matches
  <2>1. ~j.overlapped
    BY <1>2
  <2>2. CASE j.opts.kind = "flow"
    BY <1>1, <1>2, <2>1, <2>2 DEF JobFits, Undisturbed
  <2>3. CASE j.opts.kind # "flow"
    BY <1>1, <1>2, <2>1, <2>3 DEF JobFits, Undisturbed, Matches
  <2>4. QED
    BY <2>2, <2>3
<1>6. ProjectOk'
  BY <1>1, <1>2, <1>4, <1>5, ProjectTypes DEF ProjectOk
<1>7. QED
  BY <1>2, <1>6, MoveWritingKeeps, IdleFits DEF Outcomes

LEMMA KillKeeps ==
    ASSUME BuildIInv, NEW w \in Workers, Kill(w)
    PROVE  BuildIInv'
<1> USE DEF Kill
<1>1. crashes' \in 0..MaxCrashes
  BY ProjectTypes
<1>2. ProjectOk'
  BY <1>1, ProjectTypes, FilesKept DEF Fail, edits, files
<1>3. QED
  BY <1>2, FailKeeps DEF Outcomes

LEMMA EditSourceKeeps ==
    ASSUME BuildIInv, EditSource
    PROVE  BuildIInv'
<1> USE DEF EditSource
<1>1. source' \in Revisions
  BY ProjectTypes DEF Revisions
<1>2. ProjectOk'
  BY <1>1, ProjectTypes, FilesKept DEF files, bounds
<1>3. QED
  BY <1>2, Parts, WholeNext DEF files

LEMMA EditManifestKeeps ==
    ASSUME BuildIInv, EditManifest
    PROVE  BuildIInv'
<1> USE DEF EditManifest
<1>1. draft' \in Revisions
  BY ProjectTypes DEF Revisions
<1>2. PICK schema \in {"absent", "authored"} :
        manifest' = IF manifest = Torn
                    THEN [author |-> draft', schema |-> schema, flows |-> 0, hash |-> NoFile]
                    ELSE [manifest EXCEPT !.author = draft',
                                          !.schema = IF @ = "inferred" THEN @ ELSE schema]
  OBVIOUS
<1>3. manifest' \in Manifests
  <2>1. CASE manifest = Torn
    BY <1>1, <1>2, <2>1 DEF Manifests, Schemas, WasmFiles
  <2>2. CASE manifest \in Manifests
    BY <1>1, <1>2, <2>2, Sentinels DEF Manifests, Schemas
  <2>3. QED
    BY <2>1, <2>2, ProjectTypes
<1>4. ProjectOk'
  BY <1>1, <1>3, ProjectTypes DEF ProjectOk, ArtifactVerifies, bounds
<1>5. ASSUME NEW v \in Workers PROVE JobFits(job'[v], wasm', settled')
  BY Parts, NoticedFits
<1>6. job' \in [Workers -> Jobs]
  BY <1>5 DEF JobFits
<1>7. QED
  BY <1>4, <1>5, <1>6, WholeNext

-----------------------------------------------------------------------------
LEMMA BuildUnchanged ==
    ASSUME BuildIInv, UNCHANGED <<edits, compiled, files, job, settled, crashes>>,
           commands' \in 0..MaxCommands
    PROVE  BuildIInv'
<1>1. ProjectOk'
  BY ProjectTypes, FilesKept DEF edits, files
<1>2. QED
  BY <1>1, Parts, WholeNext DEF files

LEMMA BuildStepIInv == BuildIInv /\ [BuildNext]_buildVars => BuildIInv'
<1> SUFFICES ASSUME BuildIInv, [BuildNext]_buildVars PROVE BuildIInv'
  OBVIOUS
<1>1. CASE UNCHANGED buildVars
  BY <1>1, BuildUnchanged, ProjectTypes DEF buildVars, bounds
<1>2. ASSUME NEW w \in Workers, CommandStep(w) PROVE BuildIInv'
  BY <1>2, BeginKeeps, WriteInferredKeeps, ChecksKeeps, CargoKeeps, CheckWorldKeeps,
     EmbedOpenKeeps, EmbedWriteKeeps, HashWasmKeeps, DescribeKeeps, CopyWasmKeeps,
     WriteOpenKeeps, WriteManifestKeeps DEF CommandStep
<1>3. QED
  BY <1>1, <1>2, KillKeeps, EditSourceKeeps, EditManifestKeeps DEF BuildNext

(* Nobody but its own worker ends a command well, and only when it wrote    *)
(* the manifest: with the schema the inductive invariant says it holds.     *)
LEMMA SchemaStep ==
    ASSUME BuildIInv, [BuildNext]_buildVars, NEW w \in Workers
    PROVE  SchemaWritten(w)
<1> SUFFICES ASSUME At(w, "writing"), job'[w].outcome = "ok"
             PROVE  manifest'.schema = SchemaInHand(job[w])
  BY DEF SchemaWritten, SchemaInHand, UsesExisting, At
<1> USE DEF At
<1>1. /\ job \in [Workers -> Jobs] /\ job[w] \in Jobs /\ job[w].outcome = "none"
      /\ job[w].inHand.schema = SchemaInHand(job[w])
  BY Parts DEF JobFits, Held
<1>2. ASSUME NEW v \in Workers, NEW j, Move(v, j) \/ MoveWriting(v, j),
             v # w \/ j.outcome # "ok"
      PROVE  FALSE
  <2>1. (job'[w] = j /\ v = w) \/ job'[w] = job[w] \/ job'[w] = Noticed(job[w])
    BY <1>1, <1>2 DEF Move, MoveWriting
  <2>2. Noticed(job[w]).outcome = "none"
    BY <1>1 DEF Noticed, Jobs
  <2>3. QED
    BY <1>1, <1>2, <2>1, <2>2
<1>3. WriteManifest(w)
  <2>1. ASSUME NEW v \in Workers, CommandStep(v), v # w PROVE FALSE
    BY <1>2, <2>1
       DEF CommandStep, Begin, Refuse, LoadManifest, LoadForHash, WriteInferred, Checks, Cargo,
           CheckWorld, EmbedOpen, EmbedWrite, HashWasm, Describe, CopyWasm, WriteOpen,
           WriteManifest, Fail, WasmWritten
  <2>2. ASSUME CommandStep(w) PROVE WriteManifest(w)
    BY <2>2
       DEF CommandStep, Begin, WriteInferred, Checks, Cargo, CheckWorld, EmbedOpen, EmbedWrite,
           HashWasm, Describe, CopyWasm, WriteOpen
  <2>3. ASSUME NEW v \in Workers, Kill(v) PROVE FALSE
    BY <1>2, <2>3, IdleFits DEF Kill, Fail, Outcomes, Idle
  <2>4. ~EditSource /\ ~EditManifest /\ ~UNCHANGED buildVars
    <3>1. Noticed(job[w]).outcome = "none"
      BY <1>1 DEF Noticed, Jobs
    <3>2. QED
      BY <1>1, <3>1 DEF EditSource, EditManifest, buildVars
  <2>5. QED
    BY <2>1, <2>2, <2>3, <2>4 DEF BuildNext
<1>4. QED
  BY <1>1, <1>3 DEF WriteManifest

(* The artifact is rewritten only with a later modification time.           *)
LEMMA ArtifactStamped ==
    ASSUME BuildIInv, [BuildNext]_buildVars
    PROVE  \/ UNCHANGED <<wasm, wasmTime>>
           \/ wasmTime' = wasmTime + 1 /\ wasm' # NoFile
<1>1. ASSUME NEW w \in Workers, CommandStep(w)
      PROVE  UNCHANGED <<wasm, wasmTime>> \/ wasmTime' = wasmTime + 1
  BY <1>1
     DEF CommandStep, Begin, Refuse, LoadManifest, LoadForHash, WriteInferred, Checks, Cargo,
         CheckWorld, EmbedOpen, EmbedWrite, HashWasm, Describe, CopyWasm, WriteOpen,
         WriteManifest, Fail, WasmWritten, files
<1>2. UNCHANGED <<wasm, wasmTime>> \/ wasmTime' = wasmTime + 1
  BY <1>1 DEF BuildNext, Kill, Fail, EditSource, EditManifest, buildVars, files
<1>3. BuildIInv'
  BY BuildStepIInv
<1>4. wasmTime \in Nat /\ (wasm' = NoFile <=> wasmTime' = 0)
  BY <1>3, ProjectTypes DEF BuildIInv, ArtifactKnown
<1>5. QED
  BY <1>2, <1>4

(* Every behaviour of the build commands keeps the inductive invariant.     *)
THEOREM BuildInvariance == BuildSpec => []BuildIInv
<1>1. QED
  BY BuildInitIInv, BuildStepIInv, PTL DEF BuildSpec

-----------------------------------------------------------------------------
(* Store publish and store fetch.                                           *)
LEMMA TradeKinds ==
    ASSUME trade \in Trades
    PROVE  /\ Trading("manifest") =>
                trade \in [pc : {"manifest"}, manifest : Manifests, settled : BOOLEAN, time : Nat]
           /\ Trading("packed") =>
                trade \in [pc : {"packed"}, manifest : Manifests, from : {"artifact", "copy"},
                           bytes : WasmFiles, settled : BOOLEAN]
           /\ trade.pc \in {"write", "writing", "place", "copy", "copying"} =>
                trade \in [pc : {"write", "writing", "place", "copy", "copying"}, answer : Given,
                           file : BOOLEAN, place : Places]
  BY DEF Trades, Trading, NoTrade

LEMMA InitIInv == Init => IInv
<1> SUFFICES ASSUME Init PROVE IInv
  OBVIOUS
<1>1. BuildIInv
  <2>1. ASSUME Built PROVE BuildIInv
    <3> DEFINE artifact == [code |-> 1, sections |-> <<1>>]
    <3>1. 1 \in Revisions /\ 0 \in 0..MaxCommands /\ 0 \in 0..MaxCrashes
      BY DEF Revisions
    <3>2. artifact \in Wasms /\ artifact \in WasmFiles /\ artifact # NoFile
          /\ artifact.sections[1] = 1
      <4>1. <<1>> \in Seq(Revisions) /\ <<1>>[1] = 1
        BY <3>1
      <4>2. artifact \in Wasms
        BY <3>1, <4>1 DEF Wasms
      <4>3. QED
        BY <4>1, <4>2, Sentinels DEF WasmFiles
    <3> HIDE DEF artifact
    <3>3. /\ compiled = 1 /\ wasm = artifact /\ wasmTime = 1
          /\ manifest = [author |-> 1, schema |-> "authored", flows |-> 1, hash |-> artifact]
          /\ dist = [describe |-> 1, wasm |-> artifact]
          /\ settled = "build"
          /\ source = 1 /\ draft = 1 /\ commands = 0 /\ crashes = 0
          /\ job = [w \in Workers |-> Idle("none")]
      BY <2>1 DEF Built, artifact
    <3>4. ArtifactVerifies
      BY <3>2, <3>3 DEF ArtifactVerifies
    <3>5. manifest \in Manifests
      BY <3>1, <3>2, <3>3 DEF Manifests, Schemas
    <3>6. ProjectOk
      BY <3>1, <3>2, <3>3, <3>4, <3>5 DEF ProjectOk
    <3>7. "none" \in Outcomes
      BY DEF Outcomes
    <3>8. \A w \in Workers : JobFits(job[w], wasm, settled)
      BY <3>3, <3>7, IdleFits
    <3>9. job \in [Workers -> Jobs]
      BY <3>3, <3>8 DEF JobFits
    <3>10. QED
      BY <3>6, <3>8, <3>9, Whole
  <2>2. QED
    BY <2>1, BuildInitIInv DEF Init
<1>2. ExchangeTypes
  BY DEF Init, ExchangeTypes, Trades, WasmFiles
<1>3. PublishHolds /\ FetchHolds /\ PackagesConsistent /\ FetchDelivers
  BY DEF Init, PublishHolds, FetchHolds, PackagesConsistent, FetchDelivers, NoTrade, Trading
<1>4. QED
  BY <1>1, <1>2, <1>3 DEF IInv

-----------------------------------------------------------------------------
(* The project changes: what publish has in hand is still vouched for or is *)
(* no longer up to date.                                                    *)
LEMMA BuildingKeeps ==
    ASSUME IInv, [BuildNext]_buildVars, UNCHANGED exchangeVars
    PROVE  IInv'
<1> USE DEF exchangeVars
<1>1. BuildIInv'
  BY BuildStepIInv DEF IInv
<1>2. \/ UNCHANGED <<wasm, wasmTime>>
      \/ wasmTime' = wasmTime + 1
  BY ArtifactStamped DEF IInv
<1>3. PublishHolds'
  <2>1. wasmTime \in Nat /\ (Trading("manifest") => trade.time \in Nat)
    BY TradeKinds, ProjectTypes DEF IInv, ExchangeTypes
  <2>2. QED
    BY <1>2, <2>1 DEF IInv, PublishHolds, Trading
<1>4. ExchangeTypes' /\ FetchHolds' /\ PackagesConsistent' /\ FetchDelivers'
  BY DEF IInv, ExchangeTypes, FetchHolds, Trading, PackagesConsistent,
         FetchDelivers
<1>5. QED
  BY <1>1, <1>3, <1>4 DEF IInv

LEMMA TradingLeavesBuild ==
    ASSUME IInv, TradeStep
    PROVE  BuildIInv' /\ UNCHANGED <<wasm, wasmTime>>
<1>1. CASE Publish \/ Fetch
  <2>1. commands' \in 0..MaxCommands
    BY <1>1, ProjectTypes DEF IInv, Publish, Fetch, Starts
  <2>2. QED
    BY <1>1, <2>1, BuildUnchanged DEF IInv, Publish, Fetch, ProjectUnread, files
<1>2. CASE OnlyReads
  BY <1>2, BuildUnchanged, ProjectTypes DEF IInv, OnlyReads, buildVars, bounds, files
<1>3. QED
  BY <1>1, <1>2
     DEF TradeStep, ReadWasm, Upload, OpenOutManifest, FillOutManifest, Place, OpenCopy,
         FillCopy, TradeFails

(* A store command that ends leaves nothing in hand.                        *)
LEMMA EndsHolding ==
    ASSUME Ends
    PROVE  trade' \in Trades /\ PublishHolds' /\ FetchHolds'
  BY DEF Ends, NoTrade, Trades, PublishHolds, FetchHolds, Trading

LEMMA PublishKeeps ==
    ASSUME IInv, Publish
    PROVE  IInv'
<1> USE DEF Publish
<1>1. BuildIInv' /\ UNCHANGED <<wasm, wasmTime>>
  BY TradingLeavesBuild DEF TradeStep
<1>2. trade' \in Trades /\ PublishHolds' /\ FetchHolds'
  <2>1. CASE Ends
    BY <2>1, EndsHolding
  <2>2. CASE /\ manifest # Torn
             /\ trade' = [pc |-> "manifest", manifest |-> manifest,
                          settled |-> settled # "no", time |-> wasmTime]
    <3>1. manifest \in Manifests /\ wasmTime \in Nat
      BY <2>2, ProjectTypes DEF IInv
    <3>2. trade' \in Trades
      BY <2>2, <3>1 DEF Trades
    <3>3. settled # "no" => manifest.hash = wasm
      BY <2>2 DEF IInv, BuildIInv, ArtifactVerifies
    <3>4. /\ trade'.pc = "manifest" /\ trade'.manifest = manifest /\ trade'.time = wasmTime
          /\ trade'.settled <=> settled # "no"
      BY <2>2, Zenon
    <3>5. PublishHolds' /\ FetchHolds'
      BY <1>1, <3>1, <3>3, <3>4 DEF PublishHolds, FetchHolds, Trading
    <3>6. QED
      BY <3>2, <3>5
  <2>3. QED
    BY <2>1, <2>2
<1>3. ExchangeTypes'
  BY <1>2 DEF IInv, ExchangeTypes
<1>4. PackagesConsistent' /\ FetchDelivers'
  BY DEF IInv, PackagesConsistent, FetchDelivers
<1>5. QED
  BY <1>1, <1>2, <1>3, <1>4 DEF IInv

LEMMA ReadWasmKeeps ==
    ASSUME IInv, ReadWasm
    PROVE  IInv'
<1> USE DEF ReadWasm
<1>1. BuildIInv' /\ UNCHANGED <<wasm, wasmTime>>
  BY TradingLeavesBuild DEF TradeStep
<1>2. trade' \in Trades /\ PublishHolds' /\ FetchHolds'
  <2>1. CASE Ends
    BY <2>1, EndsHolding
  <2>2. ASSUME NEW from \in {"artifact", "copy"},
               trade' = [pc |-> "packed", manifest |-> trade.manifest, from |-> from,
                         bytes |-> FileNamed(from),
                         settled |-> trade.settled /\ from = "artifact" /\ wasmTime = trade.time]
        PROVE  trade' \in Trades /\ PublishHolds' /\ FetchHolds'
    <3>1. trade.manifest \in Manifests /\ trade.settled \in BOOLEAN
      BY TradeKinds DEF IInv, ExchangeTypes
    <3>2. FileNamed(from) \in WasmFiles
      BY ProjectTypes DEF IInv, FileNamed
    <3>3. trade' \in Trades
      BY <2>2, <3>1, <3>2 DEF Trades
    <3>4. PublishHolds' /\ FetchHolds'
      BY <2>2 DEF IInv, PublishHolds, FetchHolds, Trading, FileNamed
    <3>5. QED
      BY <3>3, <3>4
  <2>3. QED
    BY <2>1, <2>2
<1>3. ExchangeTypes'
  BY <1>2 DEF IInv, ExchangeTypes
<1>4. PackagesConsistent' /\ FetchDelivers'
  BY DEF IInv, PackagesConsistent, FetchDelivers
<1>5. QED
  BY <1>1, <1>2, <1>3, <1>4 DEF IInv

(* Both digests are of the bytes read, and those are what the manifest      *)
(* vouches for if the project was left alone until they were read.          *)
LEMMA UploadKeeps ==
    ASSUME IInv, Upload
    PROVE  IInv'
<1> USE DEF Upload
<1>1. BuildIInv'
  BY TradingLeavesBuild DEF TradeStep
<1>2. trade' \in Trades /\ PublishHolds' /\ FetchHolds'
  BY EndsHolding
<1>3. /\ trade.manifest \in Manifests /\ trade.bytes \in WasmFiles
      /\ trade.manifest.author \in Revisions
      /\ trade.settled => trade.manifest.hash = trade.bytes
  BY TradeKinds DEF IInv, ExchangeTypes, PublishHolds, Manifests
<1>4. /\ Package(trade) \in [operations : Revisions, sha256 : WasmFiles, digest : WasmFiles,
                             asset : WasmFiles, matches : WasmFiles]
      /\ {Package(trade).sha256, Package(trade).digest, Package(trade).matches}
           = {Package(trade).asset}
  BY <1>3 DEF Package
<1>5. ExchangeTypes'
  BY <1>2, <1>4 DEF IInv, ExchangeTypes
<1>6. PackagesConsistent'
  BY <1>4 DEF IInv, PackagesConsistent
<1>7. FetchDelivers'
  BY DEF IInv, FetchDelivers
<1>8. QED
  BY <1>1, <1>2, <1>5, <1>6, <1>7 DEF IInv

-----------------------------------------------------------------------------
LEMMA FetchKeeps ==
    ASSUME IInv, Fetch
    PROVE  IInv'
<1> USE DEF Fetch
<1>1. BuildIInv' /\ UNCHANGED <<wasm, wasmTime>>
  BY TradingLeavesBuild DEF TradeStep
<1>2. Answers \subseteq Given
  BY ProjectTypes DEF IInv, ExchangeTypes, Answers, Given
<1>3. trade' \in Trades /\ PublishHolds' /\ FetchHolds'
  <2>1. CASE Ends
    BY <2>1, EndsHolding
  <2>2. ASSUME NEW answer \in Answers, NEW file \in BOOLEAN,
               trade' = [pc |-> IF answer.manifest = NoFile THEN "copy" ELSE "write",
                         answer |-> answer, file |-> file, place |-> PlaceWithout(file)]
        PROVE  trade' \in Trades /\ PublishHolds' /\ FetchHolds'
    <3>1. trade' \in Trades
      BY <1>2, <2>2 DEF Trades, PlaceWithout, Places
    <3>2. PublishHolds' /\ FetchHolds'
      BY <2>2 DEF PublishHolds, FetchHolds, Trading
    <3>3. QED
      BY <3>1, <3>2
  <2>3. QED
    BY <2>1, <2>2
<1>4. ExchangeTypes'
  BY <1>3 DEF IInv, ExchangeTypes
<1>5. PackagesConsistent' /\ FetchDelivers'
  BY DEF IInv, PackagesConsistent, FetchDelivers
<1>6. QED
  BY <1>1, <1>3, <1>4, <1>5 DEF IInv

LEMMA FetchShape ==
    ASSUME IInv, trade.pc \in {"write", "writing", "place", "copy", "copying"}
    PROVE  /\ trade \in [pc : {"write", "writing", "place", "copy", "copying"}, answer : Given,
                         file : BOOLEAN, place : Places]
           /\ trade.answer.wasm \in WasmFiles
           /\ trade.answer.manifest \in Manifests \cup {Torn, NoFile}
           /\ trade.place \in Places
  BY TradeKinds DEF IInv, ExchangeTypes, Given

(* Moving on leaves what is in hand alone.                                  *)
LEMMA FetchMoves ==
    ASSUME IInv, trade.pc \in {"write", "writing", "place", "copy", "copying"},
           NEW pc \in {"write", "writing", "place", "copy", "copying"}, NEW t,
           t = [trade EXCEPT !.pc = pc]
    PROVE  /\ t \in Trades /\ t.pc = pc /\ t.answer = trade.answer
           /\ t.file = trade.file /\ t.place = trade.place
  BY FetchShape DEF Trades

LEMMA OpenOutManifestKeeps ==
    ASSUME IInv, OpenOutManifest
    PROVE  IInv'
<1> USE DEF OpenOutManifest, Trading
<1>1. BuildIInv' /\ UNCHANGED <<wasm, wasmTime>>
  BY TradingLeavesBuild DEF TradeStep
<1>2. trade' \in Trades /\ trade'.pc = "writing"
  BY FetchMoves
<1>3. ExchangeTypes'
  BY <1>2 DEF IInv, ExchangeTypes
<1>4. PublishHolds' /\ FetchHolds'
  BY <1>2 DEF PublishHolds, FetchHolds, Trading
<1>5. PackagesConsistent' /\ FetchDelivers'
  BY DEF IInv, PackagesConsistent, FetchDelivers
<1>6. QED
  BY <1>1, <1>3, <1>4, <1>5 DEF IInv

LEMMA FillOutManifestKeeps ==
    ASSUME IInv, FillOutManifest
    PROVE  IInv'
<1> USE DEF FillOutManifest, Trading
<1>1. BuildIInv' /\ UNCHANGED <<wasm, wasmTime>>
  BY TradingLeavesBuild DEF TradeStep
<1>2. trade' \in Trades /\ trade'.pc = "place" /\ trade'.answer = trade.answer
  BY FetchMoves
<1>3. out' \in [manifest : Manifests \cup {Torn, NoFile}, wasm : [Places -> WasmFiles]]
      /\ out'.manifest = trade.answer.manifest /\ out'.wasm = out.wasm
  BY FetchShape DEF IInv, ExchangeTypes
<1>4. ExchangeTypes'
  BY <1>2, <1>3 DEF IInv, ExchangeTypes
<1>5. PublishHolds' /\ FetchHolds'
  BY <1>2, <1>3 DEF PublishHolds, FetchHolds, Trading
<1>6. PackagesConsistent' /\ FetchDelivers'
  BY DEF IInv, PackagesConsistent, FetchDelivers, FetchHolds
<1>7. QED
  BY <1>1, <1>4, <1>5, <1>6 DEF IInv

LEMMA PlaceKeeps ==
    ASSUME IInv, Place
    PROVE  IInv'
<1> USE DEF Place, Trading
<1>1. BuildIInv' /\ UNCHANGED <<wasm, wasmTime>>
  BY TradingLeavesBuild DEF TradeStep
<1>2. trade' \in Trades /\ PublishHolds' /\ FetchHolds'
  <2>1. CASE Ends
    BY <2>1, EndsHolding
  <2>2. CASE trade' = [trade EXCEPT !.pc = "copy",
                                    !.place = IF trade.file THEN "file" ELSE "named"]
    <3> DEFINE place == IF trade.file THEN "file" ELSE "named"
    <3>1. place \in Places
      BY DEF Places
    <3>2. trade' \in Trades /\ trade'.pc = "copy" /\ trade'.answer = trade.answer
          /\ trade'.file = trade.file /\ trade'.place = place
      BY <2>2, <3>1, FetchShape DEF Trades
    <3>3. PublishHolds' /\ FetchHolds'
      BY <3>2 DEF IInv, PublishHolds, FetchHolds, Trading
    <3>4. QED
      BY <3>2, <3>3
  <2>3. QED
    BY <2>1, <2>2
<1>3. ExchangeTypes'
  BY <1>2 DEF IInv, ExchangeTypes
<1>4. PackagesConsistent' /\ FetchDelivers'
  BY DEF IInv, PackagesConsistent, FetchDelivers
<1>5. QED
  BY <1>1, <1>2, <1>3, <1>4 DEF IInv

LEMMA OpenCopyKeeps ==
    ASSUME IInv, OpenCopy
    PROVE  IInv'
<1> USE DEF OpenCopy, Trading
<1>1. BuildIInv' /\ UNCHANGED <<wasm, wasmTime>>
  BY TradingLeavesBuild DEF TradeStep
<1>2. trade' \in Trades /\ trade'.pc = "copying" /\ trade'.answer = trade.answer
      /\ trade'.file = trade.file /\ trade'.place = trade.place
  BY FetchMoves
<1>3. out' \in [manifest : Manifests \cup {Torn, NoFile}, wasm : [Places -> WasmFiles]]
      /\ out'.manifest = out.manifest
  BY FetchShape DEF IInv, ExchangeTypes, WasmFiles
<1>4. ExchangeTypes'
  BY <1>2, <1>3 DEF IInv, ExchangeTypes
<1>5. PublishHolds' /\ FetchHolds'
  BY <1>2, <1>3 DEF IInv, PublishHolds, FetchHolds, Trading
<1>6. PackagesConsistent' /\ FetchDelivers'
  BY DEF IInv, PackagesConsistent, FetchDelivers
<1>7. QED
  BY <1>1, <1>4, <1>5, <1>6 DEF IInv

LEMMA FillCopyKeeps ==
    ASSUME IInv, FillCopy
    PROVE  IInv'
<1> USE DEF FillCopy, Trading
<1>1. BuildIInv'
  BY TradingLeavesBuild DEF TradeStep
<1>2. trade' \in Trades /\ PublishHolds' /\ FetchHolds'
  BY EndsHolding
<1>3. out' \in [manifest : Manifests \cup {Torn, NoFile}, wasm : [Places -> WasmFiles]]
      /\ out'.manifest = out.manifest /\ out'.wasm[trade.place] = trade.answer.wasm
  BY FetchShape DEF IInv, ExchangeTypes
<1>4. /\ receipt' \in [place : Places, file : BOOLEAN, answer : Given]
      /\ receipt'.place = trade.place /\ receipt'.file = trade.file
      /\ receipt'.answer = trade.answer
  BY FetchShape
<1>5. ExchangeTypes'
  BY <1>2, <1>3, <1>4 DEF IInv, ExchangeTypes
<1>6. FetchDelivers'
  BY <1>3, <1>4 DEF IInv, FetchHolds, FetchDelivers
<1>7. PackagesConsistent'
  BY DEF IInv, PackagesConsistent
<1>8. QED
  BY <1>1, <1>2, <1>5, <1>6, <1>7 DEF IInv

LEMMA TradeFailsKeeps ==
    ASSUME IInv, TradeFails
    PROVE  IInv'
<1> USE DEF TradeFails
<1>1. BuildIInv'
  BY TradingLeavesBuild DEF TradeStep
<1>2. trade' \in Trades /\ PublishHolds' /\ FetchHolds'
  BY EndsHolding
<1>3. ExchangeTypes' /\ PackagesConsistent' /\ FetchDelivers'
  BY <1>2 DEF IInv, ExchangeTypes, PackagesConsistent, FetchDelivers
<1>4. QED
  BY <1>1, <1>2, <1>3 DEF IInv

-----------------------------------------------------------------------------
LEMMA StepIInv == IInv /\ [Next]_vars => IInv'
<1> SUFFICES ASSUME IInv, [Next]_vars PROVE IInv'
  OBVIOUS
<1>1. CASE BuildNext /\ UNCHANGED exchangeVars
  BY <1>1, BuildingKeeps
<1>2. CASE UNCHANGED vars
  BY <1>2, BuildingKeeps DEF vars
<1>3. CASE TradeStep
  BY <1>3, PublishKeeps, ReadWasmKeeps, UploadKeeps, FetchKeeps, OpenOutManifestKeeps,
     FillOutManifestKeeps, PlaceKeeps, OpenCopyKeeps, FillCopyKeeps, TradeFailsKeeps
     DEF TradeStep
<1>4. QED
  BY <1>1, <1>2, <1>3 DEF Next

(* Every behaviour of the project and of store publish and fetch keeps the  *)
(* inductive invariant.                                                     *)
THEOREM Invariance == Spec => []IInv
<1>1. QED
  BY InitIInv, StepIInv, PTL DEF Spec

(* The build commands keep their types: however they interleave, are killed *)
(* or fail, a command never works on a manifest it could not read.          *)
THEOREM BuildTypes == Spec => []BuildTypeOK
<1>1. IInv => BuildTypeOK
  BY DEF IInv, BuildIInv
<1>2. QED
  BY Invariance, <1>1, PTL

(* The artifact that an undisturbed build or hash leaves passes the hash    *)
(* check, and the manifest embedded by build is the manifest's own.         *)
THEOREM ArtifactIsVouchedFor == Spec => []ArtifactVerifies
<1>1. IInv => ArtifactVerifies
  BY DEF IInv, BuildIInv
<1>2. QED
  BY Invariance, <1>1, PTL

(* Packages that reach the store are consistent.                            *)
THEOREM UploadsAreConsistent == Spec => []PackagesConsistent
<1>1. IInv => PackagesConsistent
  BY DEF IInv
<1>2. QED
  BY Invariance, <1>1, PTL

(* A fetch that ends well has delivered what the source had.                *)
THEOREM FetchIsComplete == Spec => []FetchDelivers
<1>1. IInv => FetchDelivers
  BY DEF IInv
<1>2. QED
  BY Invariance, <1>1, PTL

(* A command that ends well leaves the config_schema its options ask for.   *)
THEOREM SchemaIsAsAsked == Spec => SchemaAsAsked
<1>1. IInv /\ [Next]_vars => [\A w \in Workers : SchemaWritten(w)]_buildVars
  <2> SUFFICES ASSUME IInv, [Next]_vars, NEW w \in Workers, ~UNCHANGED buildVars
               PROVE  SchemaWritten(w)
    OBVIOUS
  <2>1. CASE BuildNext
    BY <2>1, SchemaStep DEF IInv
  <2>2. CASE UNCHANGED job
    <3>1. BuildIInv
      BY DEF IInv
    <3>2. SchemaWritten(w)
      BY <2>2, <3>1, Parts DEF JobFits, Held, SchemaWritten, At
    <3>3. QED
      BY <3>2
  <2>3. QED
    BY <2>1, <2>2
       DEF Next, vars, TradeStep, Publish, Fetch, ProjectUnread, ReadWasm, Upload,
           OpenOutManifest, FillOutManifest, Place, OpenCopy, FillCopy, TradeFails,
           OnlyReads, buildVars
<1>2. QED
  BY Invariance, <1>1, PTL DEF Spec, SchemaAsAsked
=============================================================================
