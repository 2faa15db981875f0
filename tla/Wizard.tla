------------------------------ MODULE Wizard ------------------------------
(***************************************************************************)
(* `greentic-component wizard` with an answers document: create a project, *)
(* add or rename an operation, build and test, diagnose.  A run first      *)
(* makes a plan (which for a create with overwrite_output already clears   *)
(* the directory), writes the answers it was asked to emit, and then       *)
(* either writes the plan down (dry run) or executes its steps in place.   *)
(* The commands act on the project directory of Scaffold.tla, one next to  *)
(* the other and next to `new`.                                            *)
(***************************************************************************)
EXTENDS Scaffold

Create == "create"
Dry(req) ==
  IF req.flag \in {"validate", "apply"} THEN req.flag = "validate"
  ELSE IF req.sub \in {"validate", "apply"} THEN req.sub = "validate"
  ELSE req.flag = "dry-run"

(* The mode of the answers replaces the default one and must agree with    *)
(* any other; the hidden `wizard new` always creates.                      *)
ModesAgree(req) == req.sub = "new" \/ req.doc \in {"none", req.mode} \/ req.mode = Create
Mode(req) ==
  IF req.sub = "new" THEN Create ELSE IF req.doc = "none" THEN req.mode ELSE req.doc

ASSUME WizardAssumption ==
  \A req \in Requests :
    (req.kind = "wizard" /\ req.flaw = "none" /\ Mode(req) \in {"add_operation", "update_operation"})
      => req.op # ""

(* load_run_answers: the document must be readable, and of the version     *)
(* that is asked for unless it may be migrated.                            *)
AnswersRefused(req) == req.flaw = "document" \/ (req.version = "older" /\ ~req.migrate)

DirStep == [step |-> "dirs"]
FileStep(p, whole, body) == [step |-> "file", path |-> p, whole |-> whole, body |-> body]
CallStep(what) == [step |-> what]

StartWizard(c) == \E req \in Requests : req.kind = "wizard" /\ Start(c, req, "resolve")

BuildTestPlan(req) == <<CallStep("build")>> \o IF req.fullTests THEN <<CallStep("test")>> ELSE <<>>

(* run_with_context up to the plan: the answers are loaded (and migrated), *)
(* the mode is settled.                                                    *)
Resolve(c) ==
  /\ At(c, "resolve")
  /\ LET req == cmds[c].req
     IN IF AnswersRefused(req) \/ ~ModesAgree(req)
        THEN Exit(c, "failed")
        ELSE CASE Mode(req) = Create -> Goto(c, "clear")
               [] Mode(req) \in {"add_operation", "update_operation"} -> Goto(c, "manifest")
               [] Mode(req) = "build_test" ->
                    cmds' = [cmds EXCEPT ![c].pc = "output", ![c].plan = BuildTestPlan(req)]
               [] OTHER ->
                    cmds' = [cmds EXCEPT ![c].pc = "output", ![c].plan = <<CallStep("doctor")>>]
  /\ UNCHANGED <<dir, git, hist>>

---------------------------------------------------------------------------
(* create *)

Remove(P) == files' = [p \in Paths |-> IF p \in P THEN Absent ELSE files[p]]

(* remove_dir_all, which may give up half-way. *)
ClearOutput(c) ==
  \/ /\ Remove(Paths) /\ root' = FALSE /\ subdirs' = FALSE /\ temps' = {} /\ git' = NoGit
     /\ Goto(c, "parse")
  \/ /\ \E P \in SUBSET {Manifest, Lib} : Remove(P)
     /\ Exit(c, "failed")
     /\ UNCHANGED <<root, subdirs, temps, git>>

(* The wizard that clears a directory it was not told to overwrite. *)
ClearAlways(c) ==
  /\ At(c, "clear")
  /\ LET req == cmds[c].req
     IN IF req.flaw # "name" /\ ~Dry(req) /\ root
        THEN ClearOutput(c)
        ELSE /\ IF req.flaw = "name" THEN Exit(c, "failed") ELSE Goto(c, "parse")
             /\ UNCHANGED <<dir, git>>
  /\ UNCHANGED hist

(* The name, organisation and version are checked; then an output          *)
(* directory to be overwritten is removed, any other must have no entries. *)
Clear(c) ==
  /\ At(c, "clear")
  /\ LET req == cmds[c].req
         refused == req.flaw = "name" \/ (~req.overwrite /\ NonEmpty)
         clear == req.overwrite /\ ~Dry(req) /\ root
     IN \/ ~refused /\ clear /\ ClearOutput(c)
        \/ /\ refused \/ ~clear
           /\ IF refused THEN Exit(c, "failed") ELSE Goto(c, "parse")
           /\ UNCHANGED <<dir, git>>
  /\ UNCHANGED hist

(* A default that is not among the operations is replaced by the first.    *)
CreateDefault(req) ==
  IF InSeq(req.default, UserOperations(req)) THEN req.default ELSE UserOperations(req)[1]

(* build_files, build_plan: the directories, then the files by path.       *)
CreatePlan(req) ==
  <<DirStep,
    FileStep("Cargo.toml", TRUE, CargoToml(req.deps = "local")),
    FileStep("Makefile", TRUE, Blank),
    FileStep(Manifest, TRUE, ManifestJson(UserOperations(req) \o ReservedOps, CreateDefault(req),
                                          ManifestCapabilities(req.caps))),
    FileStep(Lib, TRUE, LibRs(Members(UserOperations(req)), "extend"))>>

(* Operations, capabilities, answers to prefill and configuration fields   *)
(* are parsed after the directory was cleared.                             *)
Parse(c) ==
  /\ At(c, "parse")
  /\ LET req == cmds[c].req
     IN IF req.flaw # "none"
        THEN Exit(c, "failed")
        ELSE cmds' = [cmds EXCEPT ![c].pc = "output", ![c].plan = CreatePlan(req)]
  /\ UNCHANGED <<dir, git, hist>>

---------------------------------------------------------------------------
(* add and update an operation *)

AddOperation(m, req) ==
  [m EXCEPT !.ops = Append(@, req.op), !.default = IF req.setDefault THEN req.op ELSE @]

NewName(req) == IF req.newOp = "" THEN req.op ELSE req.newOp

UpdateOperationOnly(m, req) ==
  LET i == CHOOSE k \in DOMAIN m.ops : m.ops[k] = req.op /\ \A j \in 1 .. k - 1 : m.ops[j] # req.op
  IN [m EXCEPT !.ops[i] = NewName(req), !.default = IF req.setDefault THEN NewName(req) ELSE @]

(* The first entry of that name is renamed; the default follows it.        *)
UpdateOperation(m, req) ==
  LET i == CHOOSE k \in DOMAIN m.ops : m.ops[k] = req.op /\ \A j \in 1 .. k - 1 : m.ops[j] # req.op
  IN [m EXCEPT !.ops[i] = NewName(req),
               !.default = IF req.setDefault \/ @ = req.op THEN NewName(req) ELSE @]

OperationRefused(m, req) ==
  IF Mode(req) = "add_operation"
  THEN InSeq(req.op, m.ops)
  ELSE ~InSeq(req.op, m.ops) \/ (NewName(req) # req.op /\ InSeq(NewName(req), m.ops))

ReadManifest(c) ==
  /\ At(c, "manifest")
  /\ LET req == cmds[c].req
         f == files[Manifest]
     IN IF req.flaw # "none" \/ ~f.whole \/ (f.whole /\ OperationRefused(f.body, req))
        THEN Exit(c, "failed")
        ELSE cmds' = [cmds EXCEPT ![c].pc = "lib",
               ![c].read = IF Mode(req) = "add_operation" THEN AddOperation(f.body, req)
                           ELSE UpdateOperation(f.body, req)]
  /\ UNCHANGED <<dir, git, hist>>

(* collect_user_operation_names: what src/lib.rs lists besides the         *)
(* reserved operations.                                                    *)
CollectUserOperations(m) == Members(m.ops) \ Reserved

OperationPlan(m, lib) == <<FileStep(Manifest, TRUE, m), lib>>

(* rewrite_lib_user_ops: the list of user operations is found between two  *)
(* anchors and generated anew from the manifest; without the anchors the   *)
(* run is refused before it writes anything.  An incomplete file may still *)
(* have them.  In the layout of the templates an empty list leaves a comma *)
(* that does not compile.                                                  *)
RewriteLib(c) ==
  /\ At(c, "lib")
  /\ LET f == files[Lib]
         m == cmds[c].read
         ops == CollectUserOperations(m)
         Planned(whole, layout) ==
           cmds' = [cmds EXCEPT ![c].pc = "output", ![c].read = Blank,
                      ![c].plan = OperationPlan(m, FileStep(Lib, whole, LibRs(ops, layout)))]
     IN \/ f.whole /\ f.body.layout \in {"vec", "extend"}
           /\ Planned(ops # {} \/ f.body.layout = "extend", f.body.layout)
        \/ f # Absent /\ ~f.whole /\ \E l \in {"vec", "extend"} : Planned(FALSE, l)
        \/ (f.whole => f.body.layout = "other") /\ Exit(c, "failed")
  /\ UNCHANGED <<dir, git, hist>>

---------------------------------------------------------------------------
(* Output and execution. *)

(* The answers are written first; a dry run then writes its plan and needs *)
(* a place for it, an execution starts.                                    *)
Output(c) ==
  /\ At(c, "output")
  /\ LET req == cmds[c].req
     IN \/ (req.emit \/ (Dry(req) /\ req.planOut)) /\ Exit(c, "failed")
        \/ Dry(req) /\ Exit(c, IF req.planOut THEN "ok" ELSE "failed")
        \/ ~Dry(req) /\ Goto(c, "step")
  /\ UNCHANGED <<dir, git, hist>>

Next1(c) == Head(cmds[c].plan)
AtStep(c, what) == At(c, "step") /\ cmds[c].plan # <<>> /\ Next1(c).step = what

EnsureDirs(c) ==
  /\ AtStep(c, "dirs")
  /\ root' = TRUE /\ subdirs' = TRUE
  /\ Onward(c)
  /\ UNCHANGED <<files, temps, git, hist>>

(* fs::write truncates the file in its place, fills it, and a script is    *)
(* then made executable.                                                   *)
OpenFile(c) ==
  /\ AtStep(c, "file")
  /\ LET p == Next1(c).path
     IN /\ root' = TRUE /\ subdirs' = (subdirs \/ p = Lib)
        /\ files' = [files EXCEPT ![p] = [by |-> c, whole |-> FALSE, x |-> @.x, body |-> Blank]]
  /\ Goto(c, "fill")
  /\ UNCHANGED <<temps, git, hist>>

(* The bytes go to the file that was opened, which may no longer be the    *)
(* one at this path.                                                       *)
FillFile(c) ==
  /\ At(c, "fill")
  /\ LET f == Next1(c)
         filled == [by |-> c, whole |-> f.whole, x |-> files[f.path].x, body |-> f.body]
     IN /\ \/ files[f.path] # Absent /\ files' = [files EXCEPT ![f.path] = filled]
           \/ files[f.path].by # c /\ UNCHANGED files
        /\ IF Executable(f.path) THEN Goto(c, "chmod") ELSE Onward(c)
  /\ UNCHANGED <<root, subdirs, temps, git, hist>>

(* A directory or file that cannot be created or filled ends the run. *)
StepFails(c) ==
  /\ cmds[c].pc \in {"step", "fill"} /\ cmds[c].plan # <<>>
  /\ Exit(c, "failed")
  /\ UNCHANGED <<dir, git, hist>>

(* build reads the manifest when it starts and writes it back, with its    *)
(* hash and configuration, when it is done (BuildPipeline has the rest).   *)
Build(c) ==
  /\ AtStep(c, "build") /\ files[Manifest].whole
  /\ cmds' = [cmds EXCEPT ![c].plan = <<FileStep(Manifest, TRUE, files[Manifest].body)>> \o Tail(@)]
  /\ UNCHANGED <<dir, git, hist>>

(* cargo test and doctor leave the project as it is. *)
Call(c) ==
  /\ (AtStep(c, "test") \/ AtStep(c, "doctor"))
  /\ Onward(c)
  /\ UNCHANGED <<dir, git, hist>>

Executed(c) ==
  /\ At(c, "step") /\ cmds[c].plan = <<>>
  /\ Exit(c, "ok")
  /\ UNCHANGED <<dir, git, hist>>

WizardStep(c) ==
  \/ StartWizard(c) \/ Resolve(c) \/ Clear(c) \/ Parse(c) \/ ReadManifest(c) \/ RewriteLib(c)
  \/ Output(c) \/ EnsureDirs(c) \/ OpenFile(c) \/ FillFile(c) \/ StepFails(c) \/ Build(c)
  \/ Call(c) \/ Executed(c)

Next ==
  \/ \E c \in Commands : NewStep(c) \/ WizardStep(c) \/ Kill(c)
  \/ \E p \in {Notes, Lib, Manifest} : Edit(p)

Spec == Init /\ [][Next]_vars
---------------------------------------------------------------------------
(* Properties. *)

(* Every variable keeps its type, for `new` and the wizard together.       *)
TypeOK ==
  /\ root \in BOOLEAN /\ subdirs \in BOOLEAN
  /\ DOMAIN files = Paths
  /\ \A p \in Paths :
       /\ files[p].by \in 0 .. Dev /\ files[p].x \in BOOLEAN
       /\ files[p].whole => files[p].by # 0
       /\ (p = Manifest /\ files[p].whole) => files[p].body.default # ""
  /\ temps \subseteq Commands \X Generated
  /\ \A t \in temps : At(t[1], "persist") \/ cmds[t[1]].reply = "killed"
  /\ ~git.repo => git = NoGit
  /\ \A c \in Commands : cmds[c].reply \in {"none", "ok", "failed", "killed"}
  /\ kills \in 0 .. MaxKills /\ edits \in 0 .. MaxEdits /\ disturbed \subseteq Commands

Ends(c) == ~At(c, "done") /\ cmds'[c].pc = "done" /\ cmds'[c].reply = "ok"
Acts(c) == cmds'[c] # cmds[c]
IsNew(c) == cmds[c].req.kind = "new"
Executes(c) == ~IsNew(c) /\ ~Dry(cmds[c].req)
Creates(c) == Executes(c) /\ Mode(cmds[c].req) = Create
Revises(c) == Executes(c) /\ Mode(cmds[c].req) \in {"add_operation", "update_operation"}
FromBuiltIn(c) == IsNew(c) /\ ResolveTemplate(cmds[c].req.template) = BuiltIn

(* The operations that commands were told to give another name.            *)
Renames(r) ==
  /\ r.pc # "off" /\ r.req.kind = "wizard" /\ Mode(r.req) = "update_operation"
  /\ NewName(r.req) # r.req.op
ToRename(cs) == {cs[c].req.op : c \in {d \in Commands : Renames(cs[d])}}

(* The user operations src/lib.rs describes are those the manifest         *)
(* declares, the default operation is declared, and so is every reserved   *)
(* one, which src/lib.rs always has, unless it was to be renamed.          *)
Aligned(fs, renamed) ==
  LET m == fs[Manifest].body
  IN /\ fs[Manifest].whole
     /\ Members(m.ops) \ Reserved = fs[Lib].body.ops \ Reserved
     /\ Reserved \ renamed \subseteq Members(m.ops)
     /\ m.default \in Members(m.ops)

(* When a command that made or changed the operations succeeds, and ran    *)
(* alone, the user operations of src/lib.rs and of the manifest agree,     *)
(* also after a command that was killed between its two files and after an *)
(* edit of either.  The reserved operations agree too as long as nobody    *)
(* asked for one of them to be renamed: update_operation does not refuse   *)
(* it, renames it in the manifest and leaves src/lib.rs with the old name. *)
AlignedWhenDone ==
  [][\A c \in Commands :
       (Ends(c) /\ c \notin disturbed' /\ (FromBuiltIn(c) \/ Creates(c) \/ Revises(c)))
         => Aligned(files', ToRename(cmds))]_vars

(* A capability is granted if it was asked for, or is what a granted one   *)
(* needs; it is missing only if what it qualifies was not asked for.       *)
Grants(asked, got) ==
  /\ \A g \in got : g \in asked \/ (g = "state.write" /\ "state.delete" \in asked)
  /\ "mounts" \in asked \ got => "filesystem" \notin asked
  /\ "attributes" \in asked \ got => "span_prefix" \notin asked
  /\ asked \ got \subseteq {"mounts", "attributes"}
  /\ "mounts" \in got => "filesystem" \in got
  /\ "attributes" \in got => "span_prefix" \in got
  /\ "state.delete" \in got => "state.write" \in got

(* A `new` or a create that succeeds, and ran alone, leaves every file of  *)
(* the project whole, its own and as asked for, the script executable and  *)
(* no temporary file; what git is reported to have committed is exactly    *)
(* that; and in crates.io mode `new` leaves no path dependency.            *)
DeliversRequest ==
  [][\A c \in Commands :
       (Ends(c) /\ c \notin disturbed' /\ (IsNew(c) \/ Creates(c))) =>
         LET req == cmds[c].req
             m == files'[Manifest].body
         IN /\ \A p \in Generated :
                 files'[p].by = c /\ files'[p].whole /\ (Executable(p) => files'[p].x)
            /\ Members(m.ops) = Members(UserOperations(req)) \cup Reserved
            /\ m.default \in Members(UserOperations(req))
            /\ Grants(req.caps, m.caps)
            /\ temps' = {}
            /\ (IsNew(c) /\ req.deps = "crates-io") => ~files'["Cargo.toml"].body.pathDep
            /\ cmds'[c].git = "initialized" => git'.head = files']_vars

(* A file that was there is changed or removed only by the developer, by   *)
(* the command that wrote it, by a create that was told to overwrite and   *)
(* executes, or, if it is the manifest or src/lib.rs, by a run that        *)
(* revises or builds the project; two commands at once may disturb each    *)
(* other.                                                                  *)
ForeignFilesKept ==
  [][\A p \in Paths :
       (files[p] # Absent /\ files'[p] # files[p]) =>
         \/ edits' # edits
         \/ \E c \in Commands :
              /\ Acts(c)
              /\ \/ files[p].by = c
                 \/ c \in disturbed
                 \/ Creates(c) /\ cmds[c].req.overwrite
                 \/ Executes(c) /\ Mode(cmds[c].req) # Create /\ p \in {Manifest, Lib}]_vars

(* A file that `new` put in its place is never partial: not while another  *)
(* command runs, and not after `new` was killed at any point.              *)
NewFilesWhole ==
  \A p \in Generated :
    (files[p].by \in Commands /\ IsNew(files[p].by)) => files[p].whole

---------------------------------------------------------------------------
(* The inductive invariant.  A command: its request is of the kind its     *)
(* place belongs to, and what its plan names it may write.                 *)
NewPlaces == {"check", "open", "persist", "detect", "init", "add", "commit", "compile"}
WizardPlaces == {"resolve", "clear", "manifest", "parse", "lib", "output", "step", "fill"}
Written == {"detect", "init", "add", "commit", "compile"}

IsManifest(body) ==
  body = ManifestJson(body.ops, body.default, body.caps) /\ body.default # ""

Makes(req) == req.kind = "new" \/ Mode(req) = Create
ItemFits(req, f) ==
  (req.kind = "new" \/ f.step = "file") =>
     /\ f.path \in IF Makes(req) THEN Generated ELSE {Manifest, Lib}
     /\ req.kind = "wizard" => f.whole \in BOOLEAN
     /\ f.path = Manifest => IsManifest(f.body)
PlanFits(r) ==
  /\ r.plan \in Seq({r.plan[i] : i \in DOMAIN r.plan})
  /\ \A i \in DOMAIN r.plan : ItemFits(r.req, r.plan[i])
  /\ r.pc \in {"persist", "chmod", "fill"} => r.plan # <<>>
  /\ r.pc \in Written \cup {"off", "done"} => r.plan = <<>>
  /\ (r.pc = "fill" \/ (r.pc = "chmod" /\ r.req.kind = "wizard")) => Head(r.plan).step = "file"
RequestFits(r) ==
  /\ r.pc = "off" => r = Idle
  /\ r.pc # "off" => r.req \in Requests
  /\ r.pc \in NewPlaces => r.req.kind = "new"
  /\ r.pc \in WizardPlaces => r.req.kind = "wizard"
  /\ r.pc \in {"step", "fill"} \/ (r.pc = "chmod" /\ r.req.kind = "wizard") => ~Dry(r.req)
  /\ r.pc \in {"clear", "parse"} => Mode(r.req) = Create
  /\ r.pc \in {"manifest", "lib"} => Mode(r.req) \in {"add_operation", "update_operation"}
  /\ r.pc = "lib" => IsManifest(r.read)
  /\ r.pc = "chmod" => Makes(r.req)
CommandFits(r) ==
  /\ r = [pc |-> r.pc, req |-> r.req, plan |-> r.plan, read |-> r.read, reply |-> r.reply,
          git |-> r.git]
  /\ r.pc \in NewPlaces \cup WizardPlaces \cup {"off", "chmod", "done"}
  /\ r.reply \in {"none", "ok", "failed", "killed"}
  /\ r.pc # "done" => r.reply = "none"
  /\ r.git # "none" => r.pc # "off" /\ r.req.kind = "new"
  /\ RequestFits(r)
  /\ r.pc # "off" => PlanFits(r)

(* The directory: without it there is nothing in it, a temporary file is   *)
(* the one its command is about to rename or was left by a killed one, and *)
(* a file was written by a command that has started.                       *)
FileFits(p, f, cs) ==
  /\ f = [by |-> f.by, whole |-> f.whole, x |-> f.x, body |-> f.body]
  /\ f.by \in 0 .. Dev /\ f.whole \in BOOLEAN /\ f.x \in BOOLEAN
  /\ f.by = 0 => f = Absent
  /\ p = Manifest /\ f.whole => IsManifest(f.body)
  /\ f.by \in Commands => cs[f.by].pc # "off" /\ (cs[f.by].req.kind = "new" => f.whole)
TempFits(t, cs) ==
  /\ t \in Commands \X Generated
  /\ \/ cs[t[1]].pc = "persist" /\ t[2] = Head(cs[t[1]].plan).path
     \/ cs[t[1]].pc = "done" /\ cs[t[1]].reply = "killed"
DirectoryFits ==
  /\ root \in BOOLEAN /\ subdirs \in BOOLEAN
  /\ files = [p \in Paths |-> files[p]] /\ \A p \in Paths : FileFits(p, files[p], cmds)
  /\ \A t \in temps : TempFits(t, cmds)
  /\ git = [repo |-> git.repo, index |-> git.index, head |-> git.head] /\ git.repo \in BOOLEAN
  /\ ~git.repo => git = NoGit
  /\ ~root => ~NonEmpty

(* A command that makes a project and has not been disturbed: all there is *)
(* it has written, in the order of its script.                             *)
Script(req) ==
  IF req.kind = "new" THEN RenderFiles(req, ResolveTemplate(req.template)) ELSE CreatePlan(req)
HasFile(f) == "path" \in DOMAIN f
Put(c, f, g) == g.by = c /\ g.whole /\ g.body = f.body
Delivered(c, f, g) == Put(c, f, g) /\ (Executable(f.path) => g.x)
Underway(c, r, fs) ==
  LET script == Script(r.req)
  IN \E k \in 1 .. Len(script) + 1 :
       /\ r.plan = SubSeq(script, k, Len(script))
       /\ \A j \in 1 .. k - 1 : HasFile(script[j]) => Delivered(c, script[j], fs[script[j].path])
       /\ r.pc = "fill" => fs[script[k].path].by = c
       /\ r.pc = "chmod" => Put(c, script[k], fs[script[k].path])
Making(r) ==
  /\ r.pc \notin {"off", "check", "resolve", "clear", "done"} /\ Makes(r.req)
  /\ r.req.kind = "wizard" => ~Dry(r.req)
OnCourse(c, r, fs, ts, g) ==
  /\ \A p \in Paths : fs[p] = Absent \/ fs[p].by = c
  /\ \A t \in ts : r.pc = "persist" /\ t = <<c, Head(r.plan).path>>
  /\ r.pc # "parse" => Underway(c, r, fs)
  /\ r.req.kind = "new" => BuildRequest(r.req)
  /\ r.pc \in Written => r.req.deps = "local" \/ ~fs["Cargo.toml"].body.pathDep
  /\ r.pc = "commit" => g.index = fs
  /\ r.pc = "compile" /\ r.git = "initialized" => g.head = fs

IInv ==
  /\ cmds = [c \in Commands |-> cmds[c]]
  /\ \A c \in Commands : CommandFits(cmds[c])
  /\ DirectoryFits
  /\ kills \in 0 .. MaxKills /\ edits \in 0 .. MaxEdits /\ disturbed \subseteq Commands
  /\ \A c \in Running \ disturbed :
       /\ Running = {c}
       /\ Making(cmds[c]) => OnCourse(c, cmds[c], files, temps, git)

(* That what src/lib.rs lists follows the manifest is an invariant of its  *)
(* own.  A manifest, read, planned or written, has its default and every   *)
(* reserved operation that no command was told to rename: nobody checks    *)
(* it, but nothing else takes an operation away.                           *)
Lists(m, renamed) ==
  /\ m.ops \in Seq(Members(m.ops))
  /\ Reserved \ renamed \subseteq Members(m.ops) /\ m.default \in Members(m.ops)
ItemLists(req, f, renamed) ==
  ((req.kind = "new" \/ f.step = "file") /\ f.path = Manifest) => Lists(f.body, renamed)
Listing(r, renamed) ==
  /\ r.pc = "lib" => Lists(r.read, renamed)
  /\ \A i \in DOMAIN r.plan : ItemLists(r.req, r.plan[i], renamed)

(* A run that revises the operations and has not been disturbed: of its    *)
(* two files, the manifest and src/lib.rs, it has both to write, or the    *)
(* second, which lists what the manifest in place has, or neither.         *)
Revising(r) ==
  /\ r.pc \in {"output", "step", "fill"} /\ r.req.kind = "wizard" /\ ~Dry(r.req)
  /\ Mode(r.req) \in {"add_operation", "update_operation"}
LibOf(lib, m) == lib.step = "file" /\ lib.path = Lib /\ lib.body.ops = CollectUserOperations(m)
Follows(c, r, fs) ==
  /\ \/ \E m, lib \in {r.plan[i] : i \in DOMAIN r.plan} :
          r.plan = OperationPlan(m.body, lib) /\ LibOf(lib, m.body)
     \/ /\ fs[Manifest].whole
        /\ \/ \E lib \in {r.plan[i] : i \in DOMAIN r.plan} :
                r.plan = <<lib>> /\ LibOf(lib, fs[Manifest].body)
           \/ r.plan = <<>> /\ fs[Lib].body.ops = CollectUserOperations(fs[Manifest].body)
  /\ r.pc = "fill" => fs[Head(r.plan).path].by = c

LInv ==
  /\ files[Manifest].whole => Lists(files[Manifest].body, ToRename(cmds))
  /\ \A c \in Commands : Listing(cmds[c], ToRename(cmds))
  /\ \A c \in Running \ disturbed : Revising(cmds[c]) => Follows(c, cmds[c], files)
===========================================================================
