----------------------------- MODULE Scaffold -----------------------------
(***************************************************************************)
(* `greentic-component new`: a component project is rendered from a        *)
(* template, written file by file through temporary files, checked for     *)
(* path dependencies, put under git and compiled.                          *)
(*                                                                         *)
(* A project directory is shared by the commands that run on it, by the    *)
(* developer who edits it and by git.  Four generated files stand for the  *)
(* fourteen and more of a template: the ones a later step reads            *)
(* (Cargo.toml, the manifest, src/lib.rs) and one that is made executable  *)
(* (Makefile); NOTES.md is a file of the developer.  A file is what a      *)
(* later reader can tell of it: who wrote it last, whether it is whole,    *)
(* whether it is executable, and the part of its text that matters.        *)
(*                                                                         *)
(* Wizard.tla adds the wizard's commands, which act on the same directory. *)
(***************************************************************************)
EXTENDS Integers, FiniteSets, Sequences

CONSTANTS
  Requests,      \* the command lines that may be given
  UserTemplates, \* templates under the user's template root
  MaxCommands,   \* commands started in a behaviour
  MaxKills,      \* commands killed in a behaviour
  MaxEdits       \* edits of the developer in a behaviour

(* What the argument parser and the answers document let through: an       *)
(* operation that does not parse, an empty name included, is a flaw        *)
(* (normalize_operation_name).                                             *)
ASSUME ProjectAssumption ==
  /\ {MaxCommands, MaxKills, MaxEdits} \subseteq Nat
  /\ \A req \in Requests :
       /\ req.kind \in {"new", "wizard"}
       /\ req.ops \in Seq({req.ops[i] : i \in DOMAIN req.ops})
       /\ \A i \in DOMAIN req.ops : req.ops[i] # ""

VARIABLES
  root,      \* the project directory exists
  subdirs,   \* it has subdirectories (src, ...)
  files,     \* its files
  temps,     \* temporary files in it: <<command, path>>
  git,       \* its repository: [repo, index, head]
  cmds,      \* the commands
  kills, edits,
  disturbed  \* commands that overlapped with another or with an edit

dir  == <<root, subdirs, files, temps>>
hist == <<kills, edits, disturbed>>
vars == <<dir, git, cmds, hist>>

Commands == 1 .. MaxCommands
Dev == MaxCommands + 1
Manifest == "component.manifest.json"
Lib == "src/lib.rs"
Notes == "NOTES.md"
Generated == {"Cargo.toml", "Makefile", Manifest, Lib}
Paths == Generated \cup {Notes}
Executable(p) == p = "Makefile"

Reserved == {"qa-spec", "apply-answers", "i18n-keys"}
ReservedOps == <<"qa-spec", "apply-answers", "i18n-keys">>

Blank == [none |-> TRUE]
File(by, body) == [by |-> by, whole |-> TRUE, x |-> FALSE, body |-> body]
Absent == [by |-> 0, whole |-> FALSE, x |-> FALSE, body |-> Blank]
NoFiles == [p \in Paths |-> Absent]
NoGit == [repo |-> FALSE, index |-> NoFiles, head |-> NoFiles]

Idle == [pc |-> "off", req |-> Blank, plan |-> <<>>, read |-> Blank, reply |-> "none", git |-> "none"]
Running == {c \in Commands : cmds[c].pc \notin {"off", "done"}}

(* Steps of a command. *)
At(c, l) == cmds[c].pc = l
Goto(c, l) == cmds' = [cmds EXCEPT ![c].pc = l]
Leave(cs, c, r) == [cs EXCEPT ![c].pc = "done", ![c].reply = r, ![c].plan = <<>>, ![c].read = Blank]
Exit(c, r) == cmds' = Leave(cmds, c, r)

(* On to the next file: new and the wizard call the same place differently. *)
Onward(c) ==
  cmds' = [cmds EXCEPT ![c].pc = IF cmds[c].req.kind = "new" THEN "open" ELSE "step",
                       ![c].plan = Tail(@)]

NonEmpty == subdirs \/ temps # {} \/ git.repo \/ \E p \in Paths : files[p] # Absent

---------------------------------------------------------------------------
(* The texts the generators put into a project; of the list of operations  *)
(* in src/lib.rs the names matter, not their order.                        *)

CargoToml(pathDep) == [pathDep |-> pathDep]
ManifestJson(ops, default, caps) == [ops |-> ops, default |-> default, caps |-> caps]
LibRs(ops, layout) == [ops |-> ops, layout |-> layout]

(* manifest_capabilities and manifest_telemetry: mounts count only with a  *)
(* filesystem, attributes only with a span prefix, delete implies write.   *)
ManifestCapabilities(caps) ==
  (caps \ ((IF "filesystem" \in caps THEN {} ELSE {"mounts"})
             \cup (IF "span_prefix" \in caps THEN {} ELSE {"attributes"})))
    \cup (IF "state.delete" \in caps THEN {"state.write"} ELSE {})

Members(s) == {s[i] : i \in DOMAIN s}
InSeq(x, s) == \E i \in DOMAIN s : s[i] = x
Distinct(s) == \A i, j \in DOMAIN s : s[i] = s[j] => i = j

(* build_request: the operations are normalised and must be distinct, the  *)
(* default one of them; without any the component handles messages.        *)
UserOperations(req) == IF req.ops = <<>> THEN <<"handle_message">> ELSE req.ops
DefaultOperation(req) == IF req.default = "" THEN UserOperations(req)[1] ELSE req.default

BuildRequest(req) ==
  /\ req.flaw = "none"
  /\ Distinct(req.ops)
  /\ InSeq(DefaultOperation(req), UserOperations(req))

(* templates and resolve_template: the lists of built-in and user          *)
(* templates sorted by identity, kind and path; the first of the identity  *)
(* is taken, so a built-in template hides a user's of the same identity.   *)
BuiltIn == [id |-> "rust-wasi-p2-min", dirName |-> "rust-wasi-p2-min", user |-> FALSE, path |-> 0, readable |-> TRUE,
            loads |-> TRUE, renders |-> TRUE, pathDep |-> FALSE, layout |-> "vec"]

(* An unreadable template.json does not hide a user template: it is listed *)
(* under the name of its directory (and fails when it is loaded).          *)
ListedId(t) == IF t.readable THEN t.id ELSE t.dirName

Templates == {BuiltIn} \cup UserTemplates
Named(id) == {t \in Templates : ListedId(t) = id}

Before(t, u) == (~t.user /\ u.user) \/ (t.user = u.user /\ t.path <= u.path)
ResolveTemplate(id) == CHOOSE t \in Named(id) : \A u \in Named(id) : Before(t, u)

(* render_files renders every file before the first is written.  The       *)
(* files come in the order of the template's directory.                    *)
Walk == <<"Cargo.toml", Manifest, "Makefile", Lib>>

RenderedBody(req, t, p) ==
  CASE p = "Cargo.toml" -> CargoToml(t.pathDep \/ req.deps = "local")
    [] p = "Makefile" -> Blank
    [] p = Manifest -> ManifestJson(UserOperations(req) \o ReservedOps, DefaultOperation(req),
                                    ManifestCapabilities(req.caps))
    [] p = Lib -> LibRs(Members(UserOperations(req)), t.layout)

RenderFiles(req, t) ==
  [i \in 1 .. Len(Walk) |-> [path |-> Walk[i], body |-> RenderedBody(req, t, Walk[i])]]

---------------------------------------------------------------------------
(* Starting, killing, editing. *)

(* Commands are numbered in the order they start. *)
Start(c, req, l) ==
  /\ At(c, "off")
  /\ \A b \in Commands : b < c => ~At(b, "off")
  /\ cmds' = [cmds EXCEPT ![c] = [Idle EXCEPT !.pc = l, !.req = req]]
  /\ disturbed' = IF Running = {} THEN disturbed ELSE disturbed \cup Running \cup {c}
  /\ UNCHANGED <<dir, git, kills, edits>>

StartNew(c) == \E req \in Requests : req.kind = "new" /\ Start(c, req, "check")

(* A killed command leaves the directory as it is, temporary file included. *)
Kill(c) ==
  /\ c \in Running /\ kills < MaxKills
  /\ Exit(c, "killed")
  /\ kills' = kills + 1
  /\ UNCHANGED <<dir, git, edits, disturbed>>

(* The developer writes notes, rewrites src/lib.rs in a form of their own, *)
(* or declares one more operation in the manifest by hand.                 *)
Edit(p) ==
  /\ root /\ edits < MaxEdits
  /\ \/ p = Notes /\ files' = [files EXCEPT ![p] = File(Dev, Blank)]
     \/ p = Lib /\ files[p].whole
        /\ files' = [files EXCEPT ![p] = File(Dev, LibRs({}, "other"))]
     \/ p = Manifest /\ files[p].whole
        /\ files' = [files EXCEPT ![p] =
             File(Dev, [files[p].body EXCEPT !.ops = Append(@, "by_hand")])]
  /\ edits' = edits + 1
  /\ disturbed' = disturbed \cup Running
  /\ UNCHANGED <<root, subdirs, temps, git, cmds, kills>>

---------------------------------------------------------------------------
(* new: checks, then the files. *)

PathAvailableVisible == \A p \in Paths : files[p] = Absent

PathAvailable == ~NonEmpty
(* build_request, then scaffold up to the first write: the template, the   *)
(* target directory, the files of the template, the rendering.             *)
Check(c) ==
  /\ At(c, "check")
  /\ LET req == cmds[c].req
         ok == /\ BuildRequest(req)
               /\ Named(req.template) # {}
               /\ PathAvailable
               /\ LET t == ResolveTemplate(req.template) IN t.readable /\ t.loads /\ t.renders
     IN IF ok
        THEN cmds' = [cmds EXCEPT ![c].pc = "open",
                        ![c].plan = RenderFiles(req, ResolveTemplate(req.template))]
        ELSE Exit(c, "failed")
  /\ UNCHANGED <<dir, git, hist>>

OpenInPlace(c) ==
  /\ At(c, "open") /\ cmds[c].plan # <<>>
  /\ LET p == Head(cmds[c].plan).path
     IN /\ temps' = temps \cup {<<c, p>>} /\ subdirs' = (subdirs \/ p = Lib)
        /\ files' = [files EXCEPT ![p].by = c, ![p].whole = FALSE]
  /\ root' = TRUE
  /\ Goto(c, "persist")
  /\ UNCHANGED <<git, hist>>

(* write_all: the directories of the next file and a temporary file next   *)
(* to its place, filled and synced.                                        *)
OpenTemp(c) ==
  /\ At(c, "open") /\ cmds[c].plan # <<>>
  /\ LET p == Head(cmds[c].plan).path
     IN temps' = temps \cup {<<c, p>>} /\ subdirs' = (subdirs \/ p = Lib)
  /\ root' = TRUE
  /\ Goto(c, "persist")
  /\ UNCHANGED <<files, git, hist>>

(* The directory or the temporary file cannot be created, or not filled:   *)
(* the command fails and the temporary file is dropped with its handle.    *)
WriteFails(c) ==
  /\ cmds[c].pc \in {"open", "persist"} /\ cmds[c].plan # <<>>
  /\ temps' = temps \ {<<c, Head(cmds[c].plan).path>>}
  /\ Exit(c, "failed")
  /\ UNCHANGED <<root, subdirs, files, git, hist>>

(* A copy instead of a rename, which leaves the temporary file.            *)
PersistLeavingTemp(c) ==
  /\ At(c, "persist")
  /\ files' = [files EXCEPT ![Head(cmds[c].plan).path] = File(c, Head(cmds[c].plan).body)]
  /\ Onward(c)
  /\ UNCHANGED <<root, subdirs, temps, git, hist>>

(* The rename that puts the whole file in its place, if the temporary file *)
(* is still there (the directory may have been removed).                   *)
Persist(c) ==
  /\ At(c, "persist")
  /\ LET f == Head(cmds[c].plan)
     IN /\ <<c, f.path>> \in temps
        /\ temps' = temps \ {<<c, f.path>>}
        /\ files' = [files EXCEPT ![f.path] = File(c, f.body)]
        /\ IF Executable(f.path)
           THEN Goto(c, "chmod")
           ELSE Onward(c)
  /\ UNCHANGED <<root, subdirs, git, hist>>

SetExecutable(c) ==
  /\ At(c, "chmod")
  /\ LET p == Head(cmds[c].plan).path
     IN IF files[p] = Absent
        THEN Exit(c, "failed") /\ UNCHANGED files
        ELSE /\ files' = [files EXCEPT ![p].x = TRUE]
             /\ Onward(c)
  /\ UNCHANGED <<root, subdirs, temps, git, hist>>

(* ensure_cratesio_manifest_clean reads the Cargo.toml that was written:   *)
(* a template with a path dependency fails here, with its files in place.  *)
CheckDeps(c) ==
  /\ At(c, "open") /\ cmds[c].plan = <<>> /\ cmds[c].req.kind = "new"
  /\ LET cargo == files["Cargo.toml"]
         clean == cmds[c].req.deps = "local" \/ (cargo.whole /\ ~cargo.body.pathDep)
     IN IF clean THEN Goto(c, "detect") ELSE Exit(c, "failed")
  /\ UNCHANGED <<dir, git, hist>>

---------------------------------------------------------------------------
(* new: git and the compiler.  What git reports never fails the command.   *)

Report(c, status) == cmds' = [cmds EXCEPT ![c].pc = "compile", ![c].git = status]

(* initialize_git_repo up to git init: not wanted, no directory, already a *)
(* repository, inside another worktree, or no git.                         *)
DetectGit(c) ==
  /\ At(c, "detect")
  /\ \/ cmds[c].req.skipGit /\ Report(c, "skipped")
     \/ ~cmds[c].req.skipGit
        /\ \/ ~root /\ Report(c, "failed")
           \/ root /\ git.repo /\ Report(c, "present")
           \/ root /\ ~git.repo /\ Goto(c, "init")
           \/ root /\ ~git.repo /\ \E s \in {"inside", "skipped", "failed"} : Report(c, s)
  /\ UNCHANGED <<dir, git, hist>>

(* git init, add, commit, rev-parse: each may fail, and then what the ones *)
(* before it did stays.                                                    *)
GitInit(c) ==
  /\ At(c, "init")
  /\ \/ root /\ git' = [git EXCEPT !.repo = TRUE] /\ Goto(c, "add")
     \/ \E s \in {"skipped", "failed"} : Report(c, s) /\ UNCHANGED git
  /\ UNCHANGED <<dir, hist>>

(* --all stages whatever is there, temporary files of a killed command     *)
(* included; they are shown as a path that is not whole.                   *)
Snapshot == IF temps = {} THEN files ELSE [files EXCEPT ![Notes] = [@ EXCEPT !.whole = FALSE]]

GitAdd(c) ==
  /\ At(c, "add")
  /\ \/ git.repo /\ git' = [git EXCEPT !.index = Snapshot] /\ Goto(c, "commit")
     \/ Report(c, "failed") /\ UNCHANGED git
  /\ UNCHANGED <<dir, hist>>

(* The commit is reported with its hash; when the hash cannot be read the  *)
(* report says failed although the commit exists.                          *)
GitCommit(c) ==
  /\ At(c, "commit")
  /\ \/ /\ git.repo
        /\ git' = [git EXCEPT !.head = git.index]
        /\ \E s \in {"initialized", "failed"} : Report(c, s)
     \/ Report(c, "failed") /\ UNCHANGED git
  /\ UNCHANGED <<dir, hist>>

(* run_compile_check: skipped, passed, failed, or cargo could not be run.  *)
Compile(c) ==
  /\ At(c, "compile")
  /\ \/ (cmds[c].req.noCheck \/ root) /\ Exit(c, "ok")
     \/ ~cmds[c].req.noCheck /\ Exit(c, "failed")
  /\ UNCHANGED <<dir, git, hist>>

NewStep(c) ==
  \/ StartNew(c) \/ Check(c) \/ OpenTemp(c) \/ WriteFails(c) \/ Persist(c) \/ SetExecutable(c)
  \/ CheckDeps(c) \/ DetectGit(c) \/ GitInit(c) \/ GitAdd(c) \/ GitCommit(c) \/ Compile(c)

---------------------------------------------------------------------------
(* What the directory holds at first: nothing, no files, a project made    *)
(* earlier by new or by the wizard, or files of somebody else.             *)
Project(layout) ==
  [p \in Paths |->
     CASE p = "Cargo.toml" -> File(Dev, CargoToml(FALSE))
       [] p = "Makefile" -> [File(Dev, Blank) EXCEPT !.x = TRUE]
       [] p = Manifest -> File(Dev, ManifestJson(<<"handle">> \o ReservedOps, "handle", {}))
       [] p = Lib -> File(Dev, LibRs({"handle"}, layout))
       [] p = Notes -> Absent]

Foreign == [NoFiles EXCEPT ![Notes] = File(Dev, Blank)]

InitialDirs ==
  {[root |-> FALSE, sub |-> FALSE, files |-> NoFiles],
   [root |-> TRUE, sub |-> FALSE, files |-> NoFiles],
   [root |-> TRUE, sub |-> FALSE, files |-> Foreign],
   [root |-> TRUE, sub |-> TRUE, files |-> Project("vec")],
   [root |-> TRUE, sub |-> TRUE, files |-> Project("extend")]}

Init ==
  /\ \E d \in InitialDirs : root = d.root /\ subdirs = d.sub /\ files = d.files
  /\ temps = {} /\ git = NoGit
  /\ cmds = [c \in Commands |-> Idle]
  /\ kills = 0 /\ edits = 0 /\ disturbed = {}
===========================================================================
