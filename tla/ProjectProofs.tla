---------------------------- MODULE ProjectProofs ----------------------------
(* Proofs about Scaffold and Wizard: `new` and the wizard with any requests *)
(* and templates, on one directory, with any number of commands, kills and  *)
(* edits.                                                                   *)
EXTENDS Wizard, SequenceTheorems, WellFoundedInduction, TLAPS

LEMMA FunctionIsSeq ==
    ASSUME NEW S, NEW n \in Nat, NEW f \in [1 .. n -> S]
    PROVE  f \in Seq(S)
<1>1. f = [i \in 1 .. n |-> f[i]]
  OBVIOUS
<1>2. [i \in 1 .. n |-> f[i]] \in Seq(S)
  OBVIOUS
<1>3. QED
  BY <1>1, <1>2

(* An operation's name, and so the default operation of a project that is   *)
(* made, is never empty.                                                    *)
LEMMA OperationsNamed ==
    ASSUME NEW req \in Requests
    PROVE  LET ops == UserOperations(req)
           IN /\ ops \in Seq({ops[i] : i \in DOMAIN ops})
              /\ 1 \in DOMAIN ops /\ \A i \in DOMAIN ops : ops[i] # ""
<1>1. CASE req.ops = <<>>
  <2>1. UserOperations(req) = <<"handle_message">>
    BY <1>1 DEF UserOperations
  <2>2. /\ <<"handle_message">> \in Seq({"handle_message"})
        /\ DOMAIN <<"handle_message">> = {1} /\ <<"handle_message">>[1] = "handle_message"
    OBVIOUS
  <2>3. {<<"handle_message">>[i] : i \in {1}} = {"handle_message"}
    BY <2>2
  <2>4. QED
    BY <2>1, <2>2, <2>3
<1>2. CASE req.ops # <<>>
  <2> DEFINE R == {req.ops[i] : i \in DOMAIN req.ops}
  <2>1. req.ops \in Seq(R) /\ \A i \in DOMAIN req.ops : req.ops[i] # ""
    BY ProjectAssumption
  <2>2. UserOperations(req) = req.ops
    BY <1>2 DEF UserOperations
  <2>3. 1 \in DOMAIN req.ops
    <3> HIDE DEF R
    <3>1. Len(req.ops) \in Nat \ {0}
      BY <1>2, <2>1, EmptySeq
    <3>2. DOMAIN req.ops = 1 .. Len(req.ops)
      BY <2>1, LenProperties
    <3>3. QED
      BY <3>1, <3>2
  <2>4. QED
    BY <2>1, <2>2, <2>3
<1>3. QED
  BY <1>1, <1>2

LEMMA DefaultNamed ==
    ASSUME NEW req \in Requests
    PROVE  DefaultOperation(req) # "" /\ CreateDefault(req) # ""
  BY OperationsNamed DEF DefaultOperation, CreateDefault, InSeq

LEMMA ManifestWhole ==
    ASSUME NEW ops, NEW default, NEW caps, default # ""
    PROVE  IsManifest(ManifestJson(ops, default, caps))
  BY DEF IsManifest, ManifestJson

(* What the files of a script are, by their place in it.                    *)
ScriptBody(req, p) ==
  IF req.kind = "new" THEN RenderedBody(req, ResolveTemplate(req.template), p)
  ELSE IF p = "Cargo.toml" THEN CargoToml(req.deps = "local")
  ELSE IF p = Manifest
  THEN ManifestJson(UserOperations(req) \o ReservedOps, CreateDefault(req),
                    ManifestCapabilities(req.caps))
  ELSE IF p = Lib THEN LibRs(Members(UserOperations(req)), "extend")
  ELSE Blank

Tour == <<"Cargo.toml", "Makefile", Manifest, Lib>>

LEMMA ManifestBody ==
    ASSUME NEW req
    PROVE  LET default == IF req.kind = "new" THEN DefaultOperation(req) ELSE CreateDefault(req)
           IN ScriptBody(req, Manifest)
                = ManifestJson(UserOperations(req) \o ReservedOps, default,
                               ManifestCapabilities(req.caps))
<1>1. RenderedBody(req, ResolveTemplate(req.template), Manifest)
        = ManifestJson(UserOperations(req) \o ReservedOps, DefaultOperation(req),
                       ManifestCapabilities(req.caps))
  BY DEF RenderedBody, Manifest, Lib
<1>2. QED
  BY <1>1 DEF ScriptBody, Manifest

LEMMA BodiesFit ==
    ASSUME NEW req \in Requests
    PROVE  IsManifest(ScriptBody(req, Manifest))
  BY DefaultNamed, ManifestWhole, ManifestBody

LEMMA NewScript ==
    ASSUME NEW req \in Requests, req.kind = "new"
    PROVE  /\ Len(Script(req)) = 4 /\ DOMAIN Script(req) = 1 .. 4
           /\ Script(req) = [i \in 1 .. 4 |-> [path |-> Walk[i], body |-> ScriptBody(req, Walk[i])]]
  BY DEF Script, RenderFiles, Walk, ScriptBody

LEMMA CreateScript ==
    ASSUME NEW req \in Requests, req.kind # "new"
    PROVE  /\ Len(Script(req)) = 5 /\ DOMAIN Script(req) = 1 .. 5
           /\ Script(req)[1] = DirStep
           /\ \A i \in 2 .. 5 : Script(req)[i] = FileStep(Tour[i - 1], TRUE, ScriptBody(req, Tour[i - 1]))
<1>1. Script(req) = CreatePlan(req)
  BY DEF Script
<1>2. Len(CreatePlan(req)) = 5 /\ DOMAIN CreatePlan(req) = 1 .. 5
  BY DEF CreatePlan
<1>3. /\ Script(req)[1] = DirStep
      /\ Script(req)[2] = FileStep(Tour[1], TRUE, ScriptBody(req, Tour[1]))
      /\ Script(req)[3] = FileStep(Tour[2], TRUE, ScriptBody(req, Tour[2]))
      /\ Script(req)[4] = FileStep(Tour[3], TRUE, ScriptBody(req, Tour[3]))
      /\ Script(req)[5] = FileStep(Tour[4], TRUE, ScriptBody(req, Tour[4]))
  BY DEF Script, CreatePlan, Tour, ScriptBody, Manifest, Lib
<1>4. /\ Tour[1] = "Cargo.toml" /\ Tour[2] = "Makefile" /\ Tour[3] = Manifest /\ Tour[4] = Lib
      /\ 2 - 1 = 1 /\ 3 - 1 = 2 /\ 4 - 1 = 3 /\ 5 - 1 = 4
  BY DEF Tour
<1>5. ASSUME NEW i \in 2 .. 5
      PROVE  Script(req)[i] = FileStep(Tour[i - 1], TRUE, ScriptBody(req, Tour[i - 1]))
  <2>1. i = 2 \/ i = 3 \/ i = 4 \/ i = 5
    BY <1>5
  <2>2. QED
    BY <1>3, <1>4, <2>1
<1>6. QED
  BY <1>1, <1>2, <1>3, <1>5

LEMMA ScriptFits ==
    ASSUME NEW req \in Requests, Makes(req)
    PROVE  LET s == Script(req)
           IN /\ s \in Seq({s[i] : i \in DOMAIN s}) /\ Len(s) \in Nat /\ DOMAIN s = 1 .. Len(s)
              /\ \A i \in DOMAIN s : ItemFits(req, s[i])
              /\ \A i, j \in DOMAIN s :
                   HasFile(s[i]) /\ HasFile(s[j]) /\ s[i].path = s[j].path => i = j
              /\ \A i \in DOMAIN s : HasFile(s[i]) <=> (req.kind = "new" \/ s[i].step = "file")
              /\ req.kind = "wizard" => \A i \in DOMAIN s : HasFile(s[i]) => s[i].whole
              /\ \A p \in Generated : \E i \in DOMAIN s :
                   HasFile(s[i]) /\ s[i].path = p /\ s[i].body = ScriptBody(req, p)
<1> DEFINE s == Script(req)
<1>0. req.kind \in {"new", "wizard"}
  BY ProjectAssumption
<1>1. CASE req.kind = "new"
  <2>1. /\ Len(s) = 4 /\ DOMAIN s = 1 .. 4
        /\ s = [i \in 1 .. 4 |-> [path |-> Walk[i], body |-> ScriptBody(req, Walk[i])]]
    BY <1>1, NewScript
  <2>2. /\ Walk[1] = "Cargo.toml" /\ Walk[2] = Manifest /\ Walk[3] = "Makefile" /\ Walk[4] = Lib
        /\ \A i \in 1 .. 4 : Walk[i] \in Generated
        /\ \A i, j \in 1 .. 4 : Walk[i] = Walk[j] => i = j
        /\ \A p \in Generated : \E i \in 1 .. 4 : Walk[i] = p
    BY DEF Walk, Manifest, Lib, Generated
  <2>3. \A i \in 1 .. 4 : /\ s[i].path = Walk[i] /\ s[i].body = ScriptBody(req, Walk[i])
                          /\ HasFile(s[i])
    BY <2>1 DEF HasFile
  <2>4. \A i \in 1 .. 4 : ItemFits(req, s[i])
    BY <1>1, <2>2, <2>3, BodiesFit DEF ItemFits, Makes
  <2>5. s \in Seq({s[i] : i \in DOMAIN s})
    BY <2>1
  <2>6. QED
    BY <1>1, <2>1, <2>2, <2>3, <2>4, <2>5
<1>2. CASE req.kind # "new"
  <2>1. /\ Len(s) = 5 /\ DOMAIN s = 1 .. 5
        /\ s[1] = DirStep
        /\ \A i \in 2 .. 5 : s[i] = FileStep(Tour[i - 1], TRUE, ScriptBody(req, Tour[i - 1]))
    BY <1>2, CreateScript
  <2>2. /\ \A i \in 1 .. 4 : Tour[i] \in Generated
        /\ \A i, j \in 1 .. 4 : Tour[i] = Tour[j] => i = j
        /\ \A p \in Generated : \E i \in 1 .. 4 : Tour[i] = p
    BY DEF Tour, Manifest, Lib, Generated
  <2>3. \A i \in 2 .. 5 : /\ s[i].path = Tour[i - 1] /\ s[i].body = ScriptBody(req, Tour[i - 1])
                          /\ HasFile(s[i]) /\ s[i].step = "file" /\ s[i].whole = TRUE
                          /\ Tour[i - 1] \in Generated
    <3>1. ASSUME NEW i \in 2 .. 5
          PROVE  /\ s[i].path = Tour[i - 1] /\ s[i].body = ScriptBody(req, Tour[i - 1])
                 /\ HasFile(s[i]) /\ s[i].step = "file" /\ s[i].whole = TRUE
                 /\ Tour[i - 1] \in Generated
      <4>0. i - 1 \in 1 .. 4
        OBVIOUS
      <4>1. s[i] = FileStep(Tour[i - 1], TRUE, ScriptBody(req, Tour[i - 1])) /\ i - 1 \in 1 .. 4
        BY <2>1, <4>0
      <4>2. QED
        BY <4>1, <2>2 DEF FileStep, HasFile
    <3>2. QED
      BY <3>1
  <2>4. s[1].step = "dirs" /\ ~HasFile(s[1])
    BY <2>1 DEF DirStep, HasFile
  <2>5. \A i \in 1 .. 5 : ItemFits(req, s[i])
    <3>1. ASSUME NEW i \in 2 .. 5 PROVE ItemFits(req, s[i])
      <4>1. Tour[i - 1] = Manifest => IsManifest(s[i].body)
        BY <2>3, BodiesFit
      <4>2. Makes(req) /\ s[i].path \in Generated /\ s[i].whole \in BOOLEAN
        BY <2>3
      <4>3. QED
        BY <4>1, <4>2, <2>3 DEF ItemFits
    <3>2. ItemFits(req, s[1])
      BY <1>2, <2>4 DEF ItemFits
    <3>3. \A i \in 1 .. 5 : i = 1 \/ i \in 2 .. 5
      OBVIOUS
    <3>4. QED
      BY <3>1, <3>2, <3>3
  <2>6. s \in Seq({s[i] : i \in DOMAIN s})
    <3>1. CreatePlan(req) \in [1 .. 5 -> {CreatePlan(req)[i] : i \in 1 .. 5}]
      BY DEF CreatePlan
    <3>2. CreatePlan(req) \in Seq({CreatePlan(req)[i] : i \in 1 .. 5})
      BY <3>1, FunctionIsSeq
    <3>3. QED
      BY <1>2, <2>1, <3>2 DEF Script
  <2>7. \A i, j \in 1 .. 5 : HasFile(s[i]) /\ HasFile(s[j]) /\ s[i].path = s[j].path => i = j
    BY <2>2, <2>3, <2>4
  <2>8. \A p \in Generated : \E i \in 1 .. 5 :
           HasFile(s[i]) /\ s[i].path = p /\ s[i].body = ScriptBody(req, p)
    <3>1. ASSUME NEW p \in Generated
          PROVE  \E i \in 1 .. 5 :
                   HasFile(s[i]) /\ s[i].path = p /\ s[i].body = ScriptBody(req, p)
      <4>1. PICK k \in 1 .. 4 : Tour[k] = p
        BY <2>2
      <4>2. k + 1 \in 2 .. 5 /\ (k + 1) - 1 = k
        OBVIOUS
      <4>3. QED
        BY <2>3, <4>1, <4>2
    <3>2. QED
      BY <3>1
  <2>9. \A i \in 1 .. 5 : (HasFile(s[i]) <=> s[i].step = "file") /\ (HasFile(s[i]) => s[i].whole)
    BY <2>3, <2>4
  <2>10. QED
    BY <1>2, <2>1, <2>5, <2>6, <2>7, <2>8, <2>9
<1>3. QED
  BY <1>1, <1>2

(* A sequence is one over its own elements, and its tail has no others.     *)
LEMMA TailElements ==
    ASSUME NEW s, s \in Seq({s[i] : i \in DOMAIN s}), s # <<>>
    PROVE  /\ Tail(s) \in Seq({Tail(s)[i] : i \in DOMAIN Tail(s)})
           /\ \A i \in DOMAIN Tail(s) : \E j \in DOMAIN s : Tail(s)[i] = s[j]
           /\ 1 \in DOMAIN s /\ Head(s) = s[1]
<1> DEFINE S == {s[i] : i \in DOMAIN s}
<1>1. s \in Seq(S) /\ DOMAIN s = 1 .. Len(s) /\ Len(s) \in Nat
  BY LenProperties
<1>2. /\ Tail(s) \in Seq(S) /\ Len(Tail(s)) = Len(s) - 1
      /\ \A i \in 1 .. Len(Tail(s)) : Tail(s)[i] = s[i + 1]
  BY <1>1, HeadTailProperties
<1> HIDE DEF S
<1>3. Len(s) \in Nat \ {0}
  BY <1>1, EmptySeq
<1>4. Len(Tail(s)) \in Nat /\ DOMAIN Tail(s) = 1 .. Len(Tail(s)) /\ Tail(s) \in [1 .. Len(Tail(s)) -> S]
  BY <1>2, LenProperties
<1>5. Tail(s) \in [1 .. Len(Tail(s)) -> {Tail(s)[i] : i \in DOMAIN Tail(s)}]
  BY <1>4
<1>6. Tail(s) \in Seq({Tail(s)[i] : i \in DOMAIN Tail(s)})
  BY <1>4, <1>5, FunctionIsSeq
<1>7. \A i \in DOMAIN Tail(s) : i + 1 \in DOMAIN s
  BY <1>1, <1>2, <1>3, <1>4
<1>8. Head(s) = s[1] /\ 1 \in DOMAIN s
  BY <1>1, <1>3
<1>9. QED
  BY <1>2, <1>4, <1>6, <1>7, <1>8

-----------------------------------------------------------------------------
(* One command takes a step.                                                *)

LEMMA CommandParts ==
    ASSUME IInv, NEW c \in Running
    PROVE  /\ c \in Commands /\ CommandFits(cmds[c]) /\ PlanFits(cmds[c]) /\ RequestFits(cmds[c])
           /\ cmds[c].req \in Requests /\ cmds[c].reply = "none"
           /\ cmds[c].pc \notin {"off", "done"}
           /\ c \notin disturbed /\ Making(cmds[c]) => OnCourse(c, cmds[c], files, temps, git)
<1>1. c \in Commands /\ cmds[c].pc \notin {"off", "done"}
  BY DEF Running
<1>2. CommandFits(cmds[c])
  BY <1>1 DEF IInv
<1>3. QED
  BY <1>1, <1>2 DEF IInv, CommandFits, RequestFits

LEMMA StepKeeps ==
    ASSUME IInv, NEW c \in Running, NEW r, cmds' = [cmds EXCEPT ![c] = r],
           CommandFits(r), r.pc # "off", DirectoryFits',
           UNCHANGED disturbed, kills' \in 0 .. MaxKills, edits' \in 0 .. MaxEdits,
           (r.pc # "done" /\ c \notin disturbed /\ Making(r)) => OnCourse(c, r, files', temps', git')
    PROVE  IInv'
<1>1. c \in Commands /\ cmds = [d \in Commands |-> cmds[d]]
  BY CommandParts DEF IInv
<1>2. cmds'[c] = r /\ \A d \in Commands : d # c => cmds'[d] = cmds[d]
  BY <1>1
<1>3. cmds' = [d \in Commands |-> cmds'[d]]
  BY <1>1
<1>4. \A d \in Commands : CommandFits(cmds'[d])
  BY <1>2 DEF IInv
<1>5. ASSUME NEW d \in Running' \ disturbed'
      PROVE  /\ Running' = {d}
             /\ Making(cmds'[d]) => OnCourse(d, cmds'[d], files', temps', git')
  <2>1. Running' \subseteq Running /\ Running \subseteq Commands
    BY <1>1, <1>2 DEF Running
  <2>2. Running = {d}
    BY <2>1 DEF IInv
  <2>3. d = c /\ r.pc # "done"
    BY <1>2, <1>5, <2>2 DEF Running
  <2>4. QED
    BY <1>2, <2>1, <2>2, <2>3
<1>6. QED
  BY <1>3, <1>4, <1>5 DEF IInv

(* The directory while a command goes on with its request.                  *)
LEMMA OthersFiles ==
    ASSUME IInv, NEW c \in Running, NEW r, cmds' = [cmds EXCEPT ![c] = r], r.req = cmds[c].req,
           r.pc # "off", NEW p \in Paths, NEW f, FileFits(p, f, cmds)
    PROVE  FileFits(p, f, cmds')
<1>1. c \in Commands /\ cmds = [d \in Commands |-> cmds[d]]
  BY CommandParts DEF IInv
<1>2. \A d \in Commands : cmds'[d].req = cmds[d].req /\ (cmds[d].pc # "off" => cmds'[d].pc # "off")
  BY <1>1
<1>3. QED
  BY <1>2 DEF FileFits

LEMMA OthersTemps ==
    ASSUME IInv, NEW c \in Running, NEW r, cmds' = [cmds EXCEPT ![c] = r],
           NEW t, TempFits(t, cmds),
           t[1] = c => r.pc = "done" /\ r.reply = "killed"
    PROVE  TempFits(t, cmds')
<1>1. c \in Commands /\ cmds = [d \in Commands |-> cmds[d]]
  BY CommandParts DEF IInv
<1>2. t[1] \in Commands
  BY DEF TempFits
<1>3. cmds'[t[1]] = IF t[1] = c THEN r ELSE cmds[t[1]]
  BY <1>1, <1>2
<1>4. QED
  BY <1>3 DEF TempFits

LEMMA OwnTemps ==
    ASSUME IInv, NEW c \in Running, NEW t \in temps, t[1] = c
    PROVE  cmds[c].pc = "persist" /\ t[2] = Head(cmds[c].plan).path /\ t = <<c, t[2]>>
<1>1. TempFits(t, cmds) /\ cmds[c].pc # "done"
  BY CommandParts DEF IInv, DirectoryFits
<1>2. QED
  BY <1>1 DEF TempFits

LEMMA DirectoryStays ==
    ASSUME IInv, NEW c \in Running, NEW r, cmds' = [cmds EXCEPT ![c] = r], r.req = cmds[c].req,
           r.pc # "off", UNCHANGED <<dir, git>>,
           cmds[c].pc = "persist" => r.pc = "done" /\ r.reply = "killed"
    PROVE  DirectoryFits'
<1>1. \A p \in Paths : FileFits(p, files[p], cmds')
  BY OthersFiles DEF IInv, DirectoryFits
<1>2. \A t \in temps : TempFits(t, cmds')
  BY OthersTemps, OwnTemps DEF IInv, DirectoryFits
<1>3. NonEmpty' = NonEmpty
  BY DEF NonEmpty, dir
<1>4. QED
  BY <1>1, <1>2, <1>3 DEF IInv, DirectoryFits, dir

(* A step that leaves the project as it is and goes on with the request.    *)
LEMMA QuietStep ==
    ASSUME IInv, NEW c \in Running, NEW r, cmds' = [cmds EXCEPT ![c] = r], r.req = cmds[c].req,
           CommandFits(r), r.pc # "off", cmds[c].pc # "persist", UNCHANGED <<dir, git, hist>>,
           (r.pc # "done" /\ c \notin disturbed /\ Making(r)) => OnCourse(c, r, files, temps, git)
    PROVE  IInv'
<1>1. DirectoryFits'
  BY DirectoryStays
<1>2. (r.pc # "done" /\ c \notin disturbed /\ Making(r)) => OnCourse(c, r, files', temps', git')
  BY DEF dir
<1>3. UNCHANGED disturbed /\ kills' \in 0 .. MaxKills /\ edits' \in 0 .. MaxEdits
  BY DEF hist, IInv
<1>4. QED
  BY <1>1, <1>2, <1>3, StepKeeps

Left(r, reply) == [r EXCEPT !.pc = "done", !.reply = reply, !.plan = <<>>, !.read = Blank]

LEMMA LeftRecord ==
    ASSUME NEW pc, NEW req, NEW plan, NEW read, NEW reply, NEW g, NEW answer
    PROVE  Left([pc |-> pc, req |-> req, plan |-> plan, read |-> read, reply |-> reply, git |-> g],
                answer)
             = [pc |-> "done", req |-> req, plan |-> <<>>, read |-> Blank, reply |-> answer, git |-> g]
<1> DEFINE R(p, l, d, a) == [pc |-> p, req |-> req, plan |-> l, read |-> d, reply |-> a, git |-> g]
<1>1. [R(pc, plan, read, reply) EXCEPT !.pc = "done"] = R("done", plan, read, reply)
  OBVIOUS
<1>2. [R("done", plan, read, reply) EXCEPT !.reply = answer] = R("done", plan, read, answer)
  OBVIOUS
<1>3. [R("done", plan, read, answer) EXCEPT !.plan = <<>>] = R("done", <<>>, read, answer)
  OBVIOUS
<1>4. [R("done", <<>>, read, answer) EXCEPT !.read = Blank] = R("done", <<>>, Blank, answer)
  OBVIOUS
<1>5. Left(R(pc, plan, read, reply), answer)
        = [[[[R(pc, plan, read, reply) EXCEPT !.pc = "done"] EXCEPT !.reply = answer]
              EXCEPT !.plan = <<>>] EXCEPT !.read = Blank]
  BY DEF Left
<1>6. QED
  BY <1>1, <1>2, <1>3, <1>4, <1>5

LEMMA ExitFits ==
    ASSUME IInv, NEW c \in Running, NEW reply \in {"ok", "failed", "killed"}, Exit(c, reply)
    PROVE  /\ cmds' = [cmds EXCEPT ![c] = Left(cmds[c], reply)]
           /\ CommandFits(Left(cmds[c], reply))
           /\ Left(cmds[c], reply).pc = "done" /\ Left(cmds[c], reply).req = cmds[c].req
           /\ Left(cmds[c], reply).reply = reply
<1> DEFINE r == Left(cmds[c], reply)
<1>1. /\ CommandFits(cmds[c]) /\ cmds[c].req \in Requests /\ c \in Commands
      /\ cmds[c].pc # "off"
  BY CommandParts
<1>2. cmds[c] = [pc |-> cmds[c].pc, req |-> cmds[c].req, plan |-> cmds[c].plan,
                 read |-> cmds[c].read, reply |-> cmds[c].reply, git |-> cmds[c].git]
  BY <1>1 DEF CommandFits
<1>3. r = [pc |-> "done", req |-> cmds[c].req, plan |-> <<>>, read |-> Blank, reply |-> reply,
           git |-> cmds[c].git]
  BY <1>2, LeftRecord
<1>4. cmds' = [cmds EXCEPT ![c] = r]
  BY <1>1 DEF Exit, Leave, Left
<1>5. PlanFits(r)
  <2>1. <<>> \in Seq({<<>>[i] : i \in DOMAIN <<>>}) /\ DOMAIN <<>> = {}
    OBVIOUS
  <2>2. QED
    BY <1>3, <2>1 DEF PlanFits
<1>6. RequestFits(r)
  BY <1>1, <1>3 DEF RequestFits, NewPlaces, WizardPlaces
<1>7. cmds[c].git # "none" => cmds[c].req.kind = "new"
  BY <1>1 DEF CommandFits
<1>8. CommandFits(r)
  <2>1. r.pc = "done" /\ r.reply = reply /\ r.req = cmds[c].req /\ r.git = cmds[c].git
    BY <1>3
  <2>2. r = [pc |-> r.pc, req |-> r.req, plan |-> r.plan, read |-> r.read, reply |-> r.reply,
             git |-> r.git]
    BY <1>3
  <2> HIDE DEF r
  <2>3. QED
    BY <2>1, <2>2, <1>5, <1>6, <1>7 DEF CommandFits
<1>9. QED
  BY <1>3, <1>4, <1>8

(* A command ends and leaves the project as it is.                          *)
LEMMA ExitKeeps ==
    ASSUME IInv, NEW c \in Running, NEW reply \in {"ok", "failed"}, Exit(c, reply),
           cmds[c].pc # "persist", UNCHANGED <<dir, git, hist>>
    PROVE  IInv'
  BY ExitFits, QuietStep

LEMMA EmptyHanded ==
    ASSUME IInv, NEW c \in Running, cmds[c].pc # "persist"
    PROVE  \A t \in temps : t[1] # c
  BY OwnTemps

(* A command goes on: its record, whichever of its fields the step sets.    *)
Moved(r, l, plan, read, g) ==
  [pc |-> l, req |-> r.req, plan |-> plan, read |-> read, reply |-> r.reply, git |-> g]

LEMMA MovedParts ==
    ASSUME NEW r, NEW l, NEW plan, NEW read, NEW g
    PROVE  LET m == Moved(r, l, plan, read, g)
           IN /\ m.pc = l /\ m.req = r.req /\ m.plan = plan /\ m.read = read
              /\ m.reply = r.reply /\ m.git = g
              /\ m = [pc |-> m.pc, req |-> m.req, plan |-> m.plan, read |-> m.read,
                       reply |-> m.reply, git |-> m.git]
  BY DEF Moved

(* A running command and the functions of all commands.                     *)
LEMMA WholeCommand ==
    ASSUME IInv, NEW c \in Running
    PROVE  /\ c \in Commands /\ cmds = [d \in Commands |-> cmds[d]]
           /\ cmds[c] = Moved(cmds[c], cmds[c].pc, cmds[c].plan, cmds[c].read, cmds[c].git)
<1>1. c \in Commands /\ CommandFits(cmds[c]) /\ cmds = [d \in Commands |-> cmds[d]]
  BY CommandParts DEF IInv
<1>2. QED
  BY <1>1 DEF CommandFits, Moved

(* The updates of a command's record that the steps are written with.      *)
WithPlace(cs, c, l) == [cs EXCEPT ![c].pc = l]
WithPlan(cs, c, plan) == [cs EXCEPT ![c].plan = plan]
WithPlacePlan(cs, c, l, plan) == [cs EXCEPT ![c].pc = l, ![c].plan = plan]
WithPlaceRead(cs, c, l, read) == [cs EXCEPT ![c].pc = l, ![c].read = read]
WithPlaceGit(cs, c, l, g) == [cs EXCEPT ![c].pc = l, ![c].git = g]
WithPlaceReadPlan(cs, c, l, read, plan) == [cs EXCEPT ![c].pc = l, ![c].read = read, ![c].plan = plan]

LEMMA GotoMoves ==
    ASSUME IInv, NEW c \in Running, NEW l, NEW q,
           q = Moved(cmds[c], l, cmds[c].plan, cmds[c].read, cmds[c].git)
    PROVE  WithPlace(cmds, c, l) = [cmds EXCEPT ![c] = q]
<1>1. [cmds EXCEPT ![c].pc = l] = [cmds EXCEPT ![c] = [cmds[c] EXCEPT !.pc = l]]
  BY WholeCommand
<1>2. PICK r : r = cmds[c]
  OBVIOUS
<1>3. r = Moved(r, r.pc, r.plan, r.read, r.git)
  BY <1>2, WholeCommand
<1>4. [Moved(r, r.pc, r.plan, r.read, r.git) EXCEPT !.pc = l] = Moved(r, l, r.plan, r.read, r.git)
  BY DEF Moved
<1>5. [r EXCEPT !.pc = l] = Moved(r, l, r.plan, r.read, r.git)
  BY <1>3, <1>4
<1>6. QED
  BY <1>1, <1>2, <1>5 DEF WithPlace

LEMMA PlannedMoves ==
    ASSUME IInv, NEW c \in Running, NEW plan, NEW q,
           q = Moved(cmds[c], cmds[c].pc, plan, cmds[c].read, cmds[c].git)
    PROVE  WithPlan(cmds, c, plan) = [cmds EXCEPT ![c] = q]
<1>1. [cmds EXCEPT ![c].plan = plan] = [cmds EXCEPT ![c] = [cmds[c] EXCEPT !.plan = plan]]
  BY WholeCommand
<1>2. PICK r : r = cmds[c]
  OBVIOUS
<1>3. r = Moved(r, r.pc, r.plan, r.read, r.git)
  BY <1>2, WholeCommand
<1>4. [Moved(r, r.pc, r.plan, r.read, r.git) EXCEPT !.plan = plan] = Moved(r, r.pc, plan, r.read, r.git)
  BY DEF Moved
<1>5. [r EXCEPT !.plan = plan] = Moved(r, r.pc, plan, r.read, r.git)
  BY <1>3, <1>4
<1>6. QED
  BY <1>1, <1>2, <1>5 DEF WithPlan

LEMMA OnwardMoves ==
    ASSUME IInv, NEW c \in Running, NEW l, NEW plan, NEW q,
           q = Moved(cmds[c], l, plan, cmds[c].read, cmds[c].git)
    PROVE  WithPlacePlan(cmds, c, l, plan) = [cmds EXCEPT ![c] = q]
<1>1. [cmds EXCEPT ![c].pc = l, ![c].plan = plan] = [cmds EXCEPT ![c] = [cmds[c] EXCEPT !.pc = l, !.plan = plan]]
  BY WholeCommand
<1>2. PICK r : r = cmds[c]
  OBVIOUS
<1>3. r = Moved(r, r.pc, r.plan, r.read, r.git)
  BY <1>2, WholeCommand
<1>4. [Moved(r, r.pc, r.plan, r.read, r.git) EXCEPT !.pc = l] = Moved(r, l, r.plan, r.read, r.git)
  BY DEF Moved
<1>5. [Moved(r, l, r.plan, r.read, r.git) EXCEPT !.plan = plan] = Moved(r, l, plan, r.read, r.git)
  BY DEF Moved
<1>6. [r EXCEPT !.pc = l, !.plan = plan] = [[r EXCEPT !.pc = l] EXCEPT !.plan = plan]
  OBVIOUS
<1>7. [r EXCEPT !.pc = l, !.plan = plan] = Moved(r, l, plan, r.read, r.git)
  BY <1>3, <1>4, <1>5, <1>6
<1>8. QED
  BY <1>1, <1>2, <1>7 DEF WithPlacePlan

LEMMA ReadMoves ==
    ASSUME IInv, NEW c \in Running, NEW l, NEW read, NEW q,
           q = Moved(cmds[c], l, cmds[c].plan, read, cmds[c].git)
    PROVE  WithPlaceRead(cmds, c, l, read) = [cmds EXCEPT ![c] = q]
<1>1. [cmds EXCEPT ![c].pc = l, ![c].read = read] = [cmds EXCEPT ![c] = [cmds[c] EXCEPT !.pc = l, !.read = read]]
  BY WholeCommand
<1>2. PICK r : r = cmds[c]
  OBVIOUS
<1>3. r = Moved(r, r.pc, r.plan, r.read, r.git)
  BY <1>2, WholeCommand
<1>4. [Moved(r, r.pc, r.plan, r.read, r.git) EXCEPT !.pc = l] = Moved(r, l, r.plan, r.read, r.git)
  BY DEF Moved
<1>5. [Moved(r, l, r.plan, r.read, r.git) EXCEPT !.read = read] = Moved(r, l, r.plan, read, r.git)
  BY DEF Moved
<1>6. [r EXCEPT !.pc = l, !.read = read] = [[r EXCEPT !.pc = l] EXCEPT !.read = read]
  OBVIOUS
<1>7. [r EXCEPT !.pc = l, !.read = read] = Moved(r, l, r.plan, read, r.git)
  BY <1>3, <1>4, <1>5, <1>6
<1>8. QED
  BY <1>1, <1>2, <1>7 DEF WithPlaceRead

LEMMA ReportMoves ==
    ASSUME IInv, NEW c \in Running, NEW l, NEW g, NEW q,
           q = Moved(cmds[c], l, cmds[c].plan, cmds[c].read, g)
    PROVE  WithPlaceGit(cmds, c, l, g) = [cmds EXCEPT ![c] = q]
<1>1. [cmds EXCEPT ![c].pc = l, ![c].git = g] = [cmds EXCEPT ![c] = [cmds[c] EXCEPT !.pc = l, !.git = g]]
  BY WholeCommand
<1>2. PICK r : r = cmds[c]
  OBVIOUS
<1>3. r = Moved(r, r.pc, r.plan, r.read, r.git)
  BY <1>2, WholeCommand
<1>4. [Moved(r, r.pc, r.plan, r.read, r.git) EXCEPT !.pc = l] = Moved(r, l, r.plan, r.read, r.git)
  BY DEF Moved
<1>5. [Moved(r, l, r.plan, r.read, r.git) EXCEPT !.git = g] = Moved(r, l, r.plan, r.read, g)
  BY DEF Moved
<1>6. [r EXCEPT !.pc = l, !.git = g] = [[r EXCEPT !.pc = l] EXCEPT !.git = g]
  OBVIOUS
<1>7. [r EXCEPT !.pc = l, !.git = g] = Moved(r, l, r.plan, r.read, g)
  BY <1>3, <1>4, <1>5, <1>6
<1>8. QED
  BY <1>1, <1>2, <1>7 DEF WithPlaceGit

LEMMA RewriteMoves ==
    ASSUME IInv, NEW c \in Running, NEW l, NEW read, NEW plan, NEW q,
           q = Moved(cmds[c], l, plan, read, cmds[c].git)
    PROVE  WithPlaceReadPlan(cmds, c, l, read, plan) = [cmds EXCEPT ![c] = q]
<1>1. [cmds EXCEPT ![c].pc = l, ![c].read = read, ![c].plan = plan] = [cmds EXCEPT ![c] = [cmds[c] EXCEPT !.pc = l, !.read = read, !.plan = plan]]
  BY WholeCommand
<1>2. PICK r : r = cmds[c]
  OBVIOUS
<1>3. r = Moved(r, r.pc, r.plan, r.read, r.git)
  BY <1>2, WholeCommand
<1>4. [Moved(r, r.pc, r.plan, r.read, r.git) EXCEPT !.pc = l] = Moved(r, l, r.plan, r.read, r.git)
  BY DEF Moved
<1>5. [Moved(r, l, r.plan, r.read, r.git) EXCEPT !.read = read] = Moved(r, l, r.plan, read, r.git)
  BY DEF Moved
<1>6. [Moved(r, l, r.plan, read, r.git) EXCEPT !.plan = plan] = Moved(r, l, plan, read, r.git)
  BY DEF Moved
<1>7. [r EXCEPT !.pc = l, !.read = read, !.plan = plan] = [[[r EXCEPT !.pc = l] EXCEPT !.read = read] EXCEPT !.plan = plan]
  OBVIOUS
<1>8. [r EXCEPT !.pc = l, !.read = read, !.plan = plan] = Moved(r, l, plan, read, r.git)
  BY <1>3, <1>4, <1>5, <1>6, <1>7
<1>9. QED
  BY <1>1, <1>2, <1>8 DEF WithPlaceReadPlan

LEMMA MovedFits ==
    ASSUME IInv, NEW c \in Running, NEW l, NEW plan, NEW read, NEW g,
           l \in NewPlaces \cup WizardPlaces \cup {"chmod"},
           g # "none" => cmds[c].req.kind = "new",
           RequestFits(Moved(cmds[c], l, plan, read, g)), PlanFits(Moved(cmds[c], l, plan, read, g))
    PROVE  CommandFits(Moved(cmds[c], l, plan, read, g)) /\ l \notin {"off", "done"}
<1> DEFINE r == Moved(cmds[c], l, plan, read, g)
<1>1. /\ r.pc = l /\ r.req = cmds[c].req /\ r.reply = cmds[c].reply /\ r.git = g
      /\ r = [pc |-> r.pc, req |-> r.req, plan |-> r.plan, read |-> r.read, reply |-> r.reply,
              git |-> r.git]
  BY MovedParts
<1>2. cmds[c].reply = "none"
  BY CommandParts
<1>3. l \notin {"off", "done"}
  BY DEF NewPlaces, WizardPlaces
<1> HIDE DEF r
<1>4. QED
  BY <1>1, <1>2, <1>3 DEF CommandFits, r

-----------------------------------------------------------------------------
(* Along a script.                                                          *)

LEMMA Suffix ==
    ASSUME NEW S, NEW s \in Seq(S), NEW k \in 1 .. Len(s) + 1
    PROVE  /\ SubSeq(s, k, Len(s)) = <<>> <=> k = Len(s) + 1
           /\ SubSeq(s, k, Len(s)) # <<>> =>
                /\ k \in 1 .. Len(s) /\ k + 1 \in 1 .. Len(s) + 1
                /\ Head(SubSeq(s, k, Len(s))) = s[k]
                /\ Tail(SubSeq(s, k, Len(s))) = SubSeq(s, k + 1, Len(s))
<1>1. Len(s) \in Nat /\ k \in Int /\ Len(s) \in Int
  OBVIOUS
<1>2. CASE k = Len(s) + 1
  BY <1>1, <1>2, SubSeqEmpty
<1>3. CASE k # Len(s) + 1
  <2>1. k \in 1 .. Len(s) /\ Len(s) \in k .. Len(s) /\ k + 1 \in 1 .. Len(s) + 1
    BY <1>1, <1>3
  <2>2. \A i \in k .. Len(s) : s[i] \in S
    BY <1>1
  <2>3. Len(SubSeq(s, k, Len(s))) = Len(s) - k + 1
    BY <1>1, <2>1, <2>2, SubSeqProperties
  <2>4. Len(<<>>) = 0 /\ Len(s) - k + 1 # 0
    BY <1>1, <2>1
  <2>5. SubSeq(s, k, Len(s)) # <<>>
    BY <2>3, <2>4
  <2>6. QED
    BY <1>3, <2>1, <2>5, HeadTailOfSubSeq
<1>4. QED
  BY <1>2, <1>3

LEMMA UnderwayHead ==
    ASSUME NEW c, NEW r, r.req \in Requests, Makes(r.req), NEW fs, Underway(c, r, fs),
           r.plan # <<>>
    PROVE  LET s == Script(r.req)
           IN \E k \in 1 .. Len(s) :
                /\ Len(s) \in Nat /\ k + 1 \in 1 .. Len(s) + 1 /\ k \in DOMAIN s
                /\ r.plan = SubSeq(s, k, Len(s)) /\ Head(r.plan) = s[k]
                /\ Tail(r.plan) = SubSeq(s, k + 1, Len(s))
                /\ \A j \in 1 .. k - 1 : HasFile(s[j]) =>
                     /\ Delivered(c, s[j], fs[s[j].path]) /\ s[j].path \in Paths
                     /\ HasFile(s[k]) => s[j].path # s[k].path
<1> DEFINE s == Script(r.req)
<1>1. /\ s \in Seq({s[i] : i \in DOMAIN s}) /\ Len(s) \in Nat /\ DOMAIN s = 1 .. Len(s)
      /\ \A i \in DOMAIN s : ItemFits(r.req, s[i])
      /\ \A i, j \in DOMAIN s : HasFile(s[i]) /\ HasFile(s[j]) /\ s[i].path = s[j].path => i = j
      /\ \A i \in DOMAIN s : HasFile(s[i]) <=> (r.req.kind = "new" \/ s[i].step = "file")
  BY ScriptFits
<1>2. PICK k \in 1 .. Len(s) + 1 :
        /\ r.plan = SubSeq(s, k, Len(s))
        /\ \A j \in 1 .. k - 1 : HasFile(s[j]) => Delivered(c, s[j], fs[s[j].path])
  BY DEF Underway
<1>3. /\ k \in 1 .. Len(s) /\ k + 1 \in 1 .. Len(s) + 1
      /\ Head(r.plan) = s[k] /\ Tail(r.plan) = SubSeq(s, k + 1, Len(s))
  <2>1. SubSeq(s, k, Len(s)) # <<>>
    BY <1>2
  <2> HIDE DEF s
  <2>2. QED
    BY <1>1, <1>2, <2>1, Suffix
<1>4. ASSUME NEW j \in 1 .. k - 1, HasFile(s[j])
      PROVE  /\ Delivered(c, s[j], fs[s[j].path]) /\ s[j].path \in Paths
             /\ HasFile(s[k]) => s[j].path # s[k].path
  <2>1. j \in DOMAIN s /\ k \in DOMAIN s /\ j # k
    BY <1>1, <1>3
  <2>2. s[j].path \in Paths
    BY <1>1, <1>4, <2>1 DEF ItemFits, Paths, Generated
  <2>3. QED
    BY <1>1, <1>2, <1>4, <2>1, <2>2
<1> HIDE DEF s
<1>5. QED
  BY <1>1, <1>2, <1>3, <1>4 DEF s

LEMMA UnderwayAdvances ==
    ASSUME NEW c, NEW r, r.req \in Requests, Makes(r.req), NEW fs, Underway(c, r, fs),
           r.plan # <<>>, NEW q, NEW gs, q.req = r.req, q.plan = Tail(r.plan),
           q.pc \notin {"fill", "chmod"},
           HasFile(Head(r.plan)) => Delivered(c, Head(r.plan), gs[Head(r.plan).path]),
           \A p \in Paths : gs[p] = fs[p] \/ (HasFile(Head(r.plan)) /\ p = Head(r.plan).path)
    PROVE  Underway(c, q, gs)
<1> DEFINE s == Script(r.req)
<1>1. PICK k \in 1 .. Len(s) :
        /\ Len(s) \in Nat /\ k + 1 \in 1 .. Len(s) + 1
        /\ r.plan = SubSeq(s, k, Len(s)) /\ Head(r.plan) = s[k]
        /\ Tail(r.plan) = SubSeq(s, k + 1, Len(s))
        /\ \A j \in 1 .. k - 1 : HasFile(s[j]) =>
             /\ Delivered(c, s[j], fs[s[j].path]) /\ s[j].path \in Paths
             /\ HasFile(s[k]) => s[j].path # s[k].path
  BY UnderwayHead
<1>2. ASSUME NEW j \in 1 .. (k + 1) - 1, HasFile(s[j])
      PROVE  Delivered(c, s[j], gs[s[j].path])
  <2>1. CASE j = k
    BY <1>1, <1>2, <2>1
  <2>2. CASE j # k
    <3>1. j \in 1 .. k - 1
      BY <1>1, <2>2
    <3>2. QED
      BY <1>1, <1>2, <3>1
  <2>3. QED
    BY <2>1, <2>2
<1> HIDE DEF s
<1>3. QED
  BY <1>1, <1>2 DEF Underway, s

LEMMA UnderwayStays ==
    ASSUME NEW c, NEW r, r.req \in Requests, Makes(r.req), NEW fs, Underway(c, r, fs),
           r.plan # <<>>, NEW q, NEW gs, q.req = r.req, q.plan = r.plan,
           q.pc = "fill" => gs[Head(r.plan).path].by = c,
           q.pc = "chmod" => Put(c, Head(r.plan), gs[Head(r.plan).path]),
           \A p \in Paths : gs[p] = fs[p] \/ (HasFile(Head(r.plan)) /\ p = Head(r.plan).path)
    PROVE  Underway(c, q, gs)
<1> DEFINE s == Script(r.req)
<1>1. PICK k \in 1 .. Len(s) :
        /\ Len(s) \in Nat /\ k + 1 \in 1 .. Len(s) + 1
        /\ r.plan = SubSeq(s, k, Len(s)) /\ Head(r.plan) = s[k]
        /\ Tail(r.plan) = SubSeq(s, k + 1, Len(s))
        /\ \A j \in 1 .. k - 1 : HasFile(s[j]) =>
             /\ Delivered(c, s[j], fs[s[j].path]) /\ s[j].path \in Paths
             /\ HasFile(s[k]) => s[j].path # s[k].path
  BY UnderwayHead
<1>2. \A j \in 1 .. k - 1 : HasFile(s[j]) => Delivered(c, s[j], gs[s[j].path])
  BY <1>1
<1>3. k \in 1 .. Len(s) + 1
  BY <1>1
<1> HIDE DEF s
<1>4. QED
  BY <1>1, <1>2, <1>3 DEF Underway, s

LEMMA UnderwayKeeps ==
    ASSUME NEW c, NEW r, NEW fs, Underway(c, r, fs), NEW q, q.req = r.req, q.plan = r.plan,
           q.pc \notin {"fill", "chmod"}
    PROVE  Underway(c, q, fs)
  BY DEF Underway

LEMMA UnderwayBegins ==
    ASSUME NEW c, NEW q, q.req \in Requests, Makes(q.req), q.plan = Script(q.req),
           q.pc \notin {"fill", "chmod"}, NEW fs
    PROVE  Underway(c, q, fs)
<1> DEFINE s == Script(q.req)
<1>1. s \in Seq({s[i] : i \in DOMAIN s}) /\ Len(s) \in Nat
  BY ScriptFits
<1>2. q.plan = SubSeq(s, 1, Len(s)) /\ 1 \in 1 .. Len(s) + 1 /\ 1 .. 1 - 1 = {}
  BY <1>1, SubSeqFull
<1> HIDE DEF s
<1>3. QED
  BY <1>2 DEF Underway, s

-----------------------------------------------------------------------------
(* What a step of a command has to keep.                                    *)

LEMMA Ongoing ==
    ASSUME NEW c \in Commands, cmds[c].pc \notin {"off", "done"}
    PROVE  c \in Running
  BY DEF Running

LEMMA NewRequestFits ==
    ASSUME NEW q, q.pc \in NewPlaces, q.req \in Requests, q.req.kind = "new"
    PROVE  RequestFits(q)
  BY DEF RequestFits, NewPlaces, WizardPlaces

LEMMA PlanKeeps ==
    ASSUME NEW r, PlanFits(r), NEW q, q.plan = r.plan, q.req = r.req,
           q.pc \notin {"off", "done"},
           q.pc \in {"persist", "chmod", "fill"} => r.plan # <<>>,
           q.pc \in Written => r.plan = <<>>,
           (q.pc = "fill" \/ (q.pc = "chmod" /\ q.req.kind = "wizard")) => Head(r.plan).step = "file"
    PROVE  PlanFits(q)
  BY DEF PlanFits

LEMMA PlanTail ==
    ASSUME NEW r, PlanFits(r), r.plan # <<>>, NEW q, q.plan = Tail(r.plan), q.req = r.req,
           q.pc \in {"open", "step"}
    PROVE  PlanFits(q)
<1>1. /\ Tail(r.plan) \in Seq({Tail(r.plan)[i] : i \in DOMAIN Tail(r.plan)})
      /\ \A i \in DOMAIN Tail(r.plan) : \E j \in DOMAIN r.plan : Tail(r.plan)[i] = r.plan[j]
  BY TailElements DEF PlanFits
<1>2. \A i \in DOMAIN q.plan : ItemFits(q.req, q.plan[i])
  BY <1>1 DEF PlanFits
<1>3. q.plan \in Seq({q.plan[i] : i \in DOMAIN q.plan})
  BY <1>1
<1>4. QED
  BY <1>2, <1>3 DEF PlanFits, Written

LEMMA PlanBegins ==
    ASSUME NEW q, q.req \in Requests, Makes(q.req), q.plan = Script(q.req),
           q.pc \in {"open", "output"}
    PROVE  PlanFits(q)
<1>1. /\ Script(q.req) \in Seq({Script(q.req)[i] : i \in DOMAIN Script(q.req)})
      /\ \A i \in DOMAIN Script(q.req) : ItemFits(q.req, Script(q.req)[i])
  BY ScriptFits
<1>2. q.plan \in Seq({q.plan[i] : i \in DOMAIN q.plan})
  BY <1>1
<1>3. \A i \in DOMAIN q.plan : ItemFits(q.req, q.plan[i])
  BY <1>1
<1>4. QED
  BY <1>2, <1>3 DEF PlanFits, Written

(* The next file of a command's plan.                                       *)
LEMMA NextItem ==
    ASSUME NEW r, PlanFits(r), r.plan # <<>>
    PROVE  ItemFits(r.req, Head(r.plan))
  BY TailElements DEF PlanFits

(* A command goes on and leaves the project as it is.                       *)
LEMMA QuietMove ==
    ASSUME IInv, NEW c \in Running, NEW q, NEW l, NEW plan, NEW read, NEW g,
           q = Moved(cmds[c], l, plan, read, g), cmds' = [cmds EXCEPT ![c] = q],
           l \in NewPlaces \cup WizardPlaces \cup {"chmod"},
           g # "none" => cmds[c].req.kind = "new",
           RequestFits(q), PlanFits(q),
           cmds[c].pc # "persist", UNCHANGED <<dir, git, hist>>,
           (c \notin disturbed /\ Making(q)) => OnCourse(c, q, files, temps, git)
    PROVE  IInv'
<1>1. CommandFits(q) /\ q.req = cmds[c].req /\ q.pc # "off"
  BY MovedFits, MovedParts
<1>2. QED
  BY <1>1, QuietStep

LEMMA StillMaking ==
    ASSUME IInv, NEW c \in Running, NEW q, q.req = cmds[c].req, c \notin disturbed, Making(q),
           cmds[c].pc \notin {"check", "resolve", "clear"}
    PROVE  /\ Making(cmds[c]) /\ OnCourse(c, cmds[c], files, temps, git)
           /\ q.req \in Requests /\ Makes(q.req)
  BY CommandParts DEF Making

-----------------------------------------------------------------------------
(* The steps of new.                                                        *)

LEMMA NewCommand ==
    ASSUME IInv, NEW c \in Commands, cmds[c].pc \in NewPlaces
    PROVE  /\ c \in Running /\ cmds[c].req \in Requests /\ cmds[c].req.kind = "new"
           /\ Makes(cmds[c].req) /\ cmds[c].pc \notin {"off", "done"}
<1>1. c \in Running
  BY Ongoing DEF NewPlaces
<1>2. QED
  BY <1>1, CommandParts DEF RequestFits, Makes

LEMMA CheckKeeps ==
    ASSUME IInv, NEW c \in Commands, Check(c)
    PROVE  IInv'
<1>1. cmds[c].pc = "check" /\ UNCHANGED <<dir, git, hist>>
  BY DEF Check, At
<1>2. /\ c \in Running /\ cmds[c].req \in Requests /\ cmds[c].req.kind = "new"
      /\ Makes(cmds[c].req)
  BY <1>1, NewCommand DEF NewPlaces
<1>3. CASE Exit(c, "failed")
  BY <1>1, <1>2, <1>3, ExitKeeps
<1>4. CASE /\ BuildRequest(cmds[c].req) /\ PathAvailable
           /\ cmds' = [cmds EXCEPT ![c].pc = "open", ![c].plan =
                         RenderFiles(cmds[c].req, ResolveTemplate(cmds[c].req.template))]
  <2> DEFINE s == Script(cmds[c].req)
             q == Moved(cmds[c], "open", s, cmds[c].read, cmds[c].git)
  <2>1. cmds' = WithPlacePlan(cmds, c, "open", s)
    BY <1>2, <1>4 DEF Script, WithPlacePlan
  <2>2. cmds' = [cmds EXCEPT ![c] = q]
    BY <1>2, <2>1, OnwardMoves
  <2>3. q.pc = "open" /\ q.req = cmds[c].req /\ q.plan = Script(q.req)
    BY MovedParts
  <2> HIDE DEF q
  <2>4. RequestFits(q)
    BY <1>2, <2>3, NewRequestFits DEF NewPlaces
  <2>5. PlanFits(q)
    BY <1>2, <2>3, PlanBegins
  <2>6. Underway(c, q, files)
    BY <1>2, <2>3, UnderwayBegins
  <2>7. temps = {} /\ \A p \in Paths : files[p] = Absent
    BY <1>4 DEF PathAvailable, NonEmpty
  <2>8. OnCourse(c, q, files, temps, git)
    BY <1>4, <2>3, <2>6, <2>7 DEF OnCourse, Written
  <2>9. QED
    BY <1>1, <1>2, <2>2, <2>4, <2>5, <2>8, QuietMove DEF q, NewPlaces
<1>5. QED
  BY <1>3, <1>4 DEF Check

LEMMA OnCourseGoes ==
    ASSUME NEW c, NEW r, NEW fs, NEW ts, NEW g, OnCourse(c, r, fs, ts, g),
           NEW q, q.req = r.req, q.plan = r.plan, r.pc \notin {"parse", "persist"},
           q.pc \notin {"fill", "chmod", "parse"}, NEW h,
           q.pc \in Written => q.req.deps = "local" \/ ~fs["Cargo.toml"].body.pathDep,
           q.pc = "commit" => h.index = fs,
           q.pc = "compile" /\ q.git = "initialized" => h.head = fs
    PROVE  OnCourse(c, q, fs, ts, h)
<1>1. Underway(c, q, fs)
  BY UnderwayKeeps DEF OnCourse
<1>2. \A t \in ts : q.pc = "persist" /\ t = <<c, Head(q.plan).path>>
  BY DEF OnCourse
<1>3. QED
  BY <1>1, <1>2 DEF OnCourse

(* A command on its way to the end of new, its files in place.              *)
LEMMA CheckDepsKeeps ==
    ASSUME IInv, NEW c \in Commands, CheckDeps(c)
    PROVE  IInv'
<1>1. /\ cmds[c].pc = "open" /\ cmds[c].plan = <<>> /\ UNCHANGED <<dir, git, hist>>
  BY DEF CheckDeps, At
<1>2. /\ c \in Running /\ cmds[c].req \in Requests /\ cmds[c].req.kind = "new"
      /\ PlanFits(cmds[c])
  BY <1>1, NewCommand, CommandParts DEF NewPlaces
<1>3. CASE Exit(c, "failed")
  BY <1>1, <1>2, <1>3, ExitKeeps
<1>4. CASE /\ cmds[c].req.deps = "local" \/ ~files["Cargo.toml"].body.pathDep
           /\ Goto(c, "detect")
  <2> DEFINE q == Moved(cmds[c], "detect", cmds[c].plan, cmds[c].read, cmds[c].git)
  <2>1. cmds' = WithPlace(cmds, c, "detect")
    BY <1>4 DEF Goto, WithPlace
  <2>2. cmds' = [cmds EXCEPT ![c] = q]
    BY <1>2, <2>1, GotoMoves
  <2>3. q.pc = "detect" /\ q.req = cmds[c].req /\ q.plan = cmds[c].plan
    BY MovedParts
  <2> HIDE DEF q
  <2>4. RequestFits(q) /\ PlanFits(q)
    BY <1>1, <1>2, <2>3, NewRequestFits, PlanKeeps DEF NewPlaces
  <2>5. ASSUME c \notin disturbed, Making(q)
        PROVE  OnCourse(c, q, files, temps, git)
    BY <1>1, <1>2, <1>4, <2>3, <2>5, StillMaking, OnCourseGoes
  <2>6. cmds[c].git # "none" => cmds[c].req.kind = "new"
    BY <1>2
  <2>7. QED
    BY <1>1, <1>2, <2>2, <2>4, <2>5, <2>6, QuietMove DEF q, NewPlaces
<1>5. QED
  BY <1>3, <1>4 DEF CheckDeps

GitFits(g, rt) ==
  /\ g = [repo |-> g.repo, index |-> g.index, head |-> g.head] /\ g.repo \in BOOLEAN
  /\ ~g.repo => g = NoGit
  /\ g.repo => rt

LEMMA GitDirectory ==
    ASSUME IInv, NEW c \in Running, NEW r, cmds' = [cmds EXCEPT ![c] = r], r.req = cmds[c].req,
           r.pc # "off", UNCHANGED dir, cmds[c].pc # "persist",
           GitFits(git', root)
    PROVE  DirectoryFits'
<1>1. \A p \in Paths : FileFits(p, files[p], cmds')
  BY OthersFiles DEF IInv, DirectoryFits
<1>2. \A t \in temps : TempFits(t, cmds')
  BY OthersTemps, OwnTemps DEF IInv, DirectoryFits
<1>3. ~root => ~NonEmpty'
  BY DEF NonEmpty, dir, IInv, DirectoryFits, GitFits
<1>4. QED
  BY <1>1, <1>2, <1>3 DEF IInv, DirectoryFits, dir, GitFits

(* A step of git within new.                                                *)
LEMMA GitMove ==
    ASSUME IInv, NEW c \in Commands, cmds[c].pc \in Written \ {"compile"},
           NEW l \in Written, NEW g, NEW q,
           q = Moved(cmds[c], l, cmds[c].plan, cmds[c].read, g), cmds' = [cmds EXCEPT ![c] = q],
           UNCHANGED <<dir, hist>>,
           GitFits(git', root),
           (c \notin disturbed /\ l = "commit"
              /\ (\A t \in temps : FALSE)) => git'.index = files,
           (c \notin disturbed /\ l = "compile" /\ g = "initialized"
              /\ (cmds[c].pc = "commit" => git.index = files)) => git'.head = files
    PROVE  IInv'
<1>1. /\ c \in Running /\ cmds[c].req \in Requests /\ cmds[c].req.kind = "new"
      /\ PlanFits(cmds[c]) /\ cmds[c].plan = <<>> /\ cmds[c].pc \notin {"persist", "parse"}
  <2>1. cmds[c].pc \in NewPlaces
    BY DEF Written, NewPlaces
  <2>2. QED
    BY <2>1, NewCommand, CommandParts DEF PlanFits, Written
<1>2. q.pc = l /\ q.req = cmds[c].req /\ q.plan = cmds[c].plan /\ q.git = g
  BY MovedParts
<1>3. l \in NewPlaces /\ l \notin {"fill", "chmod", "parse", "off", "done"}
  BY DEF Written, NewPlaces
<1>4. RequestFits(q) /\ PlanFits(q)
  <2>1. RequestFits(q)
    BY <1>1, <1>2, <1>3, NewRequestFits
  <2>2. q.pc \notin {"persist", "chmod", "fill", "off", "done"}
    BY <1>2 DEF Written
  <2>3. PlanFits(q)
    BY <1>1, <1>2, <2>2, PlanKeeps
  <2>4. QED
    BY <2>1, <2>3
<1>5. CommandFits(q)
  BY <1>1, <1>3, <1>4, MovedFits
<1>6. ASSUME c \notin disturbed, Making(q)
      PROVE  OnCourse(c, q, files, temps, git')
  <2>1. OnCourse(c, cmds[c], files, temps, git)
    BY <1>1, <1>2, <1>6, StillMaking DEF Written
  <2>2. /\ q.req.deps = "local" \/ ~files["Cargo.toml"].body.pathDep
        /\ \A t \in temps : FALSE
        /\ cmds[c].pc = "commit" => git.index = files
    BY <1>1, <1>2, <2>1 DEF OnCourse
  <2>3. QED
    BY <1>1, <1>2, <1>3, <1>6, <2>1, <2>2, OnCourseGoes
<1>7. DirectoryFits'
  BY <1>1, <1>2, <1>3, GitDirectory DEF hist
<1>8. QED
  BY <1>1, <1>2, <1>3, <1>5, <1>6, <1>7, StepKeeps DEF dir, hist, IInv

LEMMA GitState ==
    ASSUME IInv
    PROVE  GitFits(git, root)
  BY DEF IInv, DirectoryFits, NonEmpty, GitFits

LEMMA Reports ==
    ASSUME IInv, NEW c \in Running, NEW status, Report(c, status)
    PROVE  cmds' = [cmds EXCEPT ![c] = Moved(cmds[c], "compile", cmds[c].plan, cmds[c].read, status)]
<1>1. cmds' = WithPlaceGit(cmds, c, "compile", status)
  BY DEF Report, WithPlaceGit
<1>2. QED
  BY <1>1, ReportMoves

LEMMA Goes ==
    ASSUME IInv, NEW c \in Running, NEW l, Goto(c, l)
    PROVE  cmds' = [cmds EXCEPT ![c] = Moved(cmds[c], l, cmds[c].plan, cmds[c].read, cmds[c].git)]
<1>1. cmds' = WithPlace(cmds, c, l)
  BY DEF Goto, WithPlace
<1>2. QED
  BY <1>1, GotoMoves

LEMMA WrittenCommand ==
    ASSUME IInv, NEW c \in Commands, cmds[c].pc \in Written
    PROVE  c \in Running
  BY Ongoing DEF Written

LEMMA DetectGitKeeps ==
    ASSUME IInv, NEW c \in Commands, DetectGit(c)
    PROVE  IInv'
<1>1. cmds[c].pc = "detect" /\ UNCHANGED <<dir, git, hist>> /\ GitFits(git', root)
  BY GitState DEF DetectGit, At
<1>2. c \in Running /\ cmds[c].pc \in Written \ {"compile"}
  BY <1>1, WrittenCommand DEF Written
<1>3. CASE \E s \in {"skipped", "failed", "present", "inside"} : Report(c, s)
  <2>1. PICK s \in {"skipped", "failed", "present", "inside"} : Report(c, s)
    BY <1>3
  <2>2. PICK q : q = Moved(cmds[c], "compile", cmds[c].plan, cmds[c].read, s)
    OBVIOUS
  <2>3. cmds' = [cmds EXCEPT ![c] = q] /\ "compile" \in Written /\ s # "initialized"
    BY <1>2, <2>1, <2>2, Reports DEF Written
  <2>4. QED
    BY <1>1, <1>2, <2>2, <2>3, GitMove
<1>4. CASE Goto(c, "init")
  <2>1. PICK q : q = Moved(cmds[c], "init", cmds[c].plan, cmds[c].read, cmds[c].git)
    OBVIOUS
  <2>2. cmds' = [cmds EXCEPT ![c] = q] /\ "init" \in Written
    BY <1>2, <1>4, <2>1, Goes DEF Written
  <2>3. QED
    BY <1>1, <1>2, <2>1, <2>2, GitMove
<1>5. QED
  BY <1>3, <1>4 DEF DetectGit

LEMMA GitFailure ==
    ASSUME IInv, NEW c \in Commands, cmds[c].pc \in Written \ {"compile"},
           NEW s \in {"skipped", "failed"}, Report(c, s), UNCHANGED <<dir, git, hist>>
    PROVE  IInv'
<1>1. PICK q : q = Moved(cmds[c], "compile", cmds[c].plan, cmds[c].read, s)
  OBVIOUS
<1>2. /\ cmds' = [cmds EXCEPT ![c] = q] /\ "compile" \in Written /\ s # "initialized"
      /\ GitFits(git', root)
  BY <1>1, WrittenCommand, Reports, GitState DEF Written
<1>3. QED
  BY <1>1, <1>2, GitMove

LEMMA GitInitKeeps ==
    ASSUME IInv, NEW c \in Commands, GitInit(c)
    PROVE  IInv'
<1>1. cmds[c].pc = "init" /\ UNCHANGED <<dir, hist>>
  BY DEF GitInit, At
<1>2. c \in Running /\ cmds[c].pc \in Written \ {"compile"}
  BY <1>1, WrittenCommand DEF Written
<1>3. CASE root /\ git' = [git EXCEPT !.repo = TRUE] /\ Goto(c, "add")
  <2>1. git' = [repo |-> TRUE, index |-> git.index, head |-> git.head]
    BY <1>3, GitState DEF GitFits
  <2>2. GitFits(git', root)
    BY <1>3, <2>1 DEF GitFits
  <2>3. PICK q : q = Moved(cmds[c], "add", cmds[c].plan, cmds[c].read, cmds[c].git)
    OBVIOUS
  <2>4. cmds' = [cmds EXCEPT ![c] = q] /\ "add" \in Written
    BY <1>2, <1>3, <2>3, Goes DEF Written
  <2>5. cmds[c].pc \in Written \ {"compile"} /\ c \in Commands
    BY <1>2
  <2>6. QED
    BY <1>1, <2>2, <2>3, <2>4, <2>5, GitMove
<1>4. CASE \E s \in {"skipped", "failed"} : Report(c, s) /\ UNCHANGED git
  BY <1>1, <1>2, <1>4, GitFailure
<1>5. QED
  BY <1>3, <1>4 DEF GitInit

LEMMA GitAddKeeps ==
    ASSUME IInv, NEW c \in Commands, GitAdd(c)
    PROVE  IInv'
<1>1. cmds[c].pc = "add" /\ UNCHANGED <<dir, hist>>
  BY DEF GitAdd, At
<1>2. c \in Running /\ cmds[c].pc \in Written \ {"compile"}
  BY <1>1, WrittenCommand DEF Written
<1>3. CASE git.repo /\ git' = [git EXCEPT !.index = Snapshot] /\ Goto(c, "commit")
  <2>1. git' = [repo |-> git.repo, index |-> Snapshot, head |-> git.head]
    BY <1>3, GitState DEF GitFits
  <2>2. (\A t \in temps : FALSE) => git'.index = files
    BY <2>1 DEF Snapshot
  <2>3. GitFits(git', root)
    BY <1>3, <2>1, GitState DEF GitFits
  <2>4. PICK q : q = Moved(cmds[c], "commit", cmds[c].plan, cmds[c].read, cmds[c].git)
    OBVIOUS
  <2>5. cmds' = [cmds EXCEPT ![c] = q] /\ "commit" \in Written
    BY <1>2, <1>3, <2>4, Goes DEF Written
  <2>6. QED
    BY <1>1, <1>2, <2>2, <2>3, <2>4, <2>5, GitMove
<1>4. CASE Report(c, "failed") /\ UNCHANGED git
  BY <1>1, <1>2, <1>4, GitFailure
<1>5. QED
  BY <1>3, <1>4 DEF GitAdd

LEMMA GitCommitKeeps ==
    ASSUME IInv, NEW c \in Commands, GitCommit(c)
    PROVE  IInv'
<1>1. cmds[c].pc = "commit" /\ UNCHANGED <<dir, hist>>
  BY DEF GitCommit, At
<1>2. c \in Running /\ cmds[c].pc \in Written \ {"compile"}
  BY <1>1, WrittenCommand DEF Written
<1>3. CASE /\ git.repo
           /\ git' = [git EXCEPT !.head = git.index]
           /\ \E s \in {"initialized", "failed"} : Report(c, s)
  <2>1. PICK s \in {"initialized", "failed"} : Report(c, s)
    BY <1>3
  <2>2. git' = [repo |-> git.repo, index |-> git.index, head |-> git.index]
    BY <1>3, GitState DEF GitFits
  <2>3. GitFits(git', root) /\ (git.index = files => git'.head = files)
    BY <1>3, <2>2, GitState DEF GitFits
  <2>4. PICK q : q = Moved(cmds[c], "compile", cmds[c].plan, cmds[c].read, s)
    OBVIOUS
  <2>5. cmds' = [cmds EXCEPT ![c] = q] /\ "compile" \in Written
    BY <1>2, <2>1, <2>4, Reports DEF Written
  <2>6. QED
    BY <1>1, <1>2, <2>3, <2>4, <2>5, GitMove
<1>4. CASE Report(c, "failed") /\ UNCHANGED git
  BY <1>1, <1>2, <1>4, GitFailure
<1>5. QED
  BY <1>3, <1>4 DEF GitCommit

LEMMA CompileKeeps ==
    ASSUME IInv, NEW c \in Commands, Compile(c)
    PROVE  IInv'
<1>1. /\ cmds[c].pc = "compile" /\ UNCHANGED <<dir, git, hist>>
      /\ \E s \in {"ok", "failed"} : Exit(c, s)
  BY DEF Compile, At
<1>2. c \in Running
  BY <1>1, WrittenCommand DEF Written
<1>3. QED
  BY <1>1, <1>2, ExitKeeps

(* The files of new: a temporary file, filled, renamed into place.          *)
LEMMA OpenTempKeeps ==
    ASSUME IInv, NEW c \in Commands, OpenTemp(c)
    PROVE  IInv'
<1> DEFINE f == Head(cmds[c].plan)
<1>1. /\ cmds[c].pc = "open" /\ cmds[c].plan # <<>> /\ root' = TRUE
      /\ temps' = temps \cup {<<c, f.path>>} /\ subdirs' = (subdirs \/ f.path = Lib)
      /\ Goto(c, "persist") /\ UNCHANGED <<files, git, hist>>
  BY DEF OpenTemp, At
<1>2. /\ c \in Running /\ cmds[c].req \in Requests /\ cmds[c].req.kind = "new"
      /\ Makes(cmds[c].req) /\ PlanFits(cmds[c]) /\ cmds = [d \in Commands |-> cmds[d]]
  BY <1>1, NewCommand, CommandParts DEF NewPlaces, IInv
<1>3. f.path \in Generated
  BY <1>1, <1>2, NextItem DEF ItemFits
<1>4. PICK q : q = Moved(cmds[c], "persist", cmds[c].plan, cmds[c].read, cmds[c].git)
  OBVIOUS
<1>5. cmds' = [cmds EXCEPT ![c] = q] /\ "persist" \in NewPlaces
  BY <1>1, <1>2, <1>4, Goes DEF NewPlaces
<1>6. q.pc = "persist" /\ q.req = cmds[c].req /\ q.plan = cmds[c].plan
  BY <1>4, MovedParts
<1>7. RequestFits(q) /\ PlanFits(q)
  BY <1>1, <1>2, <1>5, <1>6, NewRequestFits, PlanKeeps DEF Written
<1>8. CommandFits(q)
  BY <1>2, <1>4, <1>5, <1>7, MovedFits
<1>9. DirectoryFits'
  <2>1. \A p \in Paths : FileFits(p, files[p], cmds')
    BY <1>2, <1>5, <1>6, OthersFiles DEF IInv, DirectoryFits
  <2>2. \A t \in temps : TempFits(t, cmds')
    BY <1>1, <1>2, <1>5, EmptyHanded, OthersTemps DEF IInv, DirectoryFits
  <2>3. cmds'[c] = q
    BY <1>2, <1>5
  <2>4. TempFits(<<c, f.path>>, cmds')
    BY <1>3, <1>6, <2>3 DEF TempFits
  <2>5. subdirs' \in BOOLEAN
    BY <1>1 DEF IInv, DirectoryFits
  <2>6. QED
    BY <1>1, <2>1, <2>2, <2>4, <2>5 DEF IInv, DirectoryFits
<1>10. ASSUME c \notin disturbed, Making(q)
       PROVE  OnCourse(c, q, files', temps', git')
  <2>1. OnCourse(c, cmds[c], files, temps, git)
    BY <1>1, <1>2, <1>6, <1>10, StillMaking
  <2>2. Underway(c, q, files)
    BY <1>1, <1>6, <2>1, UnderwayKeeps DEF OnCourse
  <2>3. \A t \in temps' : q.pc = "persist" /\ t = <<c, Head(q.plan).path>>
    BY <1>1, <1>6, <2>1 DEF OnCourse
  <2>4. QED
    BY <1>1, <1>6, <2>1, <2>2, <2>3 DEF OnCourse, Written
<1>11. QED
  BY <1>1, <1>2, <1>5, <1>6, <1>8, <1>9, <1>10, StepKeeps DEF hist, IInv

LEMMA WriteFailsKeeps ==
    ASSUME IInv, NEW c \in Commands, WriteFails(c)
    PROVE  IInv'
<1>1. /\ cmds[c].pc \in {"open", "persist"}
      /\ temps' = temps \ {<<c, Head(cmds[c].plan).path>>}
      /\ Exit(c, "failed") /\ UNCHANGED <<root, subdirs, files, git, hist>>
  BY DEF WriteFails
<1>2. c \in Running
  BY <1>1, NewCommand DEF NewPlaces
<1>3. PICK q : q = Left(cmds[c], "failed")
  OBVIOUS
<1>4. cmds' = [cmds EXCEPT ![c] = q] /\ CommandFits(q) /\ q.pc = "done" /\ q.req = cmds[c].req
  BY <1>1, <1>2, <1>3, ExitFits
<1>5. DirectoryFits'
  <2>1. \A p \in Paths : FileFits(p, files[p], cmds')
    BY <1>2, <1>4, OthersFiles DEF IInv, DirectoryFits
  <2>2. \A t \in temps' : t \in temps /\ t[1] # c
    BY <1>1, <1>2, OwnTemps
  <2>3. \A t \in temps' : TempFits(t, cmds')
    BY <1>2, <1>4, <2>2, OthersTemps DEF IInv, DirectoryFits
  <2>4. NonEmpty' => NonEmpty
    BY <1>1 DEF NonEmpty
  <2>5. QED
    BY <1>1, <2>1, <2>3, <2>4 DEF IInv, DirectoryFits
<1>6. QED
  BY <1>1, <1>2, <1>4, <1>5, StepKeeps DEF hist, IInv

(* On to the next file, in the way of new or of the wizard.                 *)
OnwardPlace(r) == IF r.req.kind = "new" THEN "open" ELSE "step"

LEMMA OnwardFits ==
    ASSUME IInv, NEW c \in Running, Onward(c), cmds[c].plan # <<>>,
           cmds[c].req.kind = "wizard" => ~Dry(cmds[c].req)
    PROVE  \E q : /\ cmds' = [cmds EXCEPT ![c] = q] /\ CommandFits(q)
                  /\ q.pc = OnwardPlace(cmds[c]) /\ q.req = cmds[c].req
                  /\ q.plan = Tail(cmds[c].plan)
                  /\ q.pc \in {"open", "step"}
<1>1. PICK q : q = Moved(cmds[c], OnwardPlace(cmds[c]), Tail(cmds[c].plan), cmds[c].read, cmds[c].git)
  OBVIOUS
<1>2. cmds' = WithPlacePlan(cmds, c, OnwardPlace(cmds[c]), Tail(cmds[c].plan))
  <2>1. c \in Commands /\ cmds = [d \in Commands |-> cmds[d]]
    BY CommandParts DEF IInv
  <2>2. QED
    BY <2>1 DEF Onward, WithPlacePlan, OnwardPlace
<1>3. cmds' = [cmds EXCEPT ![c] = q]
  BY <1>1, <1>2, OnwardMoves
<1>4. /\ q.pc = OnwardPlace(cmds[c]) /\ q.req = cmds[c].req /\ q.plan = Tail(cmds[c].plan)
      /\ q.pc \in {"open", "step"} /\ cmds[c].req \in Requests /\ PlanFits(cmds[c])
      /\ CommandFits(cmds[c])
  BY <1>1, MovedParts, CommandParts DEF OnwardPlace
<1>5. cmds[c].req.kind \in {"new", "wizard"}
  BY <1>4, ProjectAssumption
<1>6. PlanFits(q)
  BY <1>4, PlanTail
<1>7. RequestFits(q)
  <2>1. q.pc = "open" => q.req.kind = "new"
    BY <1>4 DEF OnwardPlace
  <2>2. q.pc = "step" => q.req.kind = "wizard" /\ ~Dry(q.req)
    BY <1>4, <1>5 DEF OnwardPlace
  <2>3. QED
    BY <1>4, <2>1, <2>2 DEF RequestFits, NewPlaces, WizardPlaces
<1>8. CommandFits(q)
  <2>1. OnwardPlace(cmds[c]) \in NewPlaces \cup WizardPlaces \cup {"chmod"}
    BY DEF OnwardPlace, NewPlaces, WizardPlaces
  <2>2. cmds[c].git # "none" => cmds[c].req.kind = "new"
    BY <1>4 DEF CommandFits
  <2>3. QED
    BY <1>1, <1>6, <1>7, <2>1, <2>2, MovedFits
<1>9. QED
  BY <1>3, <1>4, <1>8

LEMMA HeadHasFile ==
    ASSUME NEW c, NEW r, r.req \in Requests, Makes(r.req), NEW fs, Underway(c, r, fs),
           r.plan # <<>>
    PROVE  /\ HasFile(Head(r.plan)) <=> (r.req.kind = "new" \/ Head(r.plan).step = "file")
           /\ HasFile(Head(r.plan)) /\ r.req.kind = "wizard" => Head(r.plan).whole
<1> DEFINE s == Script(r.req)
<1>1. PICK k \in DOMAIN s : Head(r.plan) = s[k]
  BY UnderwayHead
<1>2. /\ \A i \in DOMAIN s : HasFile(s[i]) <=> (r.req.kind = "new" \/ s[i].step = "file")
      /\ r.req.kind = "wizard" => \A i \in DOMAIN s : HasFile(s[i]) => s[i].whole
  BY ScriptFits
<1> HIDE DEF s
<1>3. QED
  BY <1>1, <1>2

(* A command sets one file of the project, its own temporary files gone.    *)
LEMMA FileWritten ==
    ASSUME IInv, NEW c \in Running, NEW q, cmds' = [cmds EXCEPT ![c] = q], q.req = cmds[c].req,
           q.pc # "off", NEW p \in Paths, NEW f, FileFits(p, f, cmds'),
           files' = [files EXCEPT ![p] = f], \A t \in temps' : t \in temps /\ t[1] # c,
           root' = TRUE, subdirs' \in BOOLEAN, UNCHANGED git
    PROVE  DirectoryFits'
<1>1. files = [x \in Paths |-> files[x]] /\ \A x \in Paths : FileFits(x, files[x], cmds)
  BY DEF IInv, DirectoryFits
<1>2. files' = [x \in Paths |-> files'[x]]
  BY <1>1
<1>3. ASSUME NEW x \in Paths PROVE FileFits(x, files'[x], cmds')
  <2>1. CASE x = p
    BY <1>1, <2>1
  <2>2. CASE x # p
    <3>1. files'[x] = files[x] /\ FileFits(x, files[x], cmds)
      BY <1>1, <2>2
    <3>2. FileFits(x, files[x], cmds')
      BY <1>3, <3>1, OthersFiles
    <3>3. QED
      BY <3>1, <3>2
  <2>3. QED
    BY <2>1, <2>2
<1>4. \A t \in temps' : TempFits(t, cmds')
  BY OthersTemps DEF IInv, DirectoryFits
<1>5. QED
  BY <1>2, <1>3, <1>4 DEF IInv, DirectoryFits

LEMMA CommandNumbers ==
    ASSUME NEW c \in Commands
    PROVE  c \in 0 .. Dev /\ c # 0 /\ c # Dev
<1>1. MaxCommands \in {MaxCommands, MaxKills, MaxEdits}
  OBVIOUS
<1>2. MaxCommands \in Nat
  BY <1>1, ProjectAssumption
<1>3. QED
  BY <1>2 DEF Commands, Dev

LEMMA WholeFileFits ==
    ASSUME NEW c \in Commands, NEW cs, cs[c].pc # "off", NEW p, NEW body,
           p = Manifest => IsManifest(body), NEW x \in BOOLEAN
    PROVE  FileFits(p, [by |-> c, whole |-> TRUE, x |-> x, body |-> body], cs)
  BY CommandNumbers DEF FileFits

LEMMA PersistKeeps ==
    ASSUME IInv, NEW c \in Commands, Persist(c)
    PROVE  IInv'
<1> DEFINE f == Head(cmds[c].plan)
           g == [by |-> c, whole |-> TRUE, x |-> FALSE, body |-> f.body]
<1>1. /\ cmds[c].pc = "persist" /\ <<c, f.path>> \in temps
      /\ temps' = temps \ {<<c, f.path>>} /\ files' = [files EXCEPT ![f.path] = g]
      /\ IF Executable(f.path) THEN Goto(c, "chmod") ELSE Onward(c)
      /\ UNCHANGED <<root, subdirs, git, hist>>
  BY DEF Persist, At, File
<1>2. /\ c \in Running /\ cmds[c].req \in Requests /\ cmds[c].req.kind = "new"
      /\ Makes(cmds[c].req) /\ PlanFits(cmds[c]) /\ cmds = [d \in Commands |-> cmds[d]]
      /\ CommandFits(cmds[c])
  BY <1>1, NewCommand, CommandParts DEF NewPlaces, IInv
<1>3. cmds[c].plan # <<>>
  BY <1>1, <1>2 DEF PlanFits
<1>4. f.path \in Generated /\ f.path \in Paths /\ (f.path = Manifest => IsManifest(f.body))
  BY <1>2, <1>3, NextItem DEF ItemFits, Paths
<1>5. PICK q : /\ cmds' = [cmds EXCEPT ![c] = q] /\ CommandFits(q) /\ q.req = cmds[c].req
               /\ IF Executable(f.path) THEN q.pc = "chmod" /\ q.plan = cmds[c].plan
                  ELSE q.pc = "open" /\ q.plan = Tail(cmds[c].plan)
  <2>1. CASE Executable(f.path)
    <3>1. PICK q : q = Moved(cmds[c], "chmod", cmds[c].plan, cmds[c].read, cmds[c].git)
      OBVIOUS
    <3>2. cmds' = [cmds EXCEPT ![c] = q]
      BY <1>1, <1>2, <2>1, <3>1, Goes
    <3>3. q.pc = "chmod" /\ q.req = cmds[c].req /\ q.plan = cmds[c].plan
      BY <3>1, MovedParts
    <3>4. PlanFits(q)
      BY <1>2, <1>3, <3>3, PlanKeeps DEF Written
    <3>5. RequestFits(q)
      BY <1>2, <3>3 DEF RequestFits, NewPlaces, WizardPlaces
    <3>6. CommandFits(q)
      BY <1>2, <3>1, <3>4, <3>5, MovedFits
    <3>7. QED
      BY <2>1, <3>2, <3>3, <3>6
  <2>2. CASE ~Executable(f.path)
    <3>1. Onward(c) /\ OnwardPlace(cmds[c]) = "open"
      BY <1>1, <1>2, <2>2 DEF OnwardPlace
    <3>2. QED
      BY <1>2, <1>3, <2>2, <3>1, OnwardFits
  <2>3. QED
    BY <2>1, <2>2
<1>6. q.pc \in {"open", "chmod"}
  BY <1>5
<1>7. DirectoryFits'
  <2>1. \A t \in temps' : t \in temps /\ t[1] # c
    BY <1>1, <1>2, OwnTemps
  <2>2. root' = TRUE /\ subdirs' \in BOOLEAN
    BY <1>1 DEF IInv, DirectoryFits, NonEmpty
  <2>3. cmds'[c].pc # "off"
    BY <1>2, <1>5, <1>6
  <2>4. FileFits(f.path, g, cmds')
    BY <1>4, <2>3, WholeFileFits
  <2> HIDE DEF f, g
  <2>5. QED
    BY <1>1, <1>2, <1>4, <1>5, <1>6, <2>1, <2>2, <2>4, FileWritten
<1>8. ASSUME c \notin disturbed, Making(q)
      PROVE  OnCourse(c, q, files', temps', git')
  <2>1. OnCourse(c, cmds[c], files, temps, git)
    BY <1>1, <1>2, <1>5, <1>8, StillMaking
  <2>2. Underway(c, cmds[c], files) /\ HasFile(f)
    BY <1>1, <1>2, <1>3, <2>1, HeadHasFile DEF OnCourse
  <2>3. /\ files'[f.path] = g /\ \A p \in Paths : p = f.path \/ files'[p] = files[p]
    BY <1>1, <1>4 DEF IInv, DirectoryFits
  <2>4. Put(c, f, files'[f.path])
    BY <2>3 DEF Put
  <2>5. Underway(c, q, files')
    <3>1. CASE Executable(f.path)
      BY <1>2, <1>3, <1>5, <2>2, <2>3, <2>4, <3>1, UnderwayStays
    <3>2. CASE ~Executable(f.path)
      BY <1>2, <1>3, <1>5, <2>2, <2>3, <2>4, <3>2, UnderwayAdvances DEF Delivered
    <3>3. QED
      BY <3>1, <3>2
  <2>6. \A p \in Paths : files'[p] = Absent \/ files'[p].by = c
    BY <2>1, <2>3 DEF OnCourse
  <2>7. \A t \in temps' : FALSE
    BY <1>1, <2>1 DEF OnCourse
  <2>8. QED
    BY <1>2, <1>5, <1>6, <2>1, <2>5, <2>6, <2>7 DEF OnCourse, Written
<1>9. QED
  BY <1>1, <1>2, <1>5, <1>6, <1>7, <1>8, StepKeeps DEF hist, IInv

LEMMA UnderwayHalf ==
    ASSUME NEW c, NEW r, r.req \in Requests, Makes(r.req), NEW fs, Underway(c, r, fs),
           r.plan # <<>>
    PROVE  /\ r.pc = "fill" => fs[Head(r.plan).path].by = c
           /\ r.pc = "chmod" => Put(c, Head(r.plan), fs[Head(r.plan).path])
<1> DEFINE s == Script(r.req)
<1>1. s \in Seq({s[i] : i \in DOMAIN s})
  BY ScriptFits
<1>2. PICK k \in 1 .. Len(s) + 1 :
        /\ r.plan = SubSeq(s, k, Len(s))
        /\ r.pc = "fill" => fs[s[k].path].by = c
        /\ r.pc = "chmod" => Put(c, s[k], fs[s[k].path])
  BY DEF Underway
<1>3. Head(r.plan) = s[k]
  BY <1>1, <1>2, Suffix
<1> HIDE DEF s
<1>4. QED
  BY <1>2, <1>3

(* A file that is there is in a directory.                                  *)
LEMMA FileMeansRoot ==
    ASSUME IInv, NEW p \in Paths, files[p] # Absent
    PROVE  root = TRUE /\ files[p].by # 0
  BY DEF IInv, DirectoryFits, NonEmpty, FileFits

LEMMA Executably ==
    ASSUME IInv, NEW p \in Paths, files' = [files EXCEPT ![p].x = TRUE]
    PROVE  files' = [files EXCEPT ![p] = [by |-> files[p].by, whole |-> files[p].whole, x |-> TRUE,
                                          body |-> files[p].body]]
<1>1. files = [y \in Paths |-> files[y]]
  BY DEF IInv, DirectoryFits
<1>2. files[p] = [by |-> files[p].by, whole |-> files[p].whole, x |-> files[p].x,
                  body |-> files[p].body]
  BY DEF IInv, DirectoryFits, FileFits
<1>3. files' = [files EXCEPT ![p] = [files[p] EXCEPT !.x = TRUE]]
  BY <1>1
<1>4. PICK g : g = files[p]
  OBVIOUS
<1>5. [g EXCEPT !.x = TRUE] = [by |-> g.by, whole |-> g.whole, x |-> TRUE, body |-> g.body]
  <2>1. g = [by |-> g.by, whole |-> g.whole, x |-> g.x, body |-> g.body]
    BY <1>2, <1>4
  <2>2. PICK v : v = TRUE
    OBVIOUS
  <2>3. [g EXCEPT !.x = v] = [g EXCEPT !.x = TRUE]
    BY <2>2
  <2>4. [[by |-> g.by, whole |-> g.whole, x |-> g.x, body |-> g.body] EXCEPT !.x = v]
          = [by |-> g.by, whole |-> g.whole, x |-> v, body |-> g.body]
    OBVIOUS
  <2>5. [by |-> g.by, whole |-> g.whole, x |-> v, body |-> g.body]
          = [by |-> g.by, whole |-> g.whole, x |-> TRUE, body |-> g.body]
    BY <2>2
  <2>6. QED
    BY <2>1, <2>3, <2>4, <2>5
<1>6. QED
  BY <1>3, <1>4, <1>5

LEMMA SetExecutableKeeps ==
    ASSUME IInv, NEW c \in Commands, SetExecutable(c)
    PROVE  IInv'
<1> DEFINE f == Head(cmds[c].plan)
           p == f.path
           g == [by |-> files[p].by, whole |-> files[p].whole, x |-> TRUE, body |-> files[p].body]
<1>1. cmds[c].pc = "chmod" /\ UNCHANGED <<root, subdirs, temps, git, hist>>
  BY DEF SetExecutable, At
<1>2. /\ c \in Running /\ cmds[c].req \in Requests /\ PlanFits(cmds[c])
      /\ RequestFits(cmds[c]) /\ cmds = [d \in Commands |-> cmds[d]]
  BY <1>1, Ongoing, CommandParts DEF IInv
<1>3. /\ Makes(cmds[c].req) /\ cmds[c].plan # <<>>
      /\ cmds[c].req.kind = "wizard" => ~Dry(cmds[c].req) /\ f.step = "file"
      /\ cmds[c].req.kind \in {"new", "wizard"}
  BY <1>1, <1>2, ProjectAssumption DEF RequestFits, PlanFits
<1>4. p \in Generated /\ p \in Paths
  BY <1>2, <1>3, NextItem DEF ItemFits, Paths
<1>5. CASE Exit(c, "failed") /\ UNCHANGED files
  BY <1>1, <1>2, <1>5, ExitKeeps DEF dir
<1>6. CASE files[p] # Absent /\ files' = [files EXCEPT ![p].x = TRUE] /\ Onward(c)
  <2>1. PICK q : /\ cmds' = [cmds EXCEPT ![c] = q] /\ CommandFits(q) /\ q.req = cmds[c].req
                 /\ q.plan = Tail(cmds[c].plan) /\ q.pc \in {"open", "step"}
    BY <1>2, <1>3, <1>6, OnwardFits
  <2>2. files' = [files EXCEPT ![p] = g]
    BY <1>4, <1>6, Executably
  <2>3. DirectoryFits'
    <3>1. \A t \in temps' : t \in temps /\ t[1] # c
      BY <1>1, <1>2, EmptyHanded
    <3>2. root' = TRUE /\ subdirs' \in BOOLEAN /\ files[p].by # 0
      BY <1>1, <1>4, <1>6, FileMeansRoot DEF IInv, DirectoryFits
    <3>3. FileFits(p, files[p], cmds')
      BY <1>2, <1>4, <2>1, OthersFiles DEF IInv, DirectoryFits
    <3>4. FileFits(p, g, cmds')
      BY <3>2, <3>3 DEF FileFits
    <3> HIDE DEF g, p
    <3>5. QED
      BY <1>1, <1>2, <1>4, <2>1, <2>2, <3>1, <3>2, <3>4, FileWritten
  <2>4. ASSUME c \notin disturbed, Making(q)
        PROVE  OnCourse(c, q, files', temps', git')
    <3>1. OnCourse(c, cmds[c], files, temps, git)
      BY <1>1, <1>2, <2>1, <2>4, StillMaking
    <3>2. Underway(c, cmds[c], files) /\ HasFile(f) /\ Put(c, f, files[p])
      BY <1>1, <1>2, <1>3, <3>1, HeadHasFile, UnderwayHalf DEF OnCourse
    <3>3. files'[p] = g /\ \A y \in Paths : y = p \/ files'[y] = files[y]
      BY <1>4, <2>2 DEF IInv, DirectoryFits
    <3>4. Delivered(c, f, files'[p])
      BY <3>2, <3>3 DEF Delivered, Put
    <3>5. Underway(c, q, files')
      <4>1. q.pc \notin {"fill", "chmod"}
        BY <2>1
      <4> HIDE DEF g
      <4>2. QED
        BY <1>2, <1>3, <2>1, <3>2, <3>3, <3>4, <4>1, UnderwayAdvances
    <3>6. \A y \in Paths : files'[y] = Absent \/ files'[y].by = c
      <4>1. g.by = c
        BY <3>2 DEF Put
      <4>2. \A y \in Paths : files[y] = Absent \/ files[y].by = c
        BY <3>1 DEF OnCourse
      <4> HIDE DEF g, p
      <4>3. QED
        BY <3>3, <4>1, <4>2
    <3>7. \A t \in temps' : FALSE
      BY <1>1, <3>1 DEF OnCourse
    <3>8. QED
      BY <2>1, <3>1, <3>5, <3>6, <3>7 DEF OnCourse, Written
  <2>5. QED
    BY <1>1, <1>2, <2>1, <2>3, <2>4, StepKeeps DEF hist, IInv
<1>7. QED
  BY <1>5, <1>6 DEF SetExecutable

-----------------------------------------------------------------------------
(* The steps of the wizard.                                                 *)

LEMMA WizardCommand ==
    ASSUME IInv, NEW c \in Commands, cmds[c].pc \in WizardPlaces
    PROVE  /\ c \in Running /\ cmds[c].req \in Requests /\ cmds[c].req.kind = "wizard"
           /\ PlanFits(cmds[c]) /\ RequestFits(cmds[c]) /\ cmds[c].git = "none"
           /\ cmds[c].pc # "persist" /\ cmds = [d \in Commands |-> cmds[d]]
           /\ Makes(cmds[c].req) <=> Mode(cmds[c].req) = Create
<1>1. c \in Running
  BY Ongoing DEF WizardPlaces
<1>2. cmds[c].req.kind = "wizard"
  BY <1>1, CommandParts DEF RequestFits
<1>3. cmds[c].git = "none" /\ cmds[c].pc # "persist"
  BY <1>1, <1>2, CommandParts DEF CommandFits, WizardPlaces
<1>4. QED
  BY <1>1, <1>2, <1>3, CommandParts DEF Makes, IInv

LEMMA WizardRequestFits ==
    ASSUME NEW q, q.req \in Requests, q.req.kind = "wizard", q.pc \in WizardPlaces,
           q.pc \in {"step", "fill"} => ~Dry(q.req),
           q.pc \in {"clear", "parse"} => Mode(q.req) = Create,
           q.pc \in {"manifest", "lib"} => Mode(q.req) \in {"add_operation", "update_operation"},
           q.pc = "lib" => IsManifest(q.read)
    PROVE  RequestFits(q)
  BY DEF RequestFits, NewPlaces, WizardPlaces

(* A run of the wizard goes on and leaves the project as it is.             *)
LEMMA WizardMove ==
    ASSUME IInv, NEW c \in Commands, cmds[c].pc \in WizardPlaces,
           NEW l \in WizardPlaces, NEW plan, NEW read, NEW q,
           q = Moved(cmds[c], l, plan, read, cmds[c].git), cmds' = [cmds EXCEPT ![c] = q],
           UNCHANGED <<dir, git, hist>>,
           l \in {"step", "fill"} => ~Dry(cmds[c].req),
           l \in {"clear", "parse"} => Mode(cmds[c].req) = Create,
           l \in {"manifest", "lib"} => Mode(cmds[c].req) \in {"add_operation", "update_operation"},
           l = "lib" => IsManifest(read),
           PlanFits(q),
           (c \notin disturbed /\ Making(q)) => OnCourse(c, q, files, temps, git)
    PROVE  IInv'
<1>1. /\ c \in Running /\ cmds[c].req \in Requests /\ cmds[c].req.kind = "wizard"
      /\ cmds[c].git = "none" /\ cmds[c].pc # "persist"
  BY WizardCommand
<1>2. q.pc = l /\ q.req = cmds[c].req /\ q.read = read
  BY MovedParts
<1>3. RequestFits(q)
  BY <1>1, <1>2, WizardRequestFits
<1>4. QED
  BY <1>1, <1>3, QuietMove

LEMMA Plans ==
    ASSUME IInv, NEW c \in Running, NEW l, NEW plan,
           cmds' = [cmds EXCEPT ![c].pc = l, ![c].plan = plan]
    PROVE  cmds' = [cmds EXCEPT ![c] = Moved(cmds[c], l, plan, cmds[c].read, cmds[c].git)]
<1>1. cmds' = WithPlacePlan(cmds, c, l, plan)
  BY DEF WithPlacePlan
<1>2. PICK q : q = Moved(cmds[c], l, plan, cmds[c].read, cmds[c].git)
  OBVIOUS
<1>3. WithPlacePlan(cmds, c, l, plan) = [cmds EXCEPT ![c] = q]
  BY ONLY IInv, c \in Running, <1>2, OnwardMoves
<1>4. QED
  BY ONLY <1>1, <1>2, <1>3

LEMMA CallsFit ==
    ASSUME NEW req, req.kind = "wizard", NEW what, what # "file"
    PROVE  ItemFits(req, CallStep(what))
  BY DEF ItemFits, CallStep

(* A plan is made of steps that fit.                                        *)
LEMMA PlanOver ==
    ASSUME NEW q, q.pc \in {"open", "output", "step"},
           NEW S, q.plan \in Seq(S), \A item \in S : ItemFits(q.req, item)
    PROVE  PlanFits(q)
<1>1. /\ Len(q.plan) \in Nat /\ DOMAIN q.plan = 1 .. Len(q.plan)
      /\ q.plan \in [1 .. Len(q.plan) -> S]
  BY LenProperties
<1>2. q.plan \in [1 .. Len(q.plan) -> {q.plan[i] : i \in DOMAIN q.plan}]
  BY <1>1
<1>3. q.plan \in Seq({q.plan[i] : i \in DOMAIN q.plan})
  BY <1>1, <1>2, FunctionIsSeq
<1>4. \A i \in DOMAIN q.plan : ItemFits(q.req, q.plan[i])
  BY <1>1
<1>5. QED
  BY <1>3, <1>4 DEF PlanFits, Written

LEMMA ResolveKeeps ==
    ASSUME IInv, NEW c \in Commands, Resolve(c)
    PROVE  IInv'
<1> DEFINE req == cmds[c].req
<1>1. cmds[c].pc = "resolve" /\ UNCHANGED <<dir, git, hist>> /\ cmds[c].pc \in WizardPlaces
  BY DEF Resolve, At, WizardPlaces
<1>2. /\ c \in Running /\ req \in Requests /\ req.kind = "wizard" /\ PlanFits(cmds[c])
      /\ Makes(req) <=> Mode(req) = Create
  BY <1>1, WizardCommand
<1>3. CASE Exit(c, "failed")
  BY <1>1, <1>2, <1>3, ExitKeeps
<1>4. ASSUME NEW l \in {"clear", "manifest"}, Goto(c, l),
             l = "clear" => Mode(req) = Create,
             l = "manifest" => Mode(req) \in {"add_operation", "update_operation"}
      PROVE  IInv'
  <2>1. PICK q : q = Moved(cmds[c], l, cmds[c].plan, cmds[c].read, cmds[c].git)
    OBVIOUS
  <2>2. cmds' = [cmds EXCEPT ![c] = q] /\ l \in WizardPlaces
    BY <1>2, <1>4, <2>1, Goes DEF WizardPlaces
  <2>3. q.pc = l /\ q.req = req /\ q.plan = cmds[c].plan
    BY <2>1, MovedParts
  <2>4. PlanFits(q)
    BY <1>2, <2>3, PlanKeeps DEF Written
  <2>5. ~Making(q)
    BY <1>2, <1>4, <2>3 DEF Making, Create
  <2>6. QED
    BY <1>1, <1>4, <2>1, <2>2, <2>4, <2>5, WizardMove
<1>5. ASSUME NEW plan, NEW S, plan \in Seq(S), \A item \in S : ItemFits(req, item),
             Mode(req) # Create,
             cmds' = [cmds EXCEPT ![c].pc = "output", ![c].plan = plan]
      PROVE  IInv'
  <2>1. PICK q : q = Moved(cmds[c], "output", plan, cmds[c].read, cmds[c].git)
    OBVIOUS
  <2>2. cmds' = [cmds EXCEPT ![c] = q] /\ "output" \in WizardPlaces
    BY <1>2, <1>5, <2>1, Plans DEF WizardPlaces
  <2>3. q.pc = "output" /\ q.req = req /\ q.plan = plan
    BY <2>1, MovedParts
  <2>4. PlanFits(q)
    BY <1>5, <2>3, PlanOver
  <2>5. ~Making(q)
    BY <1>2, <1>5, <2>3 DEF Making
  <2>6. QED
    BY <1>1, <2>1, <2>2, <2>4, <2>5, WizardMove
<1> DEFINE Calls == {CallStep("build"), CallStep("test"), CallStep("doctor")}
<1>6. \A item \in Calls : ItemFits(req, item)
  <2>1. "build" # "file" /\ "test" # "file" /\ "doctor" # "file"
    OBVIOUS
  <2>2. QED
    BY <1>2, <2>1, CallsFit
<1>7. BuildTestPlan(req) \in Seq(Calls) /\ <<CallStep("doctor")>> \in Seq(Calls)
  <2>1. /\ <<CallStep("build")>> \in Seq(Calls) /\ <<CallStep("test")>> \in Seq(Calls)
        /\ <<CallStep("doctor")>> \in Seq(Calls) /\ <<>> \in Seq(Calls)
    OBVIOUS
  <2>2. (IF req.fullTests THEN <<CallStep("test")>> ELSE <<>>) \in Seq(Calls)
    BY <2>1
  <2> HIDE DEF Calls, req
  <2>3. QED
    BY <2>1, <2>2, ConcatProperties DEF BuildTestPlan
<1>8. CASE Mode(req) = Create /\ Goto(c, "clear")
  BY <1>4, <1>8
<1>9. CASE Mode(req) \in {"add_operation", "update_operation"} /\ Goto(c, "manifest")
  BY <1>4, <1>9
<1>10. CASE /\ Mode(req) # Create
            /\ cmds' = [cmds EXCEPT ![c].pc = "output", ![c].plan = BuildTestPlan(req)]
  <2> HIDE DEF Calls
  <2>1. QED
    BY <1>5, <1>6, <1>7, <1>10
<1>11. CASE /\ Mode(req) # Create
            /\ cmds' = [cmds EXCEPT ![c].pc = "output", ![c].plan = <<CallStep("doctor")>>]
  <2> HIDE DEF Calls
  <2>1. QED
    BY <1>5, <1>6, <1>7, <1>11
<1>12. QED
  <2>1. CASE AnswersRefused(req) \/ ~ModesAgree(req)
    BY <1>3, <2>1 DEF Resolve
  <2>2. CASE ~(AnswersRefused(req) \/ ~ModesAgree(req))
    <3>1. CASE Mode(req) = Create
      BY <1>8, <2>2, <3>1 DEF Resolve, Create
    <3>2. CASE Mode(req) \in {"add_operation", "update_operation"}
      BY <1>9, <2>2, <3>2 DEF Resolve, Create
    <3>3. CASE Mode(req) = "build_test"
      BY <1>10, <2>2, <3>3 DEF Resolve, Create
    <3>4. CASE Mode(req) \notin {Create, "add_operation", "update_operation", "build_test"}
      BY <1>11, <2>2, <3>4 DEF Resolve, Create
    <3>5. QED
      BY <3>1, <3>2, <3>3, <3>4
  <2>3. QED
    BY <2>1, <2>2

LEMMA AbsentFits ==
    ASSUME NEW p, NEW cs
    PROVE  FileFits(p, Absent, cs)
<1>1. MaxCommands \in {MaxCommands, MaxKills, MaxEdits}
  OBVIOUS
<1>2. MaxCommands \in Nat
  BY <1>1, ProjectAssumption
<1>3. 0 \in 0 .. Dev /\ 0 \notin Commands
  BY <1>2 DEF Dev, Commands
<1>4. QED
  BY <1>3 DEF FileFits, Absent

LEMMA RemovedFits ==
    ASSUME IInv, NEW P, Remove(P)
    PROVE  /\ files' = [p \in Paths |-> files'[p]]
           /\ \A p \in Paths : files'[p] = IF p \in P THEN Absent ELSE files[p]
  BY DEF Remove

(* Clearing the directory: all of it, or some of it and the run is over.    *)
LEMMA ClearOutputKeeps ==
    ASSUME IInv, NEW c \in Commands, cmds[c].pc = "clear", ClearOutput(c), UNCHANGED hist
    PROVE  IInv'
<1>1. /\ c \in Running /\ cmds[c].req \in Requests /\ cmds[c].req.kind = "wizard"
      /\ PlanFits(cmds[c]) /\ RequestFits(cmds[c]) /\ cmds = [d \in Commands |-> cmds[d]]
      /\ cmds[c].git = "none"
  BY WizardCommand DEF WizardPlaces
<1>2. CASE /\ Remove(Paths) /\ root' = FALSE /\ subdirs' = FALSE /\ temps' = {} /\ git' = NoGit
           /\ Goto(c, "parse")
  <2>1. PICK q : q = Moved(cmds[c], "parse", cmds[c].plan, cmds[c].read, cmds[c].git)
    OBVIOUS
  <2>2. cmds' = [cmds EXCEPT ![c] = q]
    BY <1>1, <1>2, <2>1, Goes
  <2>3. q.pc = "parse" /\ q.req = cmds[c].req /\ q.plan = cmds[c].plan
    BY <2>1, MovedParts
  <2>4. PlanFits(q)
    BY <1>1, <2>3, PlanKeeps DEF Written
  <2>5. RequestFits(q)
    BY <1>1, <2>3, WizardRequestFits DEF RequestFits, WizardPlaces
  <2>6. CommandFits(q)
    BY <1>1, <2>1, <2>4, <2>5, MovedFits DEF WizardPlaces
  <2>7. files' = [p \in Paths |-> files'[p]] /\ \A p \in Paths : files'[p] = Absent
    BY <1>2, RemovedFits
  <2>8. DirectoryFits'
    <3>1. git'.repo = FALSE /\ git' = [repo |-> git'.repo, index |-> git'.index, head |-> git'.head]
      BY <1>2 DEF NoGit
    <3>2. ~NonEmpty'
      BY <1>2, <2>7, <3>1 DEF NonEmpty
    <3>3. \A p \in Paths : FileFits(p, files'[p], cmds')
      BY <2>7, AbsentFits
    <3>4. QED
      BY <1>2, <2>7, <3>1, <3>2, <3>3 DEF DirectoryFits
  <2>9. OnCourse(c, q, files', temps', git')
    BY <1>1, <1>2, <2>3, <2>7 DEF OnCourse, Written
  <2>10. QED
    BY <1>1, <2>2, <2>3, <2>6, <2>8, <2>9, StepKeeps DEF hist, IInv
<1>3. ASSUME NEW P, Remove(P), Exit(c, "failed"), UNCHANGED <<root, subdirs, temps, git>>
      PROVE  IInv'
  <2>1. PICK q : q = Left(cmds[c], "failed")
    OBVIOUS
  <2>2. cmds' = [cmds EXCEPT ![c] = q] /\ CommandFits(q) /\ q.pc = "done" /\ q.req = cmds[c].req
    BY <1>1, <1>3, <2>1, ExitFits
  <2>3. /\ files' = [p \in Paths |-> files'[p]]
        /\ \A p \in Paths : files'[p] = Absent \/ files'[p] = files[p]
    BY <1>3, RemovedFits
  <2>4. \A p \in Paths : FileFits(p, files'[p], cmds')
    <3>1. ASSUME NEW p \in Paths PROVE FileFits(p, files'[p], cmds')
      <4>1. FileFits(p, files[p], cmds')
        BY <1>1, <2>2, OthersFiles DEF IInv, DirectoryFits
      <4>2. QED
        BY <2>3, <4>1, AbsentFits
    <3>2. QED
      BY <3>1
  <2>5. \A t \in temps' : TempFits(t, cmds')
    BY <1>1, <1>3, <2>2, EmptyHanded, OthersTemps DEF IInv, DirectoryFits
  <2>6. NonEmpty' => NonEmpty
    BY <1>3, <2>3 DEF NonEmpty
  <2>7. DirectoryFits'
    BY <1>3, <2>3, <2>4, <2>5, <2>6 DEF IInv, DirectoryFits
  <2>8. QED
    BY <1>1, <2>2, <2>7, StepKeeps DEF hist, IInv
<1>4. QED
  BY <1>2, <1>3 DEF ClearOutput

LEMMA ClearKeeps ==
    ASSUME IInv, NEW c \in Commands, Clear(c)
    PROVE  IInv'
<1> DEFINE req == cmds[c].req
           refused == req.flaw = "name" \/ (~req.overwrite /\ NonEmpty)
           clear == req.overwrite /\ ~Dry(req) /\ root
<1>1. cmds[c].pc = "clear" /\ UNCHANGED hist /\ cmds[c].pc \in WizardPlaces
  BY DEF Clear, At, WizardPlaces
<1>2. /\ c \in Running /\ req \in Requests /\ req.kind = "wizard" /\ PlanFits(cmds[c])
      /\ RequestFits(cmds[c]) /\ Mode(req) = Create /\ Makes(req)
  BY <1>1, WizardCommand DEF RequestFits
<1>3. CASE ClearOutput(c)
  BY <1>1, <1>3, ClearOutputKeeps
<1>4. CASE Exit(c, "failed") /\ UNCHANGED <<dir, git>>
  BY <1>1, <1>2, <1>4, ExitKeeps
<1>5. CASE ~refused /\ ~clear /\ Goto(c, "parse") /\ UNCHANGED <<dir, git>>
  <2>1. PICK q : q = Moved(cmds[c], "parse", cmds[c].plan, cmds[c].read, cmds[c].git)
    OBVIOUS
  <2>2. cmds' = [cmds EXCEPT ![c] = q] /\ "parse" \in WizardPlaces
    BY <1>2, <1>5, <2>1, Goes DEF WizardPlaces
  <2>3. q.pc = "parse" /\ q.req = req /\ q.plan = cmds[c].plan
    BY <2>1, MovedParts
  <2>4. PlanFits(q)
    BY <1>2, <2>3, PlanKeeps DEF Written
  <2>5. ASSUME Making(q)
        PROVE  OnCourse(c, q, files, temps, git)
    <3>1. ~Dry(req)
      BY <1>2, <2>3, <2>5 DEF Making
    <3>2. ~NonEmpty
      BY <1>5, <3>1 DEF IInv, DirectoryFits
    <3>3. temps = {} /\ \A p \in Paths : files[p] = Absent
      BY <3>2 DEF NonEmpty
    <3>4. QED
      BY <1>2, <2>3, <3>3 DEF OnCourse, Written
  <2>6. QED
    BY <1>1, <1>2, <1>5, <2>1, <2>2, <2>4, <2>5, WizardMove
<1>6. QED
  BY <1>3, <1>4, <1>5 DEF Clear

LEMMA ParseKeeps ==
    ASSUME IInv, NEW c \in Commands, Parse(c)
    PROVE  IInv'
<1> DEFINE req == cmds[c].req
<1>1. cmds[c].pc = "parse" /\ UNCHANGED <<dir, git, hist>> /\ cmds[c].pc \in WizardPlaces
  BY DEF Parse, At, WizardPlaces
<1>2. /\ c \in Running /\ req \in Requests /\ req.kind = "wizard" /\ Makes(req)
  BY <1>1, WizardCommand DEF RequestFits
<1>3. CASE Exit(c, "failed")
  BY <1>1, <1>2, <1>3, ExitKeeps
<1>4. CASE cmds' = [cmds EXCEPT ![c].pc = "output", ![c].plan = CreatePlan(req)]
  <2>1. PICK q : q = Moved(cmds[c], "output", CreatePlan(req), cmds[c].read, cmds[c].git)
    OBVIOUS
  <2>2. cmds' = [cmds EXCEPT ![c] = q] /\ "output" \in WizardPlaces
    BY <1>2, <1>4, <2>1, Plans DEF WizardPlaces
  <2>3. q.pc = "output" /\ q.req = req /\ q.plan = Script(q.req)
    BY <1>2, <2>1, MovedParts DEF Script
  <2>4. PlanFits(q)
    BY <1>2, <2>3, PlanBegins
  <2>5. ASSUME c \notin disturbed, Making(q)
        PROVE  OnCourse(c, q, files, temps, git)
    <3>1. OnCourse(c, cmds[c], files, temps, git)
      BY <1>1, <1>2, <2>3, <2>5, StillMaking
    <3>2. Underway(c, q, files)
      BY <1>2, <2>3, UnderwayBegins
    <3>3. \A t \in temps : FALSE
      BY <1>1, <3>1 DEF OnCourse
    <3>4. QED
      BY <1>2, <2>3, <3>1, <3>2, <3>3 DEF OnCourse, Written
  <2>6. QED
    BY <1>1, <2>1, <2>2, <2>4, <2>5, WizardMove
<1>5. QED
  BY <1>3, <1>4 DEF Parse

(* A revised manifest: its operations and its default change.               *)
LEMMA OpsRevised ==
    ASSUME NEW a, NEW b, NEW d, NEW v
    PROVE  [ManifestJson(a, b, d) EXCEPT !.ops = v] = ManifestJson(v, b, d)
  BY DEF ManifestJson

LEMMA DefaultRevised ==
    ASSUME NEW a, NEW b, NEW d, NEW v
    PROVE  [ManifestJson(a, b, d) EXCEPT !.default = v] = ManifestJson(a, v, d)
  BY DEF ManifestJson

LEMMA Revised ==
    ASSUME NEW m, IsManifest(m), NEW list, NEW default, default # ""
    PROVE  IsManifest([m EXCEPT !.ops = list, !.default = default])
<1>1. PICK a, b, caps : a = m.ops /\ b = m.default /\ caps = m.caps
  OBVIOUS
<1>2. m = ManifestJson(a, b, caps)
  BY <1>1 DEF IsManifest
<1>3. [ManifestJson(a, b, caps) EXCEPT !.ops = list] = ManifestJson(list, b, caps)
  BY ONLY OpsRevised DEF ManifestJson
<1>4. [ManifestJson(list, b, caps) EXCEPT !.default = default] = ManifestJson(list, default, caps)
  BY ONLY DefaultRevised
<1>5. [m EXCEPT !.ops = list, !.default = default] = [[m EXCEPT !.ops = list] EXCEPT !.default = default]
  OBVIOUS
<1>6. [m EXCEPT !.ops = list, !.default = default] = ManifestJson(list, default, caps)
  BY <1>2, <1>3, <1>4, <1>5
<1>7. IsManifest(ManifestJson(list, default, caps))
  BY ManifestWhole
<1>8. QED
  BY <1>6, <1>7

(* The same, of the two fields at once.                                     *)
RevisedBy(m, list, default) == [m EXCEPT !.ops = list, !.default = default]

LEMMA RevisedFits ==
    ASSUME NEW m, IsManifest(m), NEW list, NEW default, default # ""
    PROVE  IsManifest(RevisedBy(m, list, default))
  BY Revised DEF RevisedBy

LEMMA Added ==
    ASSUME NEW m, IsManifest(m), NEW req,
           NEW ops, ops = Append(m.ops, req.op),
           NEW default, default = IF req.setDefault THEN req.op ELSE m.default
    PROVE  AddOperation(m, req) = RevisedBy(m, ops, default)
  BY DEF AddOperation, ManifestJson, RevisedBy, IsManifest

LEMMA AddedFits ==
    ASSUME NEW m, IsManifest(m), NEW req, req.op # ""
    PROVE  IsManifest(AddOperation(m, req))
<1>1. PICK ops : ops = Append(m.ops, req.op)
  OBVIOUS
<1>2. PICK default : default = IF req.setDefault THEN req.op ELSE m.default
  OBVIOUS
<1>3. default # ""
  BY <1>2 DEF IsManifest
<1>4. AddOperation(m, req) = RevisedBy(m, ops, default)
  BY <1>1, <1>2, Added
<1>5. QED
  BY <1>3, <1>4, RevisedFits

FirstNamed(s, x) == CHOOSE k \in DOMAIN s : s[k] = x /\ \A j \in 1 .. k - 1 : s[j] # x

LEMMA Updated ==
    ASSUME NEW m, IsManifest(m), NEW req,
           NEW i, i = FirstNamed(m.ops, req.op),
           NEW ops, ops = [m.ops EXCEPT ![i] = NewName(req)],
           NEW default,
           default = IF req.setDefault \/ m.default = req.op THEN NewName(req) ELSE m.default
    PROVE  UpdateOperation(m, req) = RevisedBy(m, ops, default)
  BY DEF UpdateOperation, ManifestJson, RevisedBy, IsManifest, FirstNamed

LEMMA UpdatedFits ==
    ASSUME NEW m, IsManifest(m), NEW req, req.op # ""
    PROVE  IsManifest(UpdateOperation(m, req))
<1>1. PICK i : i = FirstNamed(m.ops, req.op)
  OBVIOUS
<1>2. PICK ops : ops = [m.ops EXCEPT ![i] = NewName(req)]
  OBVIOUS
<1>3. PICK default : default = IF req.setDefault \/ m.default = req.op THEN NewName(req) ELSE m.default
  OBVIOUS
<1>4. default # ""
  BY <1>3 DEF IsManifest, NewName
<1>5. UpdateOperation(m, req) = RevisedBy(m, ops, default)
  BY <1>1, <1>2, <1>3, Updated
<1>6. QED
  BY <1>4, <1>5, RevisedFits

LEMMA ReadManifestKeeps ==
    ASSUME IInv, NEW c \in Commands, ReadManifest(c)
    PROVE  IInv'
<1> DEFINE req == cmds[c].req
           f == files[Manifest]
           m == IF Mode(req) = "add_operation" THEN AddOperation(f.body, req)
                ELSE UpdateOperation(f.body, req)
<1>1. cmds[c].pc = "manifest" /\ UNCHANGED <<dir, git, hist>> /\ cmds[c].pc \in WizardPlaces
  BY DEF ReadManifest, At, WizardPlaces
<1>2. /\ c \in Running /\ req \in Requests /\ req.kind = "wizard" /\ PlanFits(cmds[c])
      /\ Mode(req) \in {"add_operation", "update_operation"} /\ ~Makes(req)
  <2>1. Mode(req) \in {"add_operation", "update_operation"}
    BY <1>1, WizardCommand DEF RequestFits
  <2>2. QED
    BY <1>1, <2>1, WizardCommand DEF Create
<1>3. CASE Exit(c, "failed")
  BY <1>1, <1>2, <1>3, ExitKeeps
<1>4. CASE /\ req.flaw = "none" /\ f.whole
           /\ cmds' = [cmds EXCEPT ![c].pc = "lib", ![c].read = m]
  <2>1. IsManifest(m)
    <3>1. IsManifest(f.body)
      BY <1>4 DEF IInv, DirectoryFits, FileFits, Paths, Generated
    <3>2. req.op # ""
      BY <1>2, <1>4, WizardAssumption
    <3>3. QED
      BY <3>1, <3>2, AddedFits, UpdatedFits
  <2>2. PICK q : q = Moved(cmds[c], "lib", cmds[c].plan, m, cmds[c].git)
    OBVIOUS
  <2> HIDE DEF m
  <2>3. cmds' = [cmds EXCEPT ![c] = q] /\ "lib" \in WizardPlaces
    <3>1. cmds' = WithPlaceRead(cmds, c, "lib", m)
      BY <1>4 DEF WithPlaceRead
    <3>2. QED
      BY <1>2, <2>2, <3>1, ReadMoves DEF WizardPlaces
  <2>4. q.pc = "lib" /\ q.req = req /\ q.plan = cmds[c].plan
    BY <2>2, MovedParts
  <2>5. PlanFits(q)
    BY <1>2, <2>4, PlanKeeps DEF Written
  <2>6. ~Making(q)
    BY <1>2, <2>4 DEF Making
  <2>7. QED
    BY <1>1, <1>2, <2>1, <2>2, <2>3, <2>5, <2>6, WizardMove
<1>5. QED
  BY <1>3, <1>4 DEF ReadManifest

LEMMA OperationPlanFits ==
    ASSUME NEW req, req.kind = "wizard", NEW m, IsManifest(m), NEW whole \in BOOLEAN, NEW body
    PROVE  \A item \in {FileStep(Manifest, TRUE, m), FileStep(Lib, whole, body)} : ItemFits(req, item)
<1>1. Manifest # Lib /\ Manifest \in Generated /\ Lib \in Generated
  BY DEF Manifest, Lib, Generated
<1>2. ASSUME NEW p \in {Manifest, Lib}, NEW w \in BOOLEAN, NEW text, p = Manifest => IsManifest(text)
      PROVE  ItemFits(req, FileStep(p, w, text))
  <2>1. /\ FileStep(p, w, text).path = p /\ FileStep(p, w, text).whole = w
        /\ FileStep(p, w, text).body = text
    BY DEF FileStep
  <2>2. p \in Generated
    BY <1>1
  <2>3. QED
    BY <1>2, <2>1, <2>2 DEF ItemFits
<1>3. ItemFits(req, FileStep(Manifest, TRUE, m)) /\ ItemFits(req, FileStep(Lib, whole, body))
  BY <1>1, <1>2
<1>4. QED
  BY <1>3

LEMMA RewriteLibKeeps ==
    ASSUME IInv, NEW c \in Commands, RewriteLib(c)
    PROVE  IInv'
<1> DEFINE req == cmds[c].req
           f == files[Lib]
           m == cmds[c].read
<1>1. cmds[c].pc = "lib" /\ UNCHANGED <<dir, git, hist>> /\ cmds[c].pc \in WizardPlaces
  BY DEF RewriteLib, At, WizardPlaces
<1>2. /\ c \in Running /\ req \in Requests /\ req.kind = "wizard" /\ PlanFits(cmds[c])
      /\ IsManifest(m) /\ ~Makes(req)
  <2>1. Mode(req) \in {"add_operation", "update_operation"} /\ IsManifest(m)
    BY <1>1, WizardCommand DEF RequestFits
  <2>2. QED
    BY <1>1, <2>1, WizardCommand DEF Create
<1>3. CASE Exit(c, "failed")
  BY <1>1, <1>2, <1>3, ExitKeeps
<1>4. ASSUME NEW whole \in BOOLEAN, NEW body,
             cmds' = [cmds EXCEPT ![c].pc = "output", ![c].read = Blank,
                        ![c].plan = OperationPlan(m, FileStep(Lib, whole, body))]
      PROVE  IInv'
  <2>1. PICK plan : plan = OperationPlan(m, FileStep(Lib, whole, body))
    OBVIOUS
  <2>2. PICK q : q = Moved(cmds[c], "output", plan, Blank, cmds[c].git)
    OBVIOUS
  <2>3. cmds' = [cmds EXCEPT ![c] = q] /\ "output" \in WizardPlaces
    <3>1. cmds' = WithPlaceReadPlan(cmds, c, "output", Blank, plan)
      BY <1>4, <2>1 DEF WithPlaceReadPlan
    <3>2. QED
      BY <1>2, <2>2, <3>1, RewriteMoves DEF WizardPlaces
  <2>4. q.pc = "output" /\ q.req = req /\ q.plan = plan
    BY <2>2, MovedParts
  <2>5. PlanFits(q)
    <3> DEFINE S == {FileStep(Manifest, TRUE, m), FileStep(Lib, whole, body)}
    <3>1. plan \in Seq(S)
      BY <2>1 DEF OperationPlan
    <3>2. \A item \in S : ItemFits(req, item)
      BY <1>2, OperationPlanFits
    <3> HIDE DEF S
    <3>3. QED
      BY <2>4, <3>1, <3>2, PlanOver
  <2>6. ~Making(q)
    BY <1>2, <2>4 DEF Making
  <2>7. QED
    BY <1>1, <2>2, <2>3, <2>5, <2>6, WizardMove
<1> DEFINE ops == CollectUserOperations(m)
           Planned(whole, layout) ==
             cmds' = [cmds EXCEPT ![c].pc = "output", ![c].read = Blank,
                        ![c].plan = OperationPlan(m, FileStep(Lib, whole, LibRs(ops, layout)))]
<1>5. CASE Planned(ops # {} \/ f.body.layout = "extend", f.body.layout)
  BY <1>4, <1>5
<1>6. CASE \E l \in {"vec", "extend"} : Planned(FALSE, l)
  BY <1>4, <1>6
<1>7. QED
  BY <1>3, <1>5, <1>6 DEF RewriteLib

LEMMA OutputKeeps ==
    ASSUME IInv, NEW c \in Commands, Output(c)
    PROVE  IInv'
<1> DEFINE req == cmds[c].req
<1>1. cmds[c].pc = "output" /\ UNCHANGED <<dir, git, hist>> /\ cmds[c].pc \in WizardPlaces
  BY DEF Output, At, WizardPlaces
<1>2. c \in Running /\ req \in Requests /\ req.kind = "wizard" /\ PlanFits(cmds[c])
  BY <1>1, WizardCommand
<1>3. CASE \E reply \in {"ok", "failed"} : Exit(c, reply)
  BY <1>1, <1>2, <1>3, ExitKeeps
<1>4. CASE ~Dry(req) /\ Goto(c, "step")
  <2>1. PICK q : q = Moved(cmds[c], "step", cmds[c].plan, cmds[c].read, cmds[c].git)
    OBVIOUS
  <2>2. cmds' = [cmds EXCEPT ![c] = q] /\ "step" \in WizardPlaces
    BY <1>2, <1>4, <2>1, Goes DEF WizardPlaces
  <2>3. q.pc = "step" /\ q.req = req /\ q.plan = cmds[c].plan
    BY <2>1, MovedParts
  <2>4. PlanFits(q)
    BY <1>2, <2>3, PlanKeeps DEF Written
  <2>5. ASSUME c \notin disturbed, Making(q)
        PROVE  OnCourse(c, q, files, temps, git)
    BY <1>1, <1>2, <2>3, <2>5, StillMaking, OnCourseGoes DEF Written
  <2>6. QED
    BY <1>1, <1>4, <2>1, <2>2, <2>4, <2>5, WizardMove
<1>5. QED
  BY <1>3, <1>4 DEF Output

(* The steps of a plan, executed in place.                                  *)
LEMMA AtStepParts ==
    ASSUME IInv, NEW c \in Commands, NEW what, AtStep(c, what)
    PROVE  /\ cmds[c].pc = "step" /\ cmds[c].plan # <<>> /\ Head(cmds[c].plan).step = what
           /\ cmds[c].pc \in WizardPlaces /\ ~Dry(cmds[c].req)
           /\ c \in Running /\ cmds[c].req \in Requests /\ cmds[c].req.kind = "wizard"
           /\ PlanFits(cmds[c]) /\ cmds = [d \in Commands |-> cmds[d]] /\ cmds[c].git = "none"
           /\ OnwardPlace(cmds[c]) = "step"
<1>1. cmds[c].pc = "step" /\ cmds[c].plan # <<>> /\ Head(cmds[c].plan).step = what
  BY DEF AtStep, At, Next1
<1>2. cmds[c].pc \in WizardPlaces
  BY <1>1 DEF WizardPlaces
<1>3. QED
  BY <1>1, <1>2, WizardCommand DEF RequestFits, OnwardPlace

LEMMA EnsureDirsKeeps ==
    ASSUME IInv, NEW c \in Commands, EnsureDirs(c)
    PROVE  IInv'
<1>1. /\ AtStep(c, "dirs") /\ root' = TRUE /\ subdirs' = TRUE /\ Onward(c)
      /\ UNCHANGED <<files, temps, git, hist>>
  BY DEF EnsureDirs
<1>2. /\ c \in Running /\ cmds[c].req \in Requests /\ cmds[c].req.kind = "wizard"
      /\ cmds[c].plan # <<>> /\ Head(cmds[c].plan).step = "dirs" /\ ~Dry(cmds[c].req)
      /\ OnwardPlace(cmds[c]) = "step" /\ cmds[c].pc = "step"
  BY <1>1, AtStepParts
<1>3. PICK q : /\ cmds' = [cmds EXCEPT ![c] = q] /\ CommandFits(q)
               /\ q.pc = "step" /\ q.req = cmds[c].req /\ q.plan = Tail(cmds[c].plan)
  BY <1>1, <1>2, OnwardFits
<1>4. DirectoryFits'
  <2>1. \A p \in Paths : FileFits(p, files[p], cmds')
    BY <1>2, <1>3, OthersFiles DEF IInv, DirectoryFits
  <2>2. \A t \in temps : TempFits(t, cmds')
    BY <1>2, <1>3, EmptyHanded, OthersTemps DEF IInv, DirectoryFits
  <2>3. QED
    BY <1>1, <2>1, <2>2 DEF IInv, DirectoryFits
<1>5. ASSUME c \notin disturbed, Making(q)
      PROVE  OnCourse(c, q, files', temps', git')
  <2>1. OnCourse(c, cmds[c], files, temps, git) /\ Makes(cmds[c].req)
    BY <1>2, <1>3, <1>5, StillMaking
  <2>2. Underway(c, cmds[c], files) /\ ~HasFile(Head(cmds[c].plan))
    BY <1>2, <2>1, HeadHasFile DEF OnCourse
  <2>3. Underway(c, q, files)
    BY <1>2, <1>3, <2>1, <2>2, UnderwayAdvances
  <2>4. \A t \in temps : FALSE
    BY <1>2, <2>1 DEF OnCourse
  <2>5. QED
    BY <1>1, <1>2, <1>3, <2>1, <2>3, <2>4 DEF OnCourse, Written
<1>6. QED
  BY <1>1, <1>2, <1>3, <1>4, <1>5, StepKeeps DEF hist, IInv

LEMMA OpenFileKeeps ==
    ASSUME IInv, NEW c \in Commands, OpenFile(c)
    PROVE  IInv'
<1> DEFINE f == Head(cmds[c].plan)
           p == f.path
           g == [by |-> c, whole |-> FALSE, x |-> files[p].x, body |-> Blank]
<1>1. /\ AtStep(c, "file") /\ root' = TRUE /\ subdirs' = (subdirs \/ p = Lib)
      /\ files' = [files EXCEPT ![p] = [by |-> c, whole |-> FALSE, x |-> @.x, body |-> Blank]]
      /\ Goto(c, "fill") /\ UNCHANGED <<temps, git, hist>>
  BY DEF OpenFile, Next1
<1>2. /\ c \in Running /\ cmds[c].req \in Requests /\ cmds[c].req.kind = "wizard"
      /\ cmds[c].plan # <<>> /\ f.step = "file" /\ ~Dry(cmds[c].req) /\ PlanFits(cmds[c])
      /\ cmds[c].pc = "step" /\ cmds = [d \in Commands |-> cmds[d]] /\ cmds[c].git = "none"
  BY <1>1, AtStepParts
<1>3. p \in Paths
  BY <1>2, NextItem DEF ItemFits, Paths, Generated, Lib, Manifest
<1>4. files' = [files EXCEPT ![p] = g]
  BY <1>1, <1>3 DEF IInv, DirectoryFits
<1>5. PICK q : q = Moved(cmds[c], "fill", cmds[c].plan, cmds[c].read, cmds[c].git)
  OBVIOUS
<1>6. cmds' = [cmds EXCEPT ![c] = q] /\ "fill" \in WizardPlaces
  BY <1>1, <1>2, <1>5, Goes DEF WizardPlaces
<1>7. q.pc = "fill" /\ q.req = cmds[c].req /\ q.plan = cmds[c].plan
  BY <1>5, MovedParts
<1>8. CommandFits(q)
  <2>1. PlanFits(q)
    BY <1>2, <1>7, PlanKeeps DEF Written
  <2>2. RequestFits(q)
    BY <1>2, <1>6, <1>7, WizardRequestFits
  <2>3. QED
    BY <1>2, <1>5, <1>6, <2>1, <2>2, MovedFits
<1>9. DirectoryFits'
  <2>1. \A t \in temps' : t \in temps /\ t[1] # c
    BY <1>1, <1>2, EmptyHanded
  <2>2. subdirs' \in BOOLEAN
    BY <1>1 DEF IInv, DirectoryFits
  <2>3. cmds'[c] = q
    BY <1>2, <1>6
  <2>4. FileFits(p, g, cmds')
    <3>1. g.by = c /\ g.whole = FALSE /\ g.x = files[p].x
      OBVIOUS
    <3>2. g = [by |-> g.by, whole |-> g.whole, x |-> g.x, body |-> g.body]
      OBVIOUS
    <3>3. files[p].x \in BOOLEAN
      BY <1>3 DEF IInv, DirectoryFits, FileFits
    <3>4. cmds'[c].pc = "fill" /\ cmds'[c].req.kind = "wizard"
      BY <1>2, <1>7, <2>3
    <3> HIDE DEF g
    <3>5. QED
      BY <3>1, <3>2, <3>3, <3>4, CommandNumbers DEF FileFits
  <2> HIDE DEF p, g
  <2>5. QED
    BY <1>1, <1>2, <1>3, <1>4, <1>6, <1>7, <2>1, <2>2, <2>4, FileWritten
<1>10. ASSUME c \notin disturbed, Making(q)
       PROVE  OnCourse(c, q, files', temps', git')
  <2>1. OnCourse(c, cmds[c], files, temps, git) /\ Makes(cmds[c].req)
    BY <1>2, <1>7, <1>10, StillMaking
  <2>2. Underway(c, cmds[c], files) /\ HasFile(f)
    BY <1>2, <2>1, HeadHasFile DEF OnCourse
  <2>3. /\ files'[p] = g /\ \A y \in Paths : y = p \/ files'[y] = files[y]
    BY <1>3, <1>4 DEF IInv, DirectoryFits
  <2>4. files'[p].by = c
    BY <2>3
  <2>5. Underway(c, q, files')
    BY <1>2, <1>7, <2>1, <2>2, <2>3, <2>4, UnderwayStays
  <2>6. \A y \in Paths : files'[y] = Absent \/ files'[y].by = c
    BY <2>1, <2>3, <2>4 DEF OnCourse
  <2>7. \A t \in temps : FALSE
    BY <1>2, <2>1 DEF OnCourse
  <2>8. QED
    BY <1>1, <1>2, <1>7, <2>5, <2>6, <2>7 DEF OnCourse, Written
<1>11. QED
  BY <1>1, <1>2, <1>6, <1>7, <1>8, <1>9, <1>10, StepKeeps DEF hist, IInv

(* The next record of a run that has filled a file.                         *)
\* The two lemmas of the plan, for the step that has just delivered the head of the plan,
\* and for the one that has written it and still has to make it executable.
LEMMA HeadWritten ==
    ASSUME NEW c, cmds[c].req \in Requests, Makes(cmds[c].req), Underway(c, cmds[c], files),
           cmds[c].plan # <<>>, NEW q, q.req = cmds[c].req, q.plan = Tail(cmds[c].plan),
           q.pc \notin {"fill", "chmod"},
           Delivered(c, Head(cmds[c].plan), files'[Head(cmds[c].plan).path]),
           \A p \in Paths :
             (files'[p] = files[p]) \/ (HasFile(Head(cmds[c].plan)) /\ p = Head(cmds[c].plan).path)
    PROVE  Underway(c, q, files')
  BY UnderwayAdvances

LEMMA HeadStays ==
    ASSUME NEW c, cmds[c].req \in Requests, Makes(cmds[c].req), Underway(c, cmds[c], files),
           cmds[c].plan # <<>>, NEW q, q.req = cmds[c].req, q.plan = cmds[c].plan,
           q.pc = "chmod", Put(c, Head(cmds[c].plan), files'[Head(cmds[c].plan).path]),
           \A p \in Paths :
             (files'[p] = files[p]) \/ (HasFile(Head(cmds[c].plan)) /\ p = Head(cmds[c].plan).path)
    PROVE  Underway(c, q, files')
  BY UnderwayStays

LEMMA FilledFits ==
    ASSUME IInv, NEW c \in Commands, cmds[c].pc = "fill",
           IF Executable(Head(cmds[c].plan).path) THEN Goto(c, "chmod") ELSE Onward(c)
    PROVE  \E q : /\ cmds' = [cmds EXCEPT ![c] = q] /\ CommandFits(q) /\ q.req = cmds[c].req
                  /\ IF Executable(Head(cmds[c].plan).path)
                     THEN q.pc = "chmod" /\ q.plan = cmds[c].plan
                     ELSE q.pc = "step" /\ q.plan = Tail(cmds[c].plan)
<1> DEFINE f == Head(cmds[c].plan)
<1>1. /\ c \in Running /\ cmds[c].req \in Requests /\ cmds[c].req.kind = "wizard"
      /\ cmds[c].plan # <<>> /\ f.step = "file" /\ ~Dry(cmds[c].req) /\ PlanFits(cmds[c])
      /\ cmds[c].git = "none"
  BY WizardCommand DEF WizardPlaces, PlanFits, RequestFits
<1>2. f.path \in IF Makes(cmds[c].req) THEN Generated ELSE {Manifest, Lib}
  BY <1>1, NextItem DEF ItemFits
<1>3. CASE Executable(f.path)
  <2>1. PICK q : q = Moved(cmds[c], "chmod", cmds[c].plan, cmds[c].read, cmds[c].git)
    OBVIOUS
  <2>2. cmds' = [cmds EXCEPT ![c] = q]
    BY <1>1, <1>3, <2>1, Goes
  <2>3. q.pc = "chmod" /\ q.req = cmds[c].req /\ q.plan = cmds[c].plan
    BY <2>1, MovedParts
  <2>4. Makes(cmds[c].req)
    BY <1>2, <1>3 DEF Executable, Manifest, Lib
  <2>5. PlanFits(q)
    BY <1>1, <2>3, PlanKeeps DEF Written
  <2>6. RequestFits(q)
    BY <1>1, <2>3, <2>4 DEF RequestFits, NewPlaces, WizardPlaces
  <2>7. CommandFits(q)
    BY <1>1, <2>1, <2>5, <2>6, MovedFits
  <2>8. QED
    BY <1>3, <2>2, <2>3, <2>7
<1>4. CASE ~Executable(f.path)
  <2>1. Onward(c) /\ OnwardPlace(cmds[c]) = "step"
    BY <1>1, <1>4 DEF OnwardPlace
  <2>2. QED
    BY <1>1, <1>4, <2>1, OnwardFits
<1>5. QED
  BY <1>3, <1>4

LEMMA FillFileKeeps ==
    ASSUME IInv, NEW c \in Commands, FillFile(c)
    PROVE  IInv'
<1> DEFINE f == Head(cmds[c].plan)
           p == f.path
           g == [by |-> c, whole |-> f.whole, x |-> files[p].x, body |-> f.body]
<1>1. /\ cmds[c].pc = "fill" /\ UNCHANGED <<root, subdirs, temps, git, hist>>
      /\ cmds[c].pc \in WizardPlaces
      /\ \/ files[p] # Absent /\ files' = [files EXCEPT ![p] = g]
         \/ files[p].by # c /\ UNCHANGED files
      /\ IF Executable(p) THEN Goto(c, "chmod") ELSE Onward(c)
  BY DEF FillFile, At, Next1, WizardPlaces
<1>2. /\ c \in Running /\ cmds[c].req \in Requests /\ cmds[c].req.kind = "wizard"
      /\ cmds[c].plan # <<>> /\ f.step = "file" /\ PlanFits(cmds[c])
      /\ cmds = [d \in Commands |-> cmds[d]]
  BY <1>1, WizardCommand DEF PlanFits
<1>3. p \in Paths /\ f.whole \in BOOLEAN /\ (p = Manifest => IsManifest(f.body))
  BY <1>2, NextItem DEF ItemFits, Paths, Generated, Lib, Manifest
<1>4. PICK q : /\ cmds' = [cmds EXCEPT ![c] = q] /\ CommandFits(q) /\ q.req = cmds[c].req
               /\ IF Executable(p) THEN q.pc = "chmod" /\ q.plan = cmds[c].plan
                  ELSE q.pc = "step" /\ q.plan = Tail(cmds[c].plan)
  BY <1>1, FilledFits
<1>5. q.pc \in {"step", "chmod"}
  BY <1>4
<1>6. CASE files[p] # Absent /\ files' = [files EXCEPT ![p] = g]
  <2>1. DirectoryFits'
    <3>1. \A t \in temps' : t \in temps /\ t[1] # c
      BY <1>1, <1>2, EmptyHanded
    <3>2. root' = TRUE /\ subdirs' \in BOOLEAN
      BY <1>1, <1>3, <1>6, FileMeansRoot DEF IInv, DirectoryFits
    <3>3. cmds'[c] = q
      BY <1>2, <1>4
    <3>4. FileFits(p, g, cmds')
      <4>1. g.by = c /\ g.whole = f.whole /\ g.x = files[p].x /\ g.body = f.body
        OBVIOUS
      <4>2. g = [by |-> g.by, whole |-> g.whole, x |-> g.x, body |-> g.body]
        OBVIOUS
      <4>3. files[p].x \in BOOLEAN
        BY <1>3 DEF IInv, DirectoryFits, FileFits
      <4>4. cmds'[c].pc # "off" /\ cmds'[c].req.kind = "wizard"
        BY <1>2, <1>4, <1>5, <3>3
      <4> HIDE DEF g
      <4>5. QED
        BY <1>3, <4>1, <4>2, <4>3, <4>4, CommandNumbers DEF FileFits
    <3> HIDE DEF p, g
    <3>5. QED
      BY <1>1, <1>2, <1>3, <1>4, <1>5, <1>6, <3>1, <3>2, <3>4, FileWritten
  <2>2. ASSUME c \notin disturbed, Making(q)
        PROVE  OnCourse(c, q, files', temps', git')
    <3>1. OnCourse(c, cmds[c], files, temps, git) /\ Makes(cmds[c].req)
      BY <1>1, <1>2, <1>4, <2>2, StillMaking
    <3>2. Underway(c, cmds[c], files) /\ HasFile(f) /\ f.whole
      BY <1>1, <1>2, <3>1, HeadHasFile DEF OnCourse
    <3>3. /\ files'[p] = g /\ \A y \in Paths : y = p \/ files'[y] = files[y]
      BY <1>3, <1>6 DEF IInv, DirectoryFits
    <3>4. Put(c, f, files'[p])
      BY <3>2, <3>3 DEF Put
    <3>5. Underway(c, q, files')
      <4>1. CASE Executable(p)
        <5>1. /\ cmds[c].req \in Requests /\ Makes(cmds[c].req) /\ Underway(c, cmds[c], files)
              /\ cmds[c].plan # <<>> /\ q.req = cmds[c].req /\ q.plan = cmds[c].plan
              /\ q.pc = "chmod" /\ Put(c, Head(cmds[c].plan), files'[Head(cmds[c].plan).path])
          BY <1>2, <1>4, <3>1, <3>2, <3>4, <4>1
        <5>2. \A y \in Paths :
                (files'[y] = files[y]) \/ (HasFile(Head(cmds[c].plan)) /\ y = Head(cmds[c].plan).path)
          BY <3>2, <3>3
        <5>3. QED
          BY <5>1, <5>2, HeadStays
      <4>2. CASE ~Executable(p)
        <5>1. /\ cmds[c].req \in Requests /\ Makes(cmds[c].req) /\ Underway(c, cmds[c], files)
              /\ cmds[c].plan # <<>> /\ q.req = cmds[c].req /\ q.plan = Tail(cmds[c].plan)
              /\ q.pc \notin {"fill", "chmod"}
          BY <1>2, <1>4, <3>1, <3>2, <4>2
        <5>2. Delivered(c, Head(cmds[c].plan), files'[Head(cmds[c].plan).path])
          BY <3>4, <4>2 DEF Delivered
        <5>3. \A y \in Paths :
                (files'[y] = files[y]) \/ (HasFile(Head(cmds[c].plan)) /\ y = Head(cmds[c].plan).path)
          BY <3>2, <3>3
        <5>4. QED
          BY <5>1, <5>2, <5>3, HeadWritten
      <4>3. QED
        BY <4>1, <4>2
    <3>6. files'[p].by = c
      BY <3>3
    <3>7. \A y \in Paths : files'[y] = Absent \/ files'[y].by = c
      BY <3>1, <3>3, <3>6 DEF OnCourse
    <3>8. \A t \in temps' : FALSE
      BY <1>1, <3>1 DEF OnCourse
    <3>9. QED
      BY <1>2, <1>4, <1>5, <3>5, <3>7, <3>8 DEF OnCourse, Written
  <2>3. QED
    BY <1>1, <1>2, <1>4, <1>5, <2>1, <2>2, StepKeeps DEF hist, IInv
<1>7. CASE files[p].by # c /\ UNCHANGED files
  <2>1. DirectoryFits'
    BY <1>1, <1>2, <1>4, <1>5, <1>7, DirectoryStays DEF dir
  <2>2. ASSUME c \notin disturbed, Making(q)
        PROVE  FALSE
    <3>1. OnCourse(c, cmds[c], files, temps, git) /\ Makes(cmds[c].req)
      BY <1>1, <1>2, <1>4, <2>2, StillMaking
    <3>2. QED
      BY <1>1, <1>2, <1>7, <3>1, UnderwayHalf DEF OnCourse
  <2>3. QED
    BY <1>1, <1>2, <1>4, <1>5, <2>1, <2>2, StepKeeps DEF hist, IInv
<1>8. QED
  BY <1>1, <1>6, <1>7

LEMMA StepFailsKeeps ==
    ASSUME IInv, NEW c \in Commands, StepFails(c)
    PROVE  IInv'
<1>1. cmds[c].pc \in WizardPlaces /\ Exit(c, "failed") /\ UNCHANGED <<dir, git, hist>>
  BY DEF StepFails, WizardPlaces
<1>2. c \in Running /\ cmds[c].pc # "persist"
  BY <1>1, WizardCommand
<1>3. QED
  BY <1>1, <1>2, ExitKeeps

LEMMA ExecutedKeeps ==
    ASSUME IInv, NEW c \in Commands, Executed(c)
    PROVE  IInv'
<1>1. cmds[c].pc \in WizardPlaces /\ Exit(c, "ok") /\ UNCHANGED <<dir, git, hist>>
  BY DEF Executed, At, WizardPlaces
<1>2. c \in Running /\ cmds[c].pc # "persist"
  BY <1>1, WizardCommand
<1>3. QED
  BY <1>1, <1>2, ExitKeeps

(* A run that calls build, test or doctor makes no project: its plan is not *)
(* the script of one.                                                       *)
LEMMA CallsMakeNothing ==
    ASSUME IInv, NEW c \in Commands, NEW what, AtStep(c, what), what \notin {"dirs", "file"},
           c \notin disturbed
    PROVE  ~Makes(cmds[c].req)
<1>1. /\ c \in Running /\ cmds[c].req \in Requests /\ cmds[c].req.kind = "wizard"
      /\ cmds[c].plan # <<>> /\ Head(cmds[c].plan).step = what /\ ~Dry(cmds[c].req)
      /\ cmds[c].pc = "step"
  BY AtStepParts
<1>2. SUFFICES ASSUME Makes(cmds[c].req) PROVE FALSE
  OBVIOUS
<1>3. Making(cmds[c])
  BY <1>1, <1>2 DEF Making
<1>4. Underway(c, cmds[c], files)
  BY <1>1, <1>3, CommandParts DEF OnCourse
<1> DEFINE s == Script(cmds[c].req)
<1>5. PICK k \in DOMAIN s : Head(cmds[c].plan) = s[k]
  <2>1. PICK r, fs : r = cmds[c] /\ fs = files
    OBVIOUS
  <2>2. \E k \in 1 .. Len(Script(r.req)) :
          k \in DOMAIN Script(r.req) /\ Head(r.plan) = Script(r.req)[k]
    <3>1. r.req \in Requests /\ Makes(r.req) /\ Underway(c, r, fs) /\ r.plan # <<>>
      BY <1>1, <1>2, <1>4, <2>1
    <3>2. QED
      BY <3>1, UnderwayHead
  <2>3. QED
    BY <2>1, <2>2
<1>6. /\ DOMAIN s = 1 .. 5 /\ s[1] = DirStep
      /\ \A i \in 2 .. 5 : s[i] = FileStep(Tour[i - 1], TRUE, ScriptBody(cmds[c].req, Tour[i - 1]))
  BY <1>1, CreateScript
<1>7. k = 1 \/ k \in 2 .. 5
  BY <1>6
<1>8. s[k].step \in {"dirs", "file"}
  BY <1>6, <1>7 DEF DirStep, FileStep
<1>9. QED
  BY <1>1, <1>5, <1>8

LEMMA BuildKeeps ==
    ASSUME IInv, NEW c \in Commands, Build(c)
    PROVE  IInv'
<1> DEFINE item == FileStep(Manifest, TRUE, files[Manifest].body)
           plan == <<item>> \o Tail(cmds[c].plan)
<1>1. /\ AtStep(c, "build") /\ files[Manifest].whole
      /\ cmds' = [cmds EXCEPT ![c].plan = plan] /\ UNCHANGED <<dir, git, hist>>
  BY WholeCommand, AtStepParts DEF Build
<1>2. /\ c \in Running /\ cmds[c].req \in Requests /\ cmds[c].req.kind = "wizard"
      /\ cmds[c].plan # <<>> /\ ~Dry(cmds[c].req) /\ PlanFits(cmds[c]) /\ cmds[c].pc = "step"
      /\ cmds[c].pc \in WizardPlaces
  BY <1>1, AtStepParts
<1>3. PICK q : q = Moved(cmds[c], "step", plan, cmds[c].read, cmds[c].git)
  OBVIOUS
<1>4. cmds' = [cmds EXCEPT ![c] = q]
  <2>1. cmds' = WithPlan(cmds, c, plan)
    BY <1>1 DEF WithPlan
  <2> HIDE DEF plan
  <2>2. QED
    BY <1>2, <1>3, <2>1, PlannedMoves
<1>5. q.pc = "step" /\ q.req = cmds[c].req /\ q.plan = plan
  <2> HIDE DEF plan
  <2>1. QED
    BY <1>3, MovedParts
<1>6. PlanFits(q)
  <2> DEFINE T == {Tail(cmds[c].plan)[i] : i \in DOMAIN Tail(cmds[c].plan)}
             S == {item} \cup T
  <2>1. /\ Tail(cmds[c].plan) \in Seq(T)
        /\ \A x \in T : \E j \in DOMAIN cmds[c].plan : x = cmds[c].plan[j]
    BY <1>2, TailElements DEF PlanFits
  <2>2. \A x \in T : ItemFits(q.req, x)
    BY <1>2, <1>5, <2>1 DEF PlanFits
  <2>3. ItemFits(q.req, item)
    <3>1. IsManifest(files[Manifest].body)
      BY <1>1 DEF IInv, DirectoryFits, FileFits, Paths, Generated
    <3>2. /\ item.path = Manifest /\ item.whole = TRUE /\ item.body = files[Manifest].body
      BY DEF FileStep
    <3> HIDE DEF item
    <3>3. Manifest \in Generated
      BY DEF Generated
    <3>4. QED
      BY <3>1, <3>2, <3>3 DEF ItemFits
  <2> HIDE DEF item, T
  <2>4. <<item>> \in Seq(S) /\ Tail(cmds[c].plan) \in Seq(S)
    BY <2>1
  <2>5. plan \in Seq(S)
    BY <2>4, ConcatProperties
  <2> HIDE DEF plan
  <2>6. QED
    BY <1>5, <2>2, <2>3, <2>5, PlanOver
<1>7. ASSUME c \notin disturbed PROVE ~Making(q)
  BY <1>1, <1>5, <1>7, CallsMakeNothing DEF Making
<1> HIDE DEF plan
<1>8. "step" \in WizardPlaces /\ "step" \notin {"clear", "parse", "manifest", "lib"}
  BY DEF WizardPlaces
<1>9. QED
  BY <1>1, <1>2, <1>3, <1>4, <1>6, <1>7, <1>8, WizardMove

LEMMA CallKeeps ==
    ASSUME IInv, NEW c \in Commands, Call(c)
    PROVE  IInv'
<1>1. PICK what \in {"test", "doctor"} : AtStep(c, what) /\ Onward(c) /\ UNCHANGED <<dir, git, hist>>
  BY DEF Call
<1>2. /\ c \in Running /\ cmds[c].plan # <<>> /\ ~Dry(cmds[c].req) /\ cmds[c].pc = "step"
      /\ OnwardPlace(cmds[c]) = "step"
  BY <1>1, AtStepParts
<1>3. PICK q : /\ cmds' = [cmds EXCEPT ![c] = q] /\ CommandFits(q)
               /\ q.pc = "step" /\ q.req = cmds[c].req
  BY <1>1, <1>2, OnwardFits
<1>4. ASSUME c \notin disturbed PROVE ~Making(q)
  BY <1>1, <1>3, <1>4, CallsMakeNothing DEF Making
<1>5. QED
  BY <1>1, <1>2, <1>3, <1>4, QuietStep

-----------------------------------------------------------------------------
(* Commands start and are killed; the developer edits.                      *)

LEMMA KillKeeps ==
    ASSUME IInv, NEW c \in Commands, Kill(c)
    PROVE  IInv'
<1>1. /\ c \in Running /\ kills < MaxKills /\ Exit(c, "killed") /\ kills' = kills + 1
      /\ UNCHANGED <<dir, git, edits, disturbed>>
  BY DEF Kill
<1>2. PICK q : q = Left(cmds[c], "killed")
  OBVIOUS
<1>3. /\ cmds' = [cmds EXCEPT ![c] = q] /\ CommandFits(q) /\ q.pc = "done" /\ q.req = cmds[c].req
      /\ q.reply = "killed"
  BY <1>1, <1>2, ExitFits
<1>4. DirectoryFits'
  BY <1>1, <1>3, DirectoryStays
<1>5. kills' \in 0 .. MaxKills /\ edits' \in 0 .. MaxEdits
  <2>1. MaxKills \in {MaxCommands, MaxKills, MaxEdits}
    OBVIOUS
  <2>2. MaxKills \in Nat
    BY <2>1, ProjectAssumption
  <2>3. kills \in 0 .. MaxKills /\ edits \in 0 .. MaxEdits
    BY DEF IInv
  <2>4. QED
    BY <1>1, <2>2, <2>3
<1>6. QED
  BY <1>1, <1>3, <1>4, <1>5, StepKeeps

LEMMA EditKeeps ==
    ASSUME IInv, NEW p \in {Notes, Lib, Manifest}, Edit(p)
    PROVE  IInv'
<1>1. /\ root /\ edits < MaxEdits /\ edits' = edits + 1 /\ disturbed' = disturbed \cup Running
      /\ UNCHANGED <<root, subdirs, temps, git, cmds, kills>>
  BY DEF Edit
<1>2. /\ p \in Paths /\ Notes # Manifest /\ Lib # Manifest /\ Notes # Lib
      /\ Manifest \in Paths
  BY DEF Paths, Generated, Notes, Lib, Manifest
<1>3. PICK body : /\ files' = [files EXCEPT ![p] = File(Dev, body)]
                  /\ p = Manifest => IsManifest(body)
  <2>1. CASE p = Notes /\ files' = [files EXCEPT ![p] = File(Dev, Blank)]
    BY <1>2, <2>1
  <2>2. CASE p = Lib /\ files' = [files EXCEPT ![p] = File(Dev, LibRs({}, "other"))]
    BY <1>2, <2>2
  <2>3. CASE /\ p = Manifest /\ files[p].whole
             /\ files' = [files EXCEPT ![p] =
                            File(Dev, [files[p].body EXCEPT !.ops = Append(@, "by_hand")])]
    <3>1. IsManifest(files[p].body)
      BY <1>2, <2>3 DEF IInv, DirectoryFits, FileFits
    <3>2. PICK m, list : m = files[p].body /\ list = Append(m.ops, "by_hand")
      OBVIOUS
    <3>3. PICK a, b, caps : a = m.ops /\ b = m.default /\ caps = m.caps
      OBVIOUS
    <3>4. m = ManifestJson(a, b, caps) /\ b # ""
      BY <3>1, <3>2, <3>3 DEF IsManifest
    <3>5. [ManifestJson(a, b, caps) EXCEPT !.ops = list] = ManifestJson(list, b, caps)
      BY ONLY OpsRevised DEF ManifestJson
    <3>6. IsManifest(ManifestJson(list, b, caps))
      BY <3>4, ManifestWhole
    <3>7. [m EXCEPT !.ops = Append(@, "by_hand")] = [m EXCEPT !.ops = list]
      BY <3>2, <3>4 DEF ManifestJson
    <3>8. IsManifest([m EXCEPT !.ops = Append(@, "by_hand")])
      BY <3>4, <3>5, <3>6, <3>7
    <3>9. QED
      BY <2>3, <3>2, <3>8
  <2>4. QED
    BY <2>1, <2>2, <2>3 DEF Edit
<1>4. MaxCommands \in Nat /\ MaxEdits \in Nat
  <2>1. {MaxCommands, MaxEdits} \subseteq {MaxCommands, MaxKills, MaxEdits}
    OBVIOUS
  <2>2. QED
    BY <2>1, ProjectAssumption
<1>5. Dev \in 0 .. Dev /\ Dev # 0 /\ Dev \notin Commands
  BY <1>4 DEF Dev, Commands
<1>6. FileFits(p, File(Dev, body), cmds)
  BY <1>3, <1>5 DEF FileFits, File
<1>7. DirectoryFits'
  <2>1. files = [y \in Paths |-> files[y]] /\ \A y \in Paths : FileFits(y, files[y], cmds)
    BY DEF IInv, DirectoryFits
  <2>2. files' = [y \in Paths |-> files'[y]]
    BY <1>3, <2>1
  <2>3. \A y \in Paths : FileFits(y, files'[y], cmds)
    BY <1>2, <1>3, <1>6, <2>1
  <2>4. \A t \in temps' : TempFits(t, cmds)
    BY <1>1 DEF IInv, DirectoryFits
  <2>5. QED
    BY <1>1, <2>2, <2>3, <2>4 DEF IInv, DirectoryFits
<1>8. Running' \ disturbed' = {} /\ disturbed' \subseteq Commands
  BY <1>1 DEF Running, IInv
<1>9. edits' \in 0 .. MaxEdits
  BY <1>1, <1>4 DEF IInv
<1>10. QED
  BY <1>1, <1>7, <1>8, <1>9 DEF IInv

(* A command starts: nothing of it is in the directory yet, and with        *)
(* another one running both are disturbed.                                  *)
LEMMA StartKeeps ==
    ASSUME IInv, NEW c \in Commands, NEW req \in Requests, NEW l,
           \/ l = "check" /\ req.kind = "new"
           \/ l = "resolve" /\ req.kind = "wizard",
           Start(c, req, l)
    PROVE  IInv'
<1>1. /\ cmds[c].pc = "off" /\ cmds = [d \in Commands |-> cmds[d]]
      /\ cmds' = [cmds EXCEPT ![c] = [Idle EXCEPT !.pc = l, !.req = req]]
      /\ disturbed' = IF Running = {} THEN disturbed ELSE disturbed \cup Running \cup {c}
      /\ UNCHANGED <<dir, git, kills, edits>>
  BY DEF Start, At, IInv
<1>2. PICK q : q = [pc |-> l, req |-> req, plan |-> <<>>, read |-> Blank, reply |-> "none", git |-> "none"]
  OBVIOUS
<1>3. q = [Idle EXCEPT !.pc = l, !.req = req]
  <2>1. [Idle EXCEPT !.pc = l]
          = [pc |-> l, req |-> Blank, plan |-> <<>>, read |-> Blank, reply |-> "none", git |-> "none"]
    BY DEF Idle
  <2>2. [[pc |-> l, req |-> Blank, plan |-> <<>>, read |-> Blank, reply |-> "none", git |-> "none"]
           EXCEPT !.req = req] = q
    BY <1>2
  <2>3. [Idle EXCEPT !.pc = l, !.req = req] = [[Idle EXCEPT !.pc = l] EXCEPT !.req = req]
    OBVIOUS
  <2>4. QED
    BY <2>1, <2>2, <2>3
<1>4. cmds' = [cmds EXCEPT ![c] = q]
  BY <1>1, <1>3
<1>5. cmds'[c] = q /\ \A d \in Commands : d # c => cmds'[d] = cmds[d]
  BY <1>1, <1>4
<1>6. /\ q.pc = l /\ q.req = req /\ q.plan = <<>> /\ q.reply = "none" /\ q.git = "none"
      /\ l \in {"check", "resolve"}
      /\ q = [pc |-> q.pc, req |-> q.req, plan |-> q.plan, read |-> q.read, reply |-> q.reply,
              git |-> q.git]
  BY <1>2
<1>7. CommandFits(q)
  <2>1. PlanFits(q)
    <3>1. <<>> \in Seq({<<>>[i] : i \in DOMAIN <<>>}) /\ DOMAIN <<>> = {}
      OBVIOUS
    <3>2. QED
      BY <1>6, <3>1 DEF PlanFits
  <2>2. RequestFits(q)
    BY <1>6 DEF RequestFits, NewPlaces, WizardPlaces
  <2>3. q.pc \in NewPlaces \cup WizardPlaces
    BY <1>6 DEF NewPlaces, WizardPlaces
  <2>4. QED
    BY <1>6, <2>1, <2>2, <2>3 DEF CommandFits
<1>8. \A d \in Commands : CommandFits(cmds'[d])
  BY <1>5, <1>7 DEF IInv
<1>9. DirectoryFits'
  <2>1. ASSUME NEW p \in Paths PROVE FileFits(p, files[p], cmds')
    <3>1. FileFits(p, files[p], cmds)
      BY DEF IInv, DirectoryFits
    <3>2. files[p].by # c
      BY <1>1, <3>1 DEF FileFits
    <3>3. QED
      BY <1>5, <3>1, <3>2 DEF FileFits
  <2>2. ASSUME NEW t \in temps PROVE TempFits(t, cmds')
    <3>1. TempFits(t, cmds)
      BY DEF IInv, DirectoryFits
    <3>2. t[1] \in Commands /\ t[1] # c
      BY <1>1, <3>1 DEF TempFits
    <3>3. cmds'[t[1]] = cmds[t[1]]
      BY <1>5, <3>2
    <3>4. QED
      BY <3>1, <3>3 DEF TempFits
  <2>3. NonEmpty' = NonEmpty
    BY <1>1 DEF NonEmpty, dir
  <2>4. QED
    BY <1>1, <2>1, <2>2, <2>3 DEF IInv, DirectoryFits, dir
<1>10. ASSUME NEW d \in Running' \ disturbed'
       PROVE  /\ Running' = {d}
              /\ Making(cmds'[d]) => OnCourse(d, cmds'[d], files', temps', git')
  <2>1. Running' = Running \cup {c} /\ c \in Running'
    BY <1>1, <1>5, <1>6 DEF Running
  <2>2. Running = {}
    BY <1>1, <1>10, <2>1
  <2>3. d = c /\ Running' = {c}
    BY <1>10, <2>1, <2>2
  <2>4. ~Making(cmds'[d])
    BY <1>5, <1>6, <2>3 DEF Making
  <2>5. QED
    BY <2>3, <2>4
<1>11. disturbed' \subseteq Commands
  BY <1>1 DEF IInv, Running
<1>12. cmds' = [d \in Commands |-> cmds'[d]]
  BY <1>1, <1>4
<1>13. QED
  BY <1>1, <1>8, <1>9, <1>10, <1>11, <1>12 DEF IInv

LEMMA StutterKeeps ==
    ASSUME IInv, UNCHANGED vars
    PROVE  IInv'
<1>1. DirectoryFits'
  BY DEF vars, dir, hist, IInv, DirectoryFits, NonEmpty
<1>2. Running' = Running
  BY DEF vars, Running
<1>3. QED
  BY <1>1, <1>2 DEF vars, dir, hist, IInv

LEMMA StepIInv ==
    ASSUME IInv, [Next]_vars
    PROVE  IInv'
<1>1. ASSUME NEW c \in Commands, NewStep(c) PROVE IInv'
  <2>1. CASE StartNew(c)
    BY <2>1, StartKeeps DEF StartNew
  <2>2. CASE ~StartNew(c)
    BY <1>1, <2>2, CheckKeeps, OpenTempKeeps, WriteFailsKeeps, PersistKeeps, SetExecutableKeeps,
       CheckDepsKeeps, DetectGitKeeps, GitInitKeeps, GitAddKeeps, GitCommitKeeps, CompileKeeps
       DEF NewStep
  <2>3. QED
    BY <2>1, <2>2
<1>2. ASSUME NEW c \in Commands, WizardStep(c) PROVE IInv'
  <2>1. CASE StartWizard(c)
    BY <2>1, StartKeeps DEF StartWizard
  <2>2. CASE ~StartWizard(c)
    BY <1>2, <2>2, ResolveKeeps, ClearKeeps, ParseKeeps, ReadManifestKeeps, RewriteLibKeeps,
       OutputKeeps, EnsureDirsKeeps, OpenFileKeeps, FillFileKeeps, StepFailsKeeps, BuildKeeps,
       CallKeeps, ExecutedKeeps
       DEF WizardStep
  <2>3. QED
    BY <2>1, <2>2
<1>3. QED
  BY <1>1, <1>2, KillKeeps, EditKeeps, StutterKeeps DEF Next

MadeExecutable(f) == [f EXCEPT !.x = TRUE]

LEMMA ExecutableFile ==
    ASSUME NEW a, NEW e
    PROVE  MadeExecutable(File(a, e)) = [by |-> a, whole |-> TRUE, x |-> TRUE, body |-> e]
<1>1. PICK w : w = TRUE
  OBVIOUS
<1>2. PICK z : z = FALSE
  OBVIOUS
<1> DEFINE f == [by |-> a, whole |-> w, x |-> z, body |-> e]
           g == [by |-> a, whole |-> w, x |-> w, body |-> e]
<1>3. File(a, e) = f
  BY <1>1, <1>2 DEF File
<1>4. [f EXCEPT !.x = w] = g
  OBVIOUS
<1>5. g = [by |-> a, whole |-> TRUE, x |-> TRUE, body |-> e]
  BY <1>1
<1> HIDE DEF f, g
<1>6. MadeExecutable(f) = [f EXCEPT !.x = w]
  BY <1>1 DEF MadeExecutable
<1>7. QED
  BY <1>3, <1>4, <1>5, <1>6

(* A file of the developer, and the directories a project starts from.      *)
Ours(p, f) ==
  f = Absent \/ \E body, x :
    /\ x \in BOOLEAN /\ (p = Manifest => IsManifest(body))
    /\ f = [by |-> Dev, whole |-> TRUE, x |-> x, body |-> body]
OurFiles(fs) == fs = [p \in Paths |-> fs[p]] /\ \A p \in Paths : Ours(p, fs[p])

LEMMA OurFile ==
    ASSUME NEW p, NEW body, p = Manifest => IsManifest(body)
    PROVE  Ours(p, File(Dev, body))
<1>1. File(Dev, body) = [by |-> Dev, whole |-> TRUE, x |-> FALSE, body |-> body]
  BY DEF File
<1>2. QED
  BY <1>1 DEF Ours

LEMMA PathsApart ==
    /\ Paths = {"Cargo.toml", "Makefile", Manifest, Lib, Notes}
    /\ Notes # "Makefile" /\ Notes # "Cargo.toml" /\ Notes # Manifest /\ Notes # Lib
    /\ Manifest # "Makefile" /\ Manifest # "Cargo.toml" /\ Manifest # Lib
    /\ Lib # "Makefile" /\ Lib # "Cargo.toml"
  BY DEF Paths, Generated, Notes, Manifest, Lib

LEMMA NoFilesOurs == OurFiles(NoFiles) /\ \A p \in Paths : NoFiles[p] = Absent
  BY DEF OurFiles, NoFiles, Ours

LEMMA ForeignOurs == OurFiles(Foreign)
<1>1. /\ Foreign = [p \in Paths |-> Foreign[p]] /\ Foreign[Notes] = File(Dev, Blank)
      /\ \A p \in Paths : p # Notes => Foreign[p] = Absent
  BY PathsApart, NoFilesOurs DEF Foreign, NoFiles
<1>2. Ours(Notes, File(Dev, Blank))
  BY PathsApart, OurFile
<1>3. QED
  BY <1>1, <1>2 DEF OurFiles, Ours

LEMMA ProjectOurs == ASSUME NEW layout PROVE OurFiles(Project(layout))
<1> DEFINE P == Project(layout)
<1>1. /\ P = [p \in Paths |-> P[p]]
      /\ P["Cargo.toml"] = File(Dev, CargoToml(FALSE))
      /\ P["Makefile"] = MadeExecutable(File(Dev, Blank))
      /\ P[Manifest] = File(Dev, ManifestJson(<<"handle">> \o ReservedOps, "handle", {}))
      /\ P[Lib] = File(Dev, LibRs({"handle"}, layout)) /\ P[Notes] = Absent
  BY PathsApart DEF Project, MadeExecutable
<1>2. IsManifest(ManifestJson(<<"handle">> \o ReservedOps, "handle", {}))
  BY ManifestWhole
<1> HIDE DEF P
<1>3. Ours("Cargo.toml", P["Cargo.toml"])
  BY <1>1, PathsApart, OurFile
<1>4. Ours("Makefile", P["Makefile"])
  <2>1. P["Makefile"] = [by |-> Dev, whole |-> TRUE, x |-> TRUE, body |-> Blank]
    BY <1>1, ExecutableFile
  <2>2. QED
    BY <2>1, PathsApart DEF Ours
<1>5. Ours(Manifest, P[Manifest])
  BY <1>1, <1>2, OurFile
<1>6. Ours(Lib, P[Lib])
  BY <1>1, PathsApart, OurFile
<1>7. Ours(Notes, P[Notes])
  BY <1>1 DEF Ours
<1>8. OurFiles(P)
  BY <1>1, <1>3, <1>4, <1>5, <1>6, <1>7, PathsApart DEF OurFiles
<1>9. QED
  BY <1>8 DEF P

LEMMA InitialFiles ==
    ASSUME NEW d \in InitialDirs
    PROVE  /\ d.root \in BOOLEAN /\ d.sub \in BOOLEAN /\ OurFiles(d.files)
           /\ ~d.root => ~d.sub /\ d.files = NoFiles
<1>1. CASE d = [root |-> FALSE, sub |-> FALSE, files |-> NoFiles]
  BY <1>1, NoFilesOurs
<1>2. CASE d = [root |-> TRUE, sub |-> FALSE, files |-> NoFiles]
  BY <1>2, NoFilesOurs
<1>3. CASE d = [root |-> TRUE, sub |-> FALSE, files |-> Foreign]
  BY <1>3, ForeignOurs
<1>4. CASE d = [root |-> TRUE, sub |-> TRUE, files |-> Project("vec")]
  BY <1>4, ProjectOurs
<1>5. CASE d = [root |-> TRUE, sub |-> TRUE, files |-> Project("extend")]
  BY <1>5, ProjectOurs
<1>6. QED
  BY <1>1, <1>2, <1>3, <1>4, <1>5 DEF InitialDirs

LEMMA InitIInv ==
    ASSUME Init
    PROVE  IInv
<1>1. PICK d \in InitialDirs : root = d.root /\ subdirs = d.sub /\ files = d.files
  BY DEF Init
<1>2. /\ temps = {} /\ git = NoGit /\ cmds = [c \in Commands |-> Idle]
      /\ kills = 0 /\ edits = 0 /\ disturbed = {}
  BY DEF Init
<1>3. {MaxCommands, MaxKills, MaxEdits} \subseteq Nat
  BY ProjectAssumption
<1>4. MaxCommands \in Nat /\ MaxKills \in Nat /\ MaxEdits \in Nat
  BY <1>3
<1>5. Dev \in 0 .. Dev /\ Dev # 0 /\ Dev \notin Commands
  BY <1>4 DEF Dev, Commands
<1>6. \A c \in Commands : cmds[c] = Idle /\ cmds[c].pc = "off"
  BY <1>2 DEF Idle
<1>7. \A c \in Commands : CommandFits(cmds[c])
  <2>1. CommandFits(Idle)
    BY DEF CommandFits, RequestFits, Idle, NewPlaces, WizardPlaces
  <2>2. QED
    BY <1>6, <2>1
<1>8. \A p \in Paths : FileFits(p, files[p], cmds)
  <2>1. ASSUME NEW p \in Paths PROVE FileFits(p, files[p], cmds)
    <3>1. CASE files[p] = Absent
      BY <3>1, AbsentFits
    <3>2. CASE files[p] # Absent
      <4>0. Ours(p, files[p])
        BY <1>1, InitialFiles DEF OurFiles
      <4>1. PICK body, x : /\ x \in BOOLEAN /\ (p = Manifest => IsManifest(body))
                           /\ files[p] = [by |-> Dev, whole |-> TRUE, x |-> x, body |-> body]
        BY <3>2, <4>0 DEF Ours
      <4>2. QED
        BY <1>5, <4>1 DEF FileFits
    <3>3. QED
      BY <3>1, <3>2
  <2>2. QED
    BY <2>1
<1>9. DirectoryFits
  <2>1. ~root => ~NonEmpty
    BY <1>1, <1>2, InitialFiles, NoFilesOurs DEF NonEmpty, NoGit
  <2>2. git = [repo |-> git.repo, index |-> git.index, head |-> git.head] /\ git.repo = FALSE
    BY <1>2 DEF NoGit
  <2>3. root \in BOOLEAN /\ subdirs \in BOOLEAN /\ files = [p \in Paths |-> files[p]]
    BY <1>1, InitialFiles DEF OurFiles
  <2>4. QED
    BY <1>2, <1>8, <2>1, <2>2, <2>3 DEF DirectoryFits
<1>10. Running = {}
  BY <1>6 DEF Running
<1>11. QED
  BY <1>2, <1>4, <1>7, <1>9, <1>10 DEF IInv

(* The inductive invariant of the project directory and the commands on it. *)
THEOREM Invariance == Spec => []IInv
<1>1. Init => IInv
  BY InitIInv
<1>2. IInv /\ [Next]_vars => IInv'
  BY StepIInv
<1>3. QED
  BY <1>1, <1>2, PTL DEF Spec

-----------------------------------------------------------------------------
(* What a reader of the directory may rely on.                              *)

(* Every variable keeps its type: a whole manifest has a default operation, *)
(* a temporary file is one about to be renamed or left by a killed command. *)
THEOREM ProjectTypes == Spec => []TypeOK
<1>1. IInv => TypeOK
  <2> SUFFICES ASSUME IInv PROVE TypeOK
    OBVIOUS
  <2>1. DirectoryFits /\ \A c \in Commands : CommandFits(cmds[c])
    BY DEF IInv
  <2>2. ASSUME NEW p \in Paths
        PROVE  /\ files[p].by \in 0 .. Dev /\ files[p].x \in BOOLEAN
               /\ files[p].whole => files[p].by # 0
               /\ (p = Manifest /\ files[p].whole) => files[p].body.default # ""
    <3>1. FileFits(p, files[p], cmds)
      BY <2>1 DEF DirectoryFits
    <3>2. Absent.whole = FALSE
      BY DEF Absent
    <3>3. QED
      BY <3>1, <3>2 DEF FileFits, IsManifest
  <2>3. ASSUME NEW t \in temps
        PROVE  /\ t \in Commands \X Generated
               /\ At(t[1], "persist") \/ cmds[t[1]].reply = "killed"
    BY <2>1 DEF DirectoryFits, TempFits, At
  <2>4. DOMAIN files = Paths
    BY <2>1 DEF DirectoryFits
  <2>5. \A c \in Commands : cmds[c].reply \in {"none", "ok", "failed", "killed"}
    BY <2>1 DEF CommandFits
  <2>6. QED
    BY <2>1, <2>2, <2>3, <2>4, <2>5 DEF TypeOK, IInv, DirectoryFits
<1>2. QED
  BY Invariance, <1>1, PTL

(* A file that `new` put in its place is never partial, whatever runs at    *)
(* the same time and wherever a command was killed: write_all renames whole *)
(* temporary files, and nothing but an edit or a run of the wizard, which   *)
(* makes the file its own, opens one in place.                              *)
THEOREM NewLeavesNothingPartial == Spec => []NewFilesWhole
<1>1. IInv => NewFilesWhole
  <2> SUFFICES ASSUME IInv, NEW p \in Generated, files[p].by \in Commands, IsNew(files[p].by)
               PROVE  files[p].whole
    BY DEF NewFilesWhole
  <2>1. FileFits(p, files[p], cmds)
    BY DEF IInv, DirectoryFits, Paths
  <2>2. QED
    BY <2>1 DEF FileFits, IsNew
<1>2. QED
  BY Invariance, <1>1, PTL

-----------------------------------------------------------------------------
(* Which step changes a command, and which one ends it well.                *)

EndsWell(r) == r.pc = "done" /\ r.reply = "ok"
Finishes(c) == Compile(c) \/ Executed(c) \/ (Output(c) /\ Dry(cmds[c].req))

LEMMA ExitEnds ==
    ASSUME IInv, NEW c \in Running, NEW reply \in {"failed", "killed"}, Exit(c, reply)
    PROVE  \E q : cmds' = [cmds EXCEPT ![c] = q] /\ ~EndsWell(q) /\ q # cmds[c]
<1>1. PICK q : q = Left(cmds[c], reply)
  OBVIOUS
<1>2. cmds' = [cmds EXCEPT ![c] = q] /\ q.pc = "done" /\ q.reply = reply
  BY <1>1, ExitFits
<1>3. cmds[c].pc # "done"
  BY CommandParts
<1>4. QED
  BY <1>2, <1>3 DEF EndsWell

LEMMA GotoGoesOn ==
    ASSUME IInv, NEW c \in Running, NEW l, l \notin {"done", cmds[c].pc}, Goto(c, l)
    PROVE  \E q : cmds' = [cmds EXCEPT ![c] = q] /\ ~EndsWell(q) /\ q # cmds[c]
<1>1. PICK q : q = Moved(cmds[c], l, cmds[c].plan, cmds[c].read, cmds[c].git)
  OBVIOUS
<1>2. cmds' = [cmds EXCEPT ![c] = q]
  BY <1>1, Goes
<1>3. q.pc = l
  BY <1>1, MovedParts
<1>4. QED
  BY <1>2, <1>3 DEF EndsWell

LEMMA OnwardGoesOn ==
    ASSUME IInv, NEW c \in Running, Onward(c), cmds[c].plan # <<>>,
           cmds[c].req.kind = "wizard" => ~Dry(cmds[c].req)
    PROVE  \E q : cmds' = [cmds EXCEPT ![c] = q] /\ ~EndsWell(q)
                  /\ (cmds[c].pc \in {"persist", "chmod", "fill"} => q # cmds[c])
<1>1. PICK q : cmds' = [cmds EXCEPT ![c] = q] /\ q.pc \in {"open", "step"}
  BY OnwardFits
<1>2. QED
  BY <1>1 DEF EndsWell

LEMMA ReportGoesOn ==
    ASSUME IInv, NEW c \in Running, NEW status, Report(c, status)
    PROVE  \E q : cmds' = [cmds EXCEPT ![c] = q] /\ ~EndsWell(q)
<1>1. PICK q : q = Moved(cmds[c], "compile", cmds[c].plan, cmds[c].read, status)
  OBVIOUS
<1>2. cmds' = [cmds EXCEPT ![c] = q]
  BY <1>1, Reports
<1>3. q.pc = "compile"
  BY <1>1, MovedParts
<1>4. QED
  BY <1>2, <1>3 DEF EndsWell

LEMMA PlanGoesOn ==
    ASSUME IInv, NEW c \in Running, NEW l, l # "done", NEW plan,
           cmds' = [cmds EXCEPT ![c].pc = l, ![c].plan = plan]
    PROVE  \E q : cmds' = [cmds EXCEPT ![c] = q] /\ ~EndsWell(q)
<1>1. PICK q : q = Moved(cmds[c], l, plan, cmds[c].read, cmds[c].git)
  OBVIOUS
<1>2. cmds' = [cmds EXCEPT ![c] = q]
  BY <1>1, Plans
<1>3. q.pc = l
  BY <1>1, MovedParts
<1>4. QED
  BY <1>2, <1>3 DEF EndsWell

(* A running command that is about to finish a file.                        *)
LEMMA FileInHand ==
    ASSUME IInv, NEW c \in Commands, cmds[c].pc \in {"persist", "chmod", "fill"}
    PROVE  /\ c \in Running /\ cmds[c].plan # <<>>
           /\ cmds[c].req.kind = "wizard" => ~Dry(cmds[c].req)
<1>1. c \in Running
  BY Ongoing
<1>2. PlanFits(cmds[c]) /\ RequestFits(cmds[c])
  BY <1>1, CommandParts
<1>3. cmds[c].pc = "persist" => cmds[c].req.kind = "new"
  BY <1>2 DEF RequestFits, NewPlaces
<1>4. QED
  BY <1>1, <1>2, <1>3 DEF PlanFits, RequestFits

LEMMA NewStepOfOne ==
    ASSUME IInv, NEW c \in Commands, NewStep(c)
    PROVE  \E q : cmds' = [cmds EXCEPT ![c] = q] /\ (EndsWell(q) => Finishes(c))
<1>1. CASE StartNew(c)
  <2>1. PICK req : cmds' = [cmds EXCEPT ![c] = [Idle EXCEPT !.pc = "check", !.req = req]]
    BY <1>1 DEF StartNew, Start
  <2>2. [Idle EXCEPT !.pc = "check", !.req = req].pc = "check"
    BY DEF Idle
  <2>3. QED
    BY <2>1, <2>2 DEF EndsWell
<1>2. CASE Check(c)
  <2>1. c \in Running
    BY <1>2, Ongoing DEF Check, At
  <2>2. QED
    BY <1>2, <2>1, ExitEnds, PlanGoesOn DEF Check
<1>3. CASE OpenTemp(c)
  <2>1. c \in Running /\ cmds[c].pc = "open" /\ Goto(c, "persist")
    BY <1>3, Ongoing DEF OpenTemp, At
  <2>2. QED
    BY <2>1, GotoGoesOn
<1>4. CASE WriteFails(c)
  <2>1. c \in Running /\ Exit(c, "failed")
    BY <1>4, Ongoing DEF WriteFails
  <2>2. QED
    BY <2>1, ExitEnds
<1>5. CASE Persist(c)
  <2>1. cmds[c].pc = "persist" /\ (Goto(c, "chmod") \/ Onward(c))
    BY <1>5 DEF Persist, At
  <2>2. QED
    BY <2>1, FileInHand, GotoGoesOn, OnwardGoesOn
<1>6. CASE SetExecutable(c)
  <2>1. cmds[c].pc = "chmod" /\ (Exit(c, "failed") \/ Onward(c))
    BY <1>6 DEF SetExecutable, At
  <2>2. QED
    BY <2>1, FileInHand, ExitEnds, OnwardGoesOn
<1>7. CASE CheckDeps(c)
  <2>1. c \in Running /\ cmds[c].pc = "open" /\ (Goto(c, "detect") \/ Exit(c, "failed"))
    BY <1>7, Ongoing DEF CheckDeps, At
  <2>2. QED
    BY <2>1, GotoGoesOn, ExitEnds
<1>8. CASE DetectGit(c) \/ GitInit(c) \/ GitAdd(c) \/ GitCommit(c)
  <2>1. cmds[c].pc \in {"detect", "init", "add", "commit"}
    BY <1>8 DEF DetectGit, GitInit, GitAdd, GitCommit, At
  <2>2. c \in Running
    BY <2>1, Ongoing
  <2>3. CASE \E s : Report(c, s)
    BY <2>2, <2>3, ReportGoesOn
  <2>4. CASE DetectGit(c) /\ Goto(c, "init")
    <3>1. cmds[c].pc = "detect"
      BY <2>4 DEF DetectGit, At
    <3>2. QED
      BY <2>2, <2>4, <3>1, GotoGoesOn
  <2>5. CASE GitInit(c) /\ Goto(c, "add")
    <3>1. cmds[c].pc = "init"
      BY <2>5 DEF GitInit, At
    <3>2. QED
      BY <2>2, <2>5, <3>1, GotoGoesOn
  <2>6. CASE GitAdd(c) /\ Goto(c, "commit")
    <3>1. cmds[c].pc = "add"
      BY <2>6 DEF GitAdd, At
    <3>2. QED
      BY <2>2, <2>6, <3>1, GotoGoesOn
  <2>7. DetectGit(c) => Goto(c, "init") \/ \E s : Report(c, s)
    BY DEF DetectGit
  <2>8. GitInit(c) => Goto(c, "add") \/ \E s : Report(c, s)
    BY DEF GitInit
  <2>9. GitAdd(c) => Goto(c, "commit") \/ \E s : Report(c, s)
    BY DEF GitAdd
  <2>10. GitCommit(c) => \E s : Report(c, s)
    BY DEF GitCommit
  <2>11. QED
    BY <1>8, <2>3, <2>4, <2>5, <2>6, <2>7, <2>8, <2>9, <2>10
<1>9. CASE Compile(c)
  <2>1. \E q : cmds' = [cmds EXCEPT ![c] = q]
    <3>1. c \in Running /\ \E reply \in {"ok", "failed"} : Exit(c, reply)
      BY <1>9, Ongoing DEF Compile, At
    <3>2. QED
      BY <3>1, ExitFits
  <2>2. QED
    BY <1>9, <2>1 DEF Finishes
<1>10. QED
  BY <1>1, <1>2, <1>3, <1>4, <1>5, <1>6, <1>7, <1>8, <1>9 DEF NewStep

LEMMA WizardStepOfOne ==
    ASSUME IInv, NEW c \in Commands, WizardStep(c)
    PROVE  \E q : cmds' = [cmds EXCEPT ![c] = q] /\ (EndsWell(q) => Finishes(c))
<1>1. CASE StartWizard(c)
  <2>1. PICK req : cmds' = [cmds EXCEPT ![c] = [Idle EXCEPT !.pc = "resolve", !.req = req]]
    BY <1>1 DEF StartWizard, Start
  <2>2. [Idle EXCEPT !.pc = "resolve", !.req = req].pc = "resolve"
    BY DEF Idle
  <2>3. QED
    BY <2>1, <2>2 DEF EndsWell
<1>2. CASE Resolve(c)
  <2>1. c \in Running /\ cmds[c].pc = "resolve"
    BY <1>2, Ongoing DEF Resolve, At
  <2>2. \/ Exit(c, "failed") \/ Goto(c, "clear") \/ Goto(c, "manifest")
        \/ \E plan : cmds' = [cmds EXCEPT ![c].pc = "output", ![c].plan = plan]
    BY <1>2 DEF Resolve
  <2>3. QED
    BY <2>1, <2>2, ExitEnds, GotoGoesOn, PlanGoesOn
<1>3. CASE Clear(c)
  <2>1. c \in Running /\ cmds[c].pc = "clear" /\ (Exit(c, "failed") \/ Goto(c, "parse"))
    BY <1>3, Ongoing DEF Clear, ClearOutput, At
  <2>2. QED
    BY <2>1, ExitEnds, GotoGoesOn
<1>4. CASE Parse(c)
  <2>1. c \in Running
    BY <1>4, Ongoing DEF Parse, At
  <2>2. QED
    BY <1>4, <2>1, ExitEnds, PlanGoesOn DEF Parse
<1>5. CASE ReadManifest(c)
  <2>1. c \in Running
    BY <1>5, Ongoing DEF ReadManifest, At
  <2>2. CASE Exit(c, "failed")
    BY <2>1, <2>2, ExitEnds
  <2>3. CASE \E m : cmds' = [cmds EXCEPT ![c].pc = "lib", ![c].read = m]
    <3>1. PICK m : cmds' = WithPlaceRead(cmds, c, "lib", m)
      BY <2>3 DEF WithPlaceRead
    <3>2. PICK q : q = Moved(cmds[c], "lib", cmds[c].plan, m, cmds[c].git)
      OBVIOUS
    <3>3. cmds' = [cmds EXCEPT ![c] = q] /\ q.pc = "lib"
      BY <2>1, <3>1, <3>2, ReadMoves, MovedParts
    <3>4. QED
      BY <3>3 DEF EndsWell
  <2>4. QED
    BY <1>5, <2>2, <2>3 DEF ReadManifest
<1>6. CASE RewriteLib(c)
  <2>1. c \in Running
    BY <1>6, Ongoing DEF RewriteLib, At
  <2>2. CASE Exit(c, "failed")
    BY <2>1, <2>2, ExitEnds
  <2>3. CASE \E plan : cmds' = [cmds EXCEPT ![c].pc = "output", ![c].read = Blank, ![c].plan = plan]
    <3>1. PICK plan : cmds' = WithPlaceReadPlan(cmds, c, "output", Blank, plan)
      BY <2>3 DEF WithPlaceReadPlan
    <3>2. PICK q : q = Moved(cmds[c], "output", plan, Blank, cmds[c].git)
      OBVIOUS
    <3>3. cmds' = [cmds EXCEPT ![c] = q] /\ q.pc = "output"
      BY <2>1, <3>1, <3>2, RewriteMoves, MovedParts
    <3>4. QED
      BY <3>3 DEF EndsWell
  <2>4. QED
    BY <1>6, <2>2, <2>3 DEF RewriteLib
<1>7. CASE Output(c)
  <2>1. c \in Running /\ cmds[c].pc = "output"
    BY <1>7, Ongoing DEF Output, At
  <2>2. CASE Dry(cmds[c].req)
    <3>1. \E reply \in {"ok", "failed"} : Exit(c, reply)
      BY <1>7, <2>2 DEF Output
    <3>2. \E q : cmds' = [cmds EXCEPT ![c] = q]
      BY <2>1, <3>1, ExitFits
    <3>3. QED
      BY <1>7, <2>2, <3>2 DEF Finishes
  <2>3. CASE ~Dry(cmds[c].req)
    BY <1>7, <2>1, <2>3, ExitEnds, GotoGoesOn DEF Output
  <2>4. QED
    BY <2>2, <2>3
<1>8. CASE EnsureDirs(c) \/ Call(c)
  <2>1. Onward(c) /\ (AtStep(c, "dirs") \/ AtStep(c, "test") \/ AtStep(c, "doctor"))
    BY <1>8 DEF EnsureDirs, Call
  <2>2. c \in Running /\ cmds[c].plan # <<>> /\ ~Dry(cmds[c].req)
    BY <2>1, AtStepParts
  <2>3. QED
    BY <2>1, <2>2, OnwardGoesOn
<1>9. CASE OpenFile(c)
  <2>1. Goto(c, "fill") /\ c \in Running /\ cmds[c].pc = "step"
    BY <1>9, AtStepParts DEF OpenFile
  <2>2. QED
    BY <2>1, GotoGoesOn
<1>10. CASE FillFile(c)
  <2>1. cmds[c].pc = "fill" /\ (Goto(c, "chmod") \/ Onward(c))
    BY <1>10 DEF FillFile, At
  <2>2. QED
    BY <2>1, FileInHand, GotoGoesOn, OnwardGoesOn
<1>11. CASE StepFails(c)
  <2>1. c \in Running /\ Exit(c, "failed")
    BY <1>11, Ongoing DEF StepFails
  <2>2. QED
    BY <2>1, ExitEnds
<1>12. CASE Build(c)
  <2>1. c \in Running /\ cmds[c].pc = "step"
    BY <1>12, AtStepParts DEF Build
  <2>2. PICK plan : cmds' = WithPlan(cmds, c, plan)
    <3>1. cmds' = [cmds EXCEPT ![c].plan =
                     <<FileStep(Manifest, TRUE, files[Manifest].body)>> \o Tail(cmds[c].plan)]
      BY <1>12, <2>1, WholeCommand DEF Build
    <3>2. QED
      BY <3>1 DEF WithPlan
  <2>3. PICK q : q = Moved(cmds[c], cmds[c].pc, plan, cmds[c].read, cmds[c].git)
    OBVIOUS
  <2>4. cmds' = [cmds EXCEPT ![c] = q] /\ q.pc = "step"
    BY <2>1, <2>2, <2>3, PlannedMoves, MovedParts
  <2>5. QED
    BY <2>4 DEF EndsWell
<1>13. CASE Executed(c)
  <2>1. c \in Running /\ Exit(c, "ok")
    BY <1>13, Ongoing DEF Executed, At
  <2>2. \E q : cmds' = [cmds EXCEPT ![c] = q]
    BY <2>1, ExitFits
  <2>3. QED
    BY <1>13, <2>2 DEF Finishes
<1>14. QED
  BY <1>1, <1>2, <1>3, <1>4, <1>5, <1>6, <1>7, <1>8, <1>9, <1>10, <1>11, <1>12, <1>13
     DEF WizardStep

(* A command that ends well takes its last step: `new` when it has tried    *)
(* the compiler, the wizard when its plan is used up or written down.       *)
LEMMA LastStep ==
    ASSUME IInv, [Next]_vars, NEW c \in Commands, Ends(c)
    PROVE  Finishes(c)
<1>1. cmds = [d \in Commands |-> cmds[d]] /\ cmds'[c] # cmds[c] /\ EndsWell(cmds'[c])
  BY DEF IInv, Ends, At, EndsWell
<1>2. ASSUME NEW d \in Commands, NewStep(d) \/ WizardStep(d) PROVE Finishes(c)
  <2>1. PICK q : cmds' = [cmds EXCEPT ![d] = q] /\ (EndsWell(q) => Finishes(d))
    BY <1>2, NewStepOfOne, WizardStepOfOne
  <2>2. d = c /\ cmds'[c] = q
    BY <1>1, <2>1
  <2>3. QED
    BY <1>1, <2>1, <2>2
<1>3. ASSUME NEW d \in Commands, Kill(d) PROVE FALSE
  <2>1. d \in Running /\ Exit(d, "killed")
    BY <1>3 DEF Kill
  <2>2. PICK q : cmds' = [cmds EXCEPT ![d] = q] /\ ~EndsWell(q)
    BY <2>1, ExitEnds
  <2>3. d = c /\ cmds'[c] = q
    BY <1>1, <2>2
  <2>4. QED
    BY <1>1, <2>2, <2>3
<1>4. ~\E p \in {Notes, Lib, Manifest} : Edit(p)
  BY <1>1 DEF Edit
<1>5. ~UNCHANGED vars
  BY <1>1 DEF vars
<1>6. QED
  BY <1>2, <1>3, <1>4, <1>5 DEF Next

-----------------------------------------------------------------------------
(* What a finished script has delivered.                                    *)

LEMMA MembersOfBoth ==
    ASSUME NEW S, NEW s \in Seq(S)
    PROVE  Members(s \o ReservedOps) = Members(s) \cup Reserved
<1> DEFINE T == S \cup Reserved
<1>1. /\ ReservedOps \in Seq(T) /\ Len(ReservedOps) = 3 /\ DOMAIN ReservedOps = 1 .. 3
      /\ Reserved = {ReservedOps[1], ReservedOps[2], ReservedOps[3]}
  BY DEF ReservedOps, Reserved
<1>2. s \in Seq(T) /\ DOMAIN s = 1 .. Len(s) /\ Len(s) \in Nat
  BY LenProperties
<1> HIDE DEF T
<1> DEFINE b == s \o ReservedOps
<1>3. /\ b \in Seq(T) /\ Len(b) = Len(s) + 3
      /\ \A i \in 1 .. Len(s) + 3 : b[i] = IF i <= Len(s) THEN s[i] ELSE ReservedOps[i - Len(s)]
  <2>1. PICK w : w = ReservedOps
    OBVIOUS
  <2>2. /\ s \o w \in Seq(T) /\ Len(s \o w) = Len(s) + Len(w)
        /\ \A i \in 1 .. Len(s) + Len(w) : (s \o w)[i] = IF i <= Len(s) THEN s[i] ELSE w[i - Len(s)]
    BY <1>1, <1>2, <2>1, ConcatProperties
  <2>3. QED
    BY <1>1, <2>1, <2>2
<1>4. DOMAIN b = 1 .. Len(s) + 3
  BY <1>3, LenProperties
<1> HIDE DEF b
<1>5. ASSUME NEW i \in DOMAIN b PROVE b[i] \in Members(s) \cup Reserved
  <2>1. CASE i <= Len(s)
    BY <1>2, <1>3, <1>4, <2>1 DEF Members
  <2>2. CASE ~(i <= Len(s))
    <3>1. b[i] = ReservedOps[i - Len(s)] /\ i - Len(s) \in 1 .. 3
      BY <1>2, <1>3, <1>4, <2>2
    <3>2. QED
      BY <1>1, <3>1
  <2>3. QED
    BY <2>1, <2>2
<1>6. ASSUME NEW i \in DOMAIN s PROVE s[i] \in Members(b)
  <2>1. i \in DOMAIN b /\ b[i] = s[i]
    BY <1>2, <1>3, <1>4
  <2>2. QED
    BY <2>1 DEF Members
<1>7. ASSUME NEW i \in 1 .. 3 PROVE ReservedOps[i] \in Members(b)
  <2>1. Len(s) + i \in DOMAIN b /\ b[Len(s) + i] = ReservedOps[i]
    <3>1. Len(s) + i \in 1 .. Len(s) + 3 /\ ~(Len(s) + i <= Len(s)) /\ (Len(s) + i) - Len(s) = i
      BY <1>2
    <3>2. QED
      BY <1>3, <1>4, <3>1
  <2>2. QED
    BY <2>1 DEF Members
<1>8. Members(b) \subseteq Members(s) \cup Reserved
  BY <1>5 DEF Members
<1>9. Members(s) \subseteq Members(b)
  BY <1>6 DEF Members
<1>10. Reserved \subseteq Members(b)
  BY <1>1, <1>7
<1>11. QED
  BY <1>8, <1>9, <1>10 DEF b

LEMMA CapabilitiesGranted ==
    ASSUME NEW caps
    PROVE  Grants(caps, ManifestCapabilities(caps))
  BY DEF Grants, ManifestCapabilities

(* The default operation of a project that is made is one it has.           *)
LEMMA DefaultIsMade ==
    ASSUME NEW req \in Requests, Makes(req), req.kind = "new" => BuildRequest(req)
    PROVE  (IF req.kind = "new" THEN DefaultOperation(req) ELSE CreateDefault(req))
             \in Members(UserOperations(req))
<1>1. 1 \in DOMAIN UserOperations(req)
  BY OperationsNamed
<1>2. CASE req.kind = "new"
  BY <1>2 DEF BuildRequest, InSeq, Members
<1>3. CASE req.kind # "new"
  BY <1>1, <1>3 DEF CreateDefault, InSeq, Members
<1>4. QED
  BY <1>2, <1>3

LEMMA ScriptDelivered ==
    ASSUME NEW c, NEW r, r.req \in Requests, Makes(r.req), NEW fs, Underway(c, r, fs),
           r.plan = <<>>, NEW p \in Generated
    PROVE  /\ fs[p].by = c /\ fs[p].whole /\ fs[p].body = ScriptBody(r.req, p)
           /\ Executable(p) => fs[p].x
<1> DEFINE s == Script(r.req)
<1>1. /\ s \in Seq({s[i] : i \in DOMAIN s}) /\ Len(s) \in Nat /\ DOMAIN s = 1 .. Len(s)
      /\ \E i \in DOMAIN s : HasFile(s[i]) /\ s[i].path = p /\ s[i].body = ScriptBody(r.req, p)
  <2>1. s \in Seq({s[i] : i \in DOMAIN s}) /\ Len(s) \in Nat /\ DOMAIN s = 1 .. Len(s)
    BY ScriptFits
  <2>2. \A path \in Generated : \E i \in DOMAIN s :
          HasFile(s[i]) /\ s[i].path = path /\ s[i].body = ScriptBody(r.req, path)
    BY ScriptFits
  <2>3. QED
    BY <2>1, <2>2
<1>2. PICK k \in 1 .. Len(s) + 1 :
        /\ r.plan = SubSeq(s, k, Len(s))
        /\ \A j \in 1 .. k - 1 : HasFile(s[j]) => Delivered(c, s[j], fs[s[j].path])
  BY DEF Underway
<1>3. k = Len(s) + 1
  BY <1>1, <1>2, Suffix
<1>4. PICK i \in 1 .. Len(s) : HasFile(s[i]) /\ s[i].path = p /\ s[i].body = ScriptBody(r.req, p)
  BY <1>1
<1>5. Delivered(c, s[i], fs[p])
  BY <1>1, <1>2, <1>3, <1>4
<1>6. QED
  BY <1>4, <1>5 DEF Delivered, Put

LEMMA DeliveryHolds ==
    ASSUME IInv, NEW c \in Commands, Ends(c), Finishes(c), c \notin disturbed',
           IsNew(c) \/ Creates(c)
    PROVE  /\ c \in Running /\ cmds[c].req \in Requests /\ cmds[c].plan = <<>>
           /\ Makes(cmds[c].req) /\ OnCourse(c, cmds[c], files, temps, git)
           /\ cmds[c].pc \in {"compile", "step"} /\ (IsNew(c) => cmds[c].pc = "compile")
           /\ UNCHANGED <<dir, git>> /\ cmds'[c].git = cmds[c].git
<1>1. ~(Output(c) /\ Dry(cmds[c].req))
  <2>1. SUFFICES ASSUME Output(c), Dry(cmds[c].req) PROVE FALSE
    OBVIOUS
  <2>2. cmds[c].pc \in WizardPlaces
    BY <2>1 DEF Output, At, WizardPlaces
  <2>3. cmds[c].req.kind = "wizard"
    BY <2>2, WizardCommand
  <2>4. QED
    BY <2>1, <2>3 DEF IsNew, Creates, Executes
<1>2. /\ Compile(c) \/ Executed(c)
      /\ cmds[c].pc \in {"compile", "step"} /\ Exit(c, "ok") /\ UNCHANGED <<dir, git, hist>>
      /\ cmds[c].pc = "compile" \/ cmds[c].plan = <<>>
  <2>1. Compile(c) \/ Executed(c)
    BY <1>1 DEF Finishes
  <2>2. CASE Compile(c)
    <3>1. cmds[c].pc = "compile" /\ c \in Running
      BY <2>2, Ongoing DEF Compile, At
    <3>2. ~Exit(c, "failed")
      <4>1. cmds = [d \in Commands |-> cmds[d]] /\ EndsWell(cmds'[c])
        BY DEF IInv, Ends, EndsWell
      <4>2. ASSUME Exit(c, "failed") PROVE FALSE
        <5>1. PICK q : cmds' = [cmds EXCEPT ![c] = q] /\ ~EndsWell(q)
          BY <3>1, <4>2, ExitEnds
        <5>2. QED
          BY <4>1, <5>1
      <4>3. QED
        BY <4>2
    <3>3. QED
      BY <2>2, <3>1, <3>2 DEF Compile
  <2>3. CASE Executed(c)
    BY <2>3 DEF Executed, At
  <2>4. QED
    BY <2>1, <2>2, <2>3
<1>3. c \in Running
  BY <1>2, Ongoing
<1>4. /\ cmds[c].req \in Requests /\ RequestFits(cmds[c]) /\ PlanFits(cmds[c])
      /\ cmds = [d \in Commands |-> cmds[d]] /\ CommandFits(cmds[c])
  BY <1>3, CommandParts DEF IInv
<1>5. cmds[c].plan = <<>>
  BY <1>2, <1>4 DEF PlanFits, Written
<1>6. /\ cmds[c].pc = "compile" => cmds[c].req.kind = "new"
      /\ cmds[c].pc = "step" => cmds[c].req.kind = "wizard"
  BY <1>4 DEF RequestFits, NewPlaces, WizardPlaces
<1>7. Makes(cmds[c].req)
  BY DEF IsNew, Creates, Makes
<1>8. Making(cmds[c])
  BY <1>2, <1>6, <1>7 DEF Making, IsNew, Creates, Executes
<1>9. OnCourse(c, cmds[c], files, temps, git)
  BY <1>2, <1>3, <1>8 DEF IInv, hist
<1>10. cmds'[c].git = cmds[c].git
  <2>1. cmds[c] = [pc |-> cmds[c].pc, req |-> cmds[c].req, plan |-> cmds[c].plan,
                   read |-> cmds[c].read, reply |-> cmds[c].reply, git |-> cmds[c].git]
    BY <1>4 DEF CommandFits
  <2>2. Left(cmds[c], "ok") = [pc |-> "done", req |-> cmds[c].req, plan |-> <<>>, read |-> Blank,
                               reply |-> "ok", git |-> cmds[c].git]
    BY <2>1, LeftRecord
  <2>3. Left(cmds[c], "ok").git = cmds[c].git
    BY <2>2
  <2>4. cmds' = [cmds EXCEPT ![c] = Left(cmds[c], "ok")]
    BY <1>2, <1>3, ExitFits
  <2>5. QED
    BY <1>4, <2>3, <2>4
<1>11. QED
  BY <1>2, <1>3, <1>4, <1>5, <1>6, <1>7, <1>9, <1>10 DEF IsNew

(* A `new` or a create that succeeds, and that neither another command nor  *)
(* an edit came in the way of, has delivered all it was asked for: every    *)
(* file whole, its own, with the operations, the default and the            *)
(* capabilities of the request, the script executable, no temporary file,   *)
(* no path dependency in crates.io mode, and, when a commit is reported,    *)
(* exactly these files in it.  The templates, the requests and the number   *)
(* of commands do not matter, nor what killed commands have left before.    *)
THEOREM RequestIsDelivered == Spec => DeliversRequest
<1> DEFINE Delivery(c) ==
      (Ends(c) /\ c \notin disturbed' /\ (IsNew(c) \/ Creates(c))) =>
         LET req == cmds[c].req
             m == files'[Manifest].body
         IN /\ \A p \in Generated :
                 files'[p].by = c /\ files'[p].whole /\ (Executable(p) => files'[p].x)
            /\ Members(m.ops) = Members(UserOperations(req)) \cup Reserved
            /\ m.default \in Members(UserOperations(req))
            /\ Grants(req.caps, m.caps)
            /\ temps' = {}
            /\ (IsNew(c) /\ req.deps = "crates-io") => ~files'["Cargo.toml"].body.pathDep
            /\ cmds'[c].git = "initialized" => git'.head = files'
<1>1. ASSUME IInv, [Next]_vars, NEW c \in Commands PROVE Delivery(c)
  <2> SUFFICES ASSUME Ends(c), c \notin disturbed', IsNew(c) \/ Creates(c)
               PROVE  Delivery(c)
    OBVIOUS
  <2> DEFINE req == cmds[c].req
             default == IF req.kind = "new" THEN DefaultOperation(req) ELSE CreateDefault(req)
  <2>1. Finishes(c)
    BY <1>1, LastStep
  <2>2. /\ c \in Running /\ req \in Requests /\ cmds[c].plan = <<>>
        /\ Makes(req) /\ OnCourse(c, cmds[c], files, temps, git)
        /\ cmds[c].pc \in {"compile", "step"} /\ (IsNew(c) => cmds[c].pc = "compile")
        /\ UNCHANGED <<dir, git>> /\ cmds'[c].git = cmds[c].git
    BY <1>1, <2>1, DeliveryHolds
  <2>3. files' = files /\ temps' = temps /\ git' = git
    BY <2>2 DEF dir
  <2>4. Underway(c, cmds[c], files)
    BY <2>2 DEF OnCourse
  <2>5. \A p \in Generated :
          /\ files[p].by = c /\ files[p].whole /\ files[p].body = ScriptBody(req, p)
          /\ Executable(p) => files[p].x
    BY <2>2, <2>4, ScriptDelivered
  <2>6. files[Manifest].body
          = ManifestJson(UserOperations(req) \o ReservedOps, default, ManifestCapabilities(req.caps))
    BY <2>5, ManifestBody DEF Generated
  <2>7. /\ files[Manifest].body.ops = UserOperations(req) \o ReservedOps
        /\ files[Manifest].body.default = default
        /\ files[Manifest].body.caps = ManifestCapabilities(req.caps)
    <3> HIDE DEF default
    <3>1. QED
      BY <2>6 DEF ManifestJson
  <2>8. Members(files[Manifest].body.ops) = Members(UserOperations(req)) \cup Reserved
    BY <2>2, <2>7, OperationsNamed, MembersOfBoth
  <2>9. req.kind = "new" => BuildRequest(req)
    BY <2>2 DEF OnCourse
  <2>10. default \in Members(UserOperations(req))
    BY <2>2, <2>9, DefaultIsMade
  <2>11. temps = {}
    BY <2>2 DEF OnCourse
  <2>12. IsNew(c) => req.deps = "local" \/ ~files["Cargo.toml"].body.pathDep
    BY <2>2 DEF OnCourse, Written
  <2>13. cmds[c].git = "initialized" => git.head = files
    <3>1. CASE IsNew(c)
      BY <2>2, <3>1 DEF OnCourse
    <3>2. CASE ~IsNew(c)
      <4>1. CommandFits(cmds[c])
        BY <1>1 DEF IInv
      <4>2. cmds[c].git = "none"
        BY <3>2, <4>1 DEF CommandFits, IsNew
      <4>3. QED
        BY <4>2
    <3>3. QED
      BY <3>1, <3>2
  <2> HIDE DEF req, default
  <2>14. Grants(req.caps, files[Manifest].body.caps)
    BY <2>7, CapabilitiesGranted
  <2>15. "crates-io" # "local"
    OBVIOUS
  <2>16. QED
    BY <2>3, <2>5, <2>7, <2>8, <2>10, <2>11, <2>12, <2>13, <2>14, <2>15, <2>2 DEF req
<1>2. IInv /\ [Next]_vars => [\A c \in Commands : Delivery(c)]_vars
  BY <1>1
<1>3. QED
  BY Invariance, <1>2, PTL DEF Spec, DeliversRequest

-----------------------------------------------------------------------------
(* Whose files a step changes.                                              *)

(* Why the command c may change the file p that was there.                  *)
MayChange(c, p) ==
  \/ files[p].by = c
  \/ c \in disturbed
  \/ Creates(c) /\ cmds[c].req.overwrite
  \/ Executes(c) /\ Mode(cmds[c].req) # Create /\ p \in {Manifest, Lib}

LEMMA OwnProject ==
    ASSUME IInv, NEW c \in Running, NEW p \in Paths, files[p] # Absent, Making(cmds[c])
    PROVE  MayChange(c, p)
<1>1. CASE c \in disturbed
  BY <1>1 DEF MayChange
<1>2. CASE c \notin disturbed
  <2>1. OnCourse(c, cmds[c], files, temps, git)
    BY <1>2, CommandParts
  <2>2. QED
    BY <2>1 DEF OnCourse, MayChange
<1>3. QED
  BY <1>1, <1>2

(* A step of a plan that executes: of a create, or of a run that revises or *)
(* builds and that has only the manifest and src/lib.rs to write.           *)
LEMMA ExecutedFile ==
    ASSUME IInv, NEW c \in Running, cmds[c].req.kind = "wizard", ~Dry(cmds[c].req),
           cmds[c].pc \in {"step", "fill", "chmod"}, cmds[c].plan # <<>>,
           Head(cmds[c].plan).step = "file",
           NEW p \in Paths, p = Head(cmds[c].plan).path, files[p] # Absent
    PROVE  MayChange(c, p)
<1>1. PlanFits(cmds[c]) /\ ItemFits(cmds[c].req, Head(cmds[c].plan))
  BY CommandParts, NextItem
<1>2. CASE Makes(cmds[c].req)
  <2>1. Making(cmds[c])
    BY <1>2 DEF Making
  <2>2. QED
    BY <2>1, OwnProject
<1>3. CASE ~Makes(cmds[c].req)
  <2>1. p \in {Manifest, Lib} /\ Mode(cmds[c].req) # Create
    BY <1>1, <1>3 DEF ItemFits, Makes
  <2>2. QED
    BY <2>1 DEF MayChange, Executes, IsNew
<1>4. QED
  BY <1>2, <1>3

LEMMA PersistChanges ==
    ASSUME IInv, NEW c \in Commands, Persist(c), NEW p \in Paths, files[p] # Absent,
           files'[p] # files[p]
    PROVE  Acts(c) /\ MayChange(c, p)
<1>1. cmds[c].pc = "persist" /\ (Goto(c, "chmod") \/ Onward(c))
  BY DEF Persist, At
<1>2. c \in Running /\ cmds[c].plan # <<>> /\ (cmds[c].req.kind = "wizard" => ~Dry(cmds[c].req))
  BY <1>1, FileInHand
<1>3. \E q : cmds' = [cmds EXCEPT ![c] = q] /\ q # cmds[c]
  <2>1. CASE Goto(c, "chmod")
    BY <1>1, <1>2, <2>1, GotoGoesOn
  <2>2. CASE Onward(c)
    BY <1>1, <1>2, <2>2, OnwardGoesOn
  <2>3. QED
    BY <1>1, <2>1, <2>2
<1>4. Acts(c)
  BY <1>2, <1>3, WholeCommand DEF Acts
<1>5. Making(cmds[c])
  BY <1>1, NewCommand DEF Making, NewPlaces
<1>6. QED
  BY <1>2, <1>4, <1>5, OwnProject

LEMMA SetExecutableChanges ==
    ASSUME IInv, NEW c \in Commands, SetExecutable(c), NEW p \in Paths, files[p] # Absent,
           files'[p] # files[p]
    PROVE  Acts(c) /\ MayChange(c, p)
<1>1. cmds[c].pc = "chmod" /\ (Exit(c, "failed") \/ Onward(c))
  BY DEF SetExecutable, At
<1>2. c \in Running /\ cmds[c].plan # <<>> /\ (cmds[c].req.kind = "wizard" => ~Dry(cmds[c].req))
  BY <1>1, FileInHand
<1>3. \E q : cmds' = [cmds EXCEPT ![c] = q] /\ q # cmds[c]
  <2>1. CASE Exit(c, "failed")
    BY <1>1, <1>2, <2>1, ExitEnds
  <2>2. CASE Onward(c)
    BY <1>1, <1>2, <2>2, OnwardGoesOn
  <2>3. QED
    BY <1>1, <2>1, <2>2
<1>4. Acts(c)
  BY <1>2, <1>3, WholeCommand DEF Acts
<1>5. Makes(cmds[c].req)
  BY <1>1, <1>2, CommandParts DEF RequestFits
<1>6. Making(cmds[c])
  BY <1>1, <1>2, <1>5 DEF Making
<1>7. QED
  BY <1>2, <1>4, <1>6, OwnProject

LEMMA ClearChanges ==
    ASSUME IInv, NEW c \in Commands, Clear(c), NEW p \in Paths, files'[p] # files[p]
    PROVE  Acts(c) /\ MayChange(c, p)
<1>1. /\ cmds[c].pc = "clear" /\ ClearOutput(c) /\ cmds[c].req.overwrite /\ ~Dry(cmds[c].req)
      /\ (Exit(c, "failed") \/ Goto(c, "parse"))
  BY DEF Clear, ClearOutput, At, dir
<1>2. /\ c \in Running /\ cmds[c].req.kind = "wizard" /\ Mode(cmds[c].req) = Create
  BY <1>1, WizardCommand DEF RequestFits, WizardPlaces
<1>3. \E q : cmds' = [cmds EXCEPT ![c] = q] /\ q # cmds[c]
  BY <1>1, <1>2, ExitEnds, GotoGoesOn
<1>4. Acts(c)
  BY <1>2, <1>3, WholeCommand DEF Acts
<1>5. QED
  BY <1>1, <1>2, <1>4 DEF MayChange, Creates, Executes, IsNew

LEMMA OpenFileChanges ==
    ASSUME IInv, NEW c \in Commands, OpenFile(c), NEW p \in Paths, files[p] # Absent,
           files'[p] # files[p]
    PROVE  Acts(c) /\ MayChange(c, p)
<1>1. AtStep(c, "file") /\ Goto(c, "fill") /\ p = Head(cmds[c].plan).path
  BY DEF OpenFile, Next1, IInv, DirectoryFits
<1>2. /\ c \in Running /\ cmds[c].req.kind = "wizard" /\ ~Dry(cmds[c].req) /\ cmds[c].pc = "step"
      /\ cmds[c].plan # <<>> /\ Head(cmds[c].plan).step = "file"
  BY <1>1, AtStepParts
<1>3. \E q : cmds' = [cmds EXCEPT ![c] = q] /\ q # cmds[c]
  BY <1>1, <1>2, GotoGoesOn
<1>4. Acts(c)
  BY <1>2, <1>3, WholeCommand DEF Acts
<1>5. QED
  BY <1>1, <1>2, <1>4, ExecutedFile

LEMMA FillFileChanges ==
    ASSUME IInv, NEW c \in Commands, FillFile(c), NEW p \in Paths, files[p] # Absent,
           files'[p] # files[p]
    PROVE  Acts(c) /\ MayChange(c, p)
<1>1. cmds[c].pc = "fill" /\ (Goto(c, "chmod") \/ Onward(c)) /\ p = Head(cmds[c].plan).path
  BY DEF FillFile, At, Next1, IInv, DirectoryFits
<1>2. c \in Running /\ cmds[c].plan # <<>> /\ (cmds[c].req.kind = "wizard" => ~Dry(cmds[c].req))
  BY <1>1, FileInHand
<1>3. \E q : cmds' = [cmds EXCEPT ![c] = q] /\ q # cmds[c]
  <2>1. CASE Goto(c, "chmod")
    BY <1>1, <1>2, <2>1, GotoGoesOn
  <2>2. CASE Onward(c)
    BY <1>1, <1>2, <2>2, OnwardGoesOn
  <2>3. QED
    BY <1>1, <2>1, <2>2
<1>4. Acts(c)
  BY <1>2, <1>3, WholeCommand DEF Acts
<1>5. cmds[c].req.kind = "wizard" /\ Head(cmds[c].plan).step = "file"
  BY <1>1, WizardCommand DEF PlanFits, WizardPlaces
<1>6. QED
  BY <1>1, <1>2, <1>4, <1>5, ExecutedFile

(* A file that was there is changed or removed by its writer, by a create   *)
(* that was told to overwrite and executes, or, the manifest and src/lib.rs *)
(* only, by a run that revises or builds; anything else is an edit of the   *)
(* developer or one of two commands that ran at once.  So `new` and a       *)
(* create without overwrite_output never touch what they found, wherever    *)
(* they fail or are killed.                                                 *)
THEOREM StrangersFilesAreKept == Spec => ForeignFilesKept
<1> DEFINE Kept(p) ==
      (files[p] # Absent /\ files'[p] # files[p]) =>
         \/ edits' # edits
         \/ \E c \in Commands :
              /\ Acts(c)
              /\ \/ files[p].by = c
                 \/ c \in disturbed
                 \/ Creates(c) /\ cmds[c].req.overwrite
                 \/ Executes(c) /\ Mode(cmds[c].req) # Create /\ p \in {Manifest, Lib}
<1>1. ASSUME IInv, [Next]_vars, NEW p \in Paths PROVE Kept(p)
  <2> SUFFICES ASSUME files[p] # Absent, files'[p] # files[p], edits' = edits
               PROVE  \E c \in Commands : Acts(c) /\ MayChange(c, p)
    BY DEF MayChange
  <2>1. edits \in Int
    <3>1. MaxEdits \in {MaxCommands, MaxKills, MaxEdits}
      OBVIOUS
    <3>2. MaxEdits \in Nat
      BY <3>1, ProjectAssumption
    <3>3. QED
      BY <1>1, <3>2 DEF IInv
  <2>2. ~\E d \in {Notes, Lib, Manifest} : Edit(d)
    BY <2>1 DEF Edit
  <2>3. PICK c \in Commands : NewStep(c) \/ WizardStep(c) \/ Kill(c)
    BY <1>1, <2>2 DEF Next, vars, dir
  <2>4. Persist(c) \/ SetExecutable(c) \/ Clear(c) \/ OpenFile(c) \/ FillFile(c)
    <3>1. ~Kill(c)
      BY DEF Kill, dir
    <3>2. CASE NewStep(c)
      <4>1. /\ ~StartNew(c) /\ ~Check(c) /\ ~CheckDeps(c) /\ ~DetectGit(c) /\ ~GitInit(c)
            /\ ~GitAdd(c) /\ ~GitCommit(c) /\ ~Compile(c)
        BY DEF StartNew, Start, Check, CheckDeps, DetectGit, GitInit, GitAdd, GitCommit, Compile, dir
      <4>2. ~OpenTemp(c) /\ ~WriteFails(c)
        BY DEF OpenTemp, WriteFails
      <4>3. QED
        BY <3>2, <4>1, <4>2 DEF NewStep
    <3>3. CASE WizardStep(c)
      <4>1. ~StartWizard(c) /\ ~Resolve(c) /\ ~Parse(c)
        BY DEF StartWizard, Start, Resolve, Parse, dir
      <4>2. ~ReadManifest(c) /\ ~RewriteLib(c) /\ ~Output(c)
        BY DEF ReadManifest, RewriteLib, Output, dir
      <4>3. ~EnsureDirs(c) /\ ~StepFails(c) /\ ~Build(c) /\ ~Call(c) /\ ~Executed(c)
        BY DEF EnsureDirs, StepFails, Build, Call, Executed, dir
      <4>4. QED
        BY <3>3, <4>1, <4>2, <4>3 DEF WizardStep
    <3>4. QED
      BY <2>3, <3>1, <3>2, <3>3
  <2>5. QED
    BY <1>1, <2>4, PersistChanges, SetExecutableChanges, ClearChanges, OpenFileChanges, FillFileChanges
<1>2. IInv /\ [Next]_vars => [\A p \in Paths : Kept(p)]_vars
  BY <1>1
<1>3. QED
  BY Invariance, <1>2, PTL DEF Spec, ForeignFilesKept
-----------------------------------------------------------------------------
(* src/lib.rs and the manifest: the lists of operations.                    *)

(* The elements of a sequence that is extended, or one of whose entries is  *)
(* replaced.                                                                *)
LEMMA AppendedMembers ==
    ASSUME NEW s, s \in Seq(Members(s)), NEW x
    PROVE  /\ Append(s, x) \in Seq(Members(Append(s, x)))
           /\ Members(Append(s, x)) = Members(s) \cup {x}
<1> DEFINE S == Members(s) \cup {x}
           t == Append(s, x)
<1>1. s \in Seq(S) /\ Len(s) \in Nat /\ DOMAIN s = 1 .. Len(s)
  BY LenProperties
<1>2. x \in S
  OBVIOUS
<1> HIDE DEF S
<1>3. /\ t \in Seq(S) /\ Len(t) = Len(s) + 1
      /\ \A i \in 1 .. Len(s) : t[i] = s[i]
      /\ t[Len(s) + 1] = x
  BY <1>1, <1>2, AppendProperties
<1> HIDE DEF t
<1>4. DOMAIN t = 1 .. Len(t) /\ t \in [1 .. Len(t) -> S]
  BY <1>3, LenProperties
<1>5. \A i \in DOMAIN s : i \in DOMAIN t /\ t[i] = s[i]
  BY <1>1, <1>3, <1>4
<1>6. Len(s) + 1 \in DOMAIN t
  BY <1>1, <1>3, <1>4
<1>7. Members(s) \cup {x} \subseteq Members(t)
  BY <1>3, <1>5, <1>6 DEF Members
<1>8. Members(t) \subseteq S
  BY <1>4 DEF Members
<1>9. t \in [1 .. Len(t) -> Members(t)] /\ Len(t) \in Nat
  BY <1>1, <1>3, <1>4 DEF Members
<1>10. t \in Seq(Members(t))
  BY <1>9, FunctionIsSeq
<1>11. QED
  BY <1>7, <1>8, <1>10 DEF S, t

LEMMA ReplacedMembers ==
    ASSUME NEW s, s \in Seq(Members(s)), NEW i \in DOMAIN s, NEW x,
           NEW t, t = [s EXCEPT ![i] = x]
    PROVE  /\ t \in Seq(Members(t))
           /\ x \in Members(t) /\ \A y \in Members(s) : y # s[i] => y \in Members(t)
<1>1. Len(s) \in Nat /\ DOMAIN s = 1 .. Len(s)
  BY LenProperties
<1>2. DOMAIN t = 1 .. Len(s) /\ t[i] = x /\ \A j \in DOMAIN s : j # i => t[j] = s[j]
  BY <1>1
<1>3. t = [j \in 1 .. Len(s) |-> t[j]]
  BY <1>1
<1>4. t \in [1 .. Len(s) -> Members(t)]
  BY <1>2, <1>3 DEF Members
<1>5. t \in Seq(Members(t))
  BY <1>1, <1>4, FunctionIsSeq
<1>6. QED
  BY <1>1, <1>2, <1>5 DEF Members

(* A name that is in a sequence has a first place there.                    *)
LEMMA FirstPlace ==
    ASSUME NEW s, s \in Seq(Members(s)), NEW x, InSeq(x, s)
    PROVE  FirstNamed(s, x) \in DOMAIN s /\ s[FirstNamed(s, x)] = x
<1> DEFINE T == {k \in DOMAIN s : s[k] = x}
<1>1. Len(s) \in Nat /\ DOMAIN s = 1 .. Len(s)
  BY LenProperties
<1>2. T \subseteq Nat /\ T # {}
  BY <1>1 DEF InSeq
<1>3. PICK k \in T : \A j \in T : ~(<<j, k>> \in OpToRel(<, Nat))
  <2> HIDE DEF T
  <2>1. QED
    BY <1>2, NatLessThanWellFounded, WFMin
<1>4. \A j \in 1 .. k - 1 : s[j] # x
  <2>1. SUFFICES ASSUME NEW j \in 1 .. k - 1, s[j] = x PROVE FALSE
    OBVIOUS
  <2>2. k \in 1 .. Len(s) /\ k \in Nat
    BY <1>1, <1>2, <1>3
  <2>3. j \in 1 .. Len(s) /\ j < k /\ j \in Nat
    BY <1>1, <2>2
  <2>4. j \in T
    BY <1>1, <2>1, <2>3
  <2>5. <<j, k>> \in OpToRel(<, Nat)
    BY <2>2, <2>3 DEF OpToRel
  <2>6. QED
    BY <1>3, <2>4, <2>5
<1>5. QED
  BY <1>3, <1>4 DEF FirstNamed

(* The manifests that commands make: of a new project, and revised.         *)
LEMMA MadeLists ==
    ASSUME NEW req \in Requests, Makes(req), req.kind = "new" => BuildRequest(req)
    PROVE  \A R : Lists(ScriptBody(req, Manifest), R)
<1> DEFINE default == IF req.kind = "new" THEN DefaultOperation(req) ELSE CreateDefault(req)
           ops == UserOperations(req) \o ReservedOps
           m == ScriptBody(req, Manifest)
<1>1. m = ManifestJson(ops, default, ManifestCapabilities(req.caps))
  BY ManifestBody
<1>2. default \in Members(UserOperations(req))
  BY DefaultIsMade
<1>3. UserOperations(req) \in Seq(Members(UserOperations(req)))
  BY OperationsNamed DEF Members
<1>4. Members(ops) = Members(UserOperations(req)) \cup Reserved
  BY <1>3, MembersOfBoth
<1>5. ops \in Seq(Members(ops))
  <2>1. PICK T : T = Members(UserOperations(req)) \cup Reserved
    OBVIOUS
  <2>2. UserOperations(req) \in Seq(T) /\ ReservedOps \in Seq(T)
    BY <1>3, <2>1 DEF ReservedOps, Reserved
  <2>3. ops \in Seq(T)
    BY <2>2, ConcatProperties
  <2>4. QED
    BY <1>4, <2>1, <2>3
<1> HIDE DEF default, ops, m
<1>6. m.ops = ops /\ m.default = default
  BY <1>1 DEF ManifestJson
<1>7. ASSUME NEW R PROVE Lists(m, R)
  BY <1>2, <1>4, <1>5, <1>6 DEF Lists
<1>8. QED
  BY <1>7 DEF m

LEMMA RevisedParts ==
    ASSUME NEW m, IsManifest(m), NEW list, NEW default
    PROVE  RevisedBy(m, list, default).ops = list /\ RevisedBy(m, list, default).default = default
  BY DEF RevisedBy, IsManifest, ManifestJson

LEMMA AddedLists ==
    ASSUME NEW m, IsManifest(m), NEW R, Lists(m, R), NEW req
    PROVE  Lists(AddOperation(m, req), R)
<1>1. PICK ops : ops = Append(m.ops, req.op)
  OBVIOUS
<1>2. PICK default : default = IF req.setDefault THEN req.op ELSE m.default
  OBVIOUS
<1>3. AddOperation(m, req) = RevisedBy(m, ops, default)
  BY <1>1, <1>2, Added
<1>4. ops \in Seq(Members(ops)) /\ Members(ops) = Members(m.ops) \cup {req.op}
  BY <1>1, AppendedMembers DEF Lists
<1>5. default \in Members(ops) /\ Reserved \ R \subseteq Members(ops)
  BY <1>2, <1>4 DEF Lists
<1>6. QED
  BY <1>3, <1>4, <1>5, RevisedParts DEF Lists

LEMMA UpdatedLists ==
    ASSUME NEW m, IsManifest(m), NEW R, Lists(m, R), NEW req, InSeq(req.op, m.ops),
           req.op \in R \/ NewName(req) = req.op
    PROVE  Lists(UpdateOperation(m, req), R)
<1>1. PICK i : i = FirstNamed(m.ops, req.op)
  OBVIOUS
<1>2. PICK ops : ops = [m.ops EXCEPT ![i] = NewName(req)]
  OBVIOUS
<1>3. PICK default : default = IF req.setDefault \/ m.default = req.op THEN NewName(req) ELSE m.default
  OBVIOUS
<1>4. UpdateOperation(m, req) = RevisedBy(m, ops, default)
  BY <1>1, <1>2, <1>3, Updated
<1>5. i \in DOMAIN m.ops /\ m.ops[i] = req.op
  BY <1>1, FirstPlace DEF Lists
<1>6. /\ ops \in Seq(Members(ops)) /\ NewName(req) \in Members(ops)
      /\ \A y \in Members(m.ops) : y # m.ops[i] => y \in Members(ops)
  <2>1. PICK s : s = m.ops
    OBVIOUS
  <2>2. s \in Seq(Members(s)) /\ i \in DOMAIN s /\ ops = [s EXCEPT ![i] = NewName(req)]
    BY <1>2, <1>5, <2>1 DEF Lists
  <2>3. QED
    BY <2>1, <2>2, ReplacedMembers
<1>7. default \in Members(ops) /\ Reserved \ R \subseteq Members(ops)
  BY <1>3, <1>5, <1>6 DEF Lists
<1>8. QED
  BY <1>4, <1>6, <1>7, RevisedParts DEF Lists

(* The plan of a project that is made.                                      *)
LEMMA ScriptLists ==
    ASSUME NEW req \in Requests, Makes(req), req.kind = "new" => BuildRequest(req)
    PROVE  \A R : \A i \in DOMAIN Script(req) : ItemLists(req, Script(req)[i], R)
<1> DEFINE s == Script(req)
<1>1. /\ \A i, j \in DOMAIN s : HasFile(s[i]) /\ HasFile(s[j]) /\ s[i].path = s[j].path => i = j
      /\ \A i \in DOMAIN s : HasFile(s[i]) <=> (req.kind = "new" \/ s[i].step = "file")
      /\ \E i \in DOMAIN s :
           HasFile(s[i]) /\ s[i].path = Manifest /\ s[i].body = ScriptBody(req, Manifest)
  <2>1. Manifest \in Generated
    BY DEF Generated
  <2>2. QED
    BY <2>1, ScriptFits
<1> HIDE DEF s
<1>2. \A R : Lists(ScriptBody(req, Manifest), R)
  BY MadeLists
<1>3. ASSUME NEW R PROVE \A i \in DOMAIN s : ItemLists(req, s[i], R)
  BY <1>1, <1>2 DEF ItemLists
<1>4. QED
  BY <1>3 DEF s

(* A command keeps its request, so what is to be renamed only grows, and    *)
(* what a manifest lists does not come to be missing by that.               *)
LEMMA ToRenameGrows ==
    ASSUME NEW cs, NEW ds,
           \A c \in Commands : cs[c].pc # "off" => ds[c].pc # "off" /\ ds[c].req = cs[c].req
    PROVE  ToRename(cs) \subseteq ToRename(ds)
<1>1. \A c \in Commands : Renames(cs[c]) => Renames(ds[c]) /\ ds[c].req = cs[c].req
  BY DEF Renames
<1>2. QED
  BY <1>1 DEF ToRename

LEMMA MoreRenamed ==
    ASSUME NEW R, NEW S, R \subseteq S
    PROVE  /\ \A m : Lists(m, R) => Lists(m, S)
           /\ \A r : Listing(r, R) => Listing(r, S)
<1>1. \A m : Lists(m, R) => Lists(m, S)
  BY DEF Lists
<1>2. QED
  BY <1>1 DEF Listing, ItemLists

(* One command takes a step: the others are not undisturbed, or the step    *)
(* would not have been taken.                                               *)
LEMMA ListsAfter ==
    ASSUME IInv, LInv, NEW c \in Running, NEW q, cmds' = [cmds EXCEPT ![c] = q],
           q.req = cmds[c].req, q.pc # "off", Listing(q, ToRename(cmds)),
           files'[Manifest].whole => Lists(files'[Manifest].body, ToRename(cmds)),
           UNCHANGED disturbed,
           (c \notin disturbed /\ Revising(q)) => Follows(c, q, files')
    PROVE  LInv'
<1>1. c \in Commands /\ cmds = [d \in Commands |-> cmds[d]] /\ cmds[c].pc \notin {"off", "done"}
  BY CommandParts DEF IInv
<1>2. cmds'[c] = q /\ \A d \in Commands : d # c => cmds'[d] = cmds[d]
  BY <1>1
<1>0. ToRename(cmds) \subseteq ToRename(cmds')
  BY <1>1, <1>2, ToRenameGrows
<1>3. /\ \A d \in Commands : Listing(cmds'[d], ToRename(cmds'))
      /\ files'[Manifest].whole => Lists(files'[Manifest].body, ToRename(cmds'))
  <2>1. \A d \in Commands : Listing(cmds'[d], ToRename(cmds))
    BY <1>2 DEF LInv
  <2>2. QED
    BY <1>0, <2>1, MoreRenamed
<1>4. ASSUME NEW d \in Running' \ disturbed', Revising(cmds'[d])
      PROVE  Follows(d, cmds'[d], files')
  <2>1. CASE d = c
    BY <1>2, <1>4, <2>1
  <2>2. CASE d # c
    <3>1. d \in Running \ disturbed
      BY <1>2, <1>4, <2>2 DEF Running
    <3>2. Running = {d}
      BY <3>1 DEF IInv
    <3>3. QED
      BY <2>2, <3>2
  <2>3. QED
    BY <2>1, <2>2
<1>5. QED
  BY <1>3, <1>4 DEF LInv

(* The next record of a command that has nothing new to write.              *)
Carries(r, q) ==
  /\ q.req = r.req /\ q.pc \notin {"off", "lib"}
  /\ q.plan = <<>> \/ q.plan = r.plan \/ (r.plan # <<>> /\ q.plan = Tail(r.plan))

LEMMA CarriedLists ==
    ASSUME NEW r, NEW R, Listing(r, R), PlanFits(r), NEW q, Carries(r, q)
    PROVE  Listing(q, R)
<1>1. CASE q.plan = <<>>
  BY <1>1 DEF Carries, Listing
<1>2. CASE q.plan = r.plan
  BY <1>2 DEF Carries, Listing
<1>3. CASE r.plan # <<>> /\ q.plan = Tail(r.plan)
  <2>1. \A i \in DOMAIN q.plan : \E j \in DOMAIN r.plan : q.plan[i] = r.plan[j]
    BY <1>3, TailElements DEF PlanFits
  <2>2. QED
    BY <2>1 DEF Carries, Listing
<1>4. QED
  BY <1>1, <1>2, <1>3 DEF Carries

LEMMA CarriedStep ==
    ASSUME IInv, LInv, NEW c \in Running, NEW q, cmds' = [cmds EXCEPT ![c] = q],
           Carries(cmds[c], q), files'[Manifest].whole => Lists(files'[Manifest].body, ToRename(cmds)),
           UNCHANGED disturbed,
           (c \notin disturbed /\ Revising(q)) => Follows(c, q, files')
    PROVE  LInv'
<1>1. Listing(cmds[c], ToRename(cmds)) /\ PlanFits(cmds[c])
  BY CommandParts DEF LInv
<1>2. Listing(q, ToRename(cmds))
  BY <1>1, CarriedLists
<1>3. QED
  BY <1>2, ListsAfter DEF Carries

LEMMA ExitCarries ==
    ASSUME IInv, NEW c \in Running, NEW reply \in {"ok", "failed", "killed"}, Exit(c, reply)
    PROVE  \E q : cmds' = [cmds EXCEPT ![c] = q] /\ Carries(cmds[c], q) /\ ~Revising(q)
<1>1. PICK q : q = Left(cmds[c], reply)
  OBVIOUS
<1>2. cmds' = [cmds EXCEPT ![c] = q] /\ q.pc = "done" /\ q.req = cmds[c].req /\ CommandFits(q)
  BY <1>1, ExitFits
<1>3. q.plan = <<>>
  BY <1>2 DEF CommandFits, PlanFits
<1>4. QED
  BY <1>2, <1>3 DEF Carries, Revising

LEMMA GotoCarries ==
    ASSUME IInv, NEW c \in Running, NEW l, l \notin {"off", "lib"}, Goto(c, l)
    PROVE  \E q : /\ cmds' = [cmds EXCEPT ![c] = q] /\ Carries(cmds[c], q)
                  /\ q.pc = l /\ q.req = cmds[c].req /\ q.plan = cmds[c].plan
<1>1. PICK q : q = Moved(cmds[c], l, cmds[c].plan, cmds[c].read, cmds[c].git)
  OBVIOUS
<1>2. cmds' = [cmds EXCEPT ![c] = q]
  BY <1>1, Goes
<1>3. q.pc = l /\ q.req = cmds[c].req /\ q.plan = cmds[c].plan
  BY <1>1, MovedParts
<1>4. QED
  BY <1>2, <1>3 DEF Carries

LEMMA ReportCarries ==
    ASSUME IInv, NEW c \in Running, NEW status, Report(c, status)
    PROVE  \E q : cmds' = [cmds EXCEPT ![c] = q] /\ Carries(cmds[c], q)
<1>1. PICK q : q = Moved(cmds[c], "compile", cmds[c].plan, cmds[c].read, status)
  OBVIOUS
<1>2. cmds' = [cmds EXCEPT ![c] = q]
  BY <1>1, Reports
<1>3. q.pc = "compile" /\ q.req = cmds[c].req /\ q.plan = cmds[c].plan
  BY <1>1, MovedParts
<1>4. QED
  BY <1>2, <1>3 DEF Carries

LEMMA OnwardCarries ==
    ASSUME IInv, NEW c \in Running, Onward(c), cmds[c].plan # <<>>,
           cmds[c].req.kind = "wizard" => ~Dry(cmds[c].req)
    PROVE  \E q : cmds' = [cmds EXCEPT ![c] = q] /\ Carries(cmds[c], q)
<1>1. PICK q : /\ cmds' = [cmds EXCEPT ![c] = q]
               /\ q.pc \in {"open", "step"} /\ q.req = cmds[c].req
               /\ q.plan = Tail(cmds[c].plan)
  BY OnwardFits
<1>2. QED
  BY <1>1 DEF Carries

(* A command that makes a project revises none.                             *)
LEMMA MakersDoNotRevise ==
    ASSUME NEW q, Makes(q.req)
    PROVE  ~Revising(q)
  BY DEF Makes, Revising, Create

LEMMA MakerStep ==
    ASSUME IInv, LInv, NEW c \in Running, Makes(cmds[c].req),
           \E q : cmds' = [cmds EXCEPT ![c] = q] /\ Carries(cmds[c], q),
           files'[Manifest].whole => Lists(files'[Manifest].body, ToRename(cmds)), UNCHANGED disturbed
    PROVE  LInv'
<1>1. PICK q : cmds' = [cmds EXCEPT ![c] = q] /\ Carries(cmds[c], q)
  OBVIOUS
<1>2. ~Revising(q)
  BY <1>1, MakersDoNotRevise DEF Carries
<1>3. QED
  BY <1>1, <1>2, CarriedStep

(* A command ends and leaves the files as they are.                         *)
LEMMA EndLists ==
    ASSUME IInv, LInv, NEW c \in Running, NEW reply \in {"ok", "failed", "killed"},
           Exit(c, reply), UNCHANGED files, UNCHANGED disturbed
    PROVE  LInv'
<1>1. PICK q : cmds' = [cmds EXCEPT ![c] = q] /\ Carries(cmds[c], q) /\ ~Revising(q)
  BY ExitCarries
<1>2. files'[Manifest].whole => Lists(files'[Manifest].body, ToRename(cmds))
  BY DEF LInv
<1>3. QED
  BY <1>1, <1>2, CarriedStep

LEMMA PlannedLists ==
    ASSUME IInv, LInv, NEW c \in Running, NEW l \in {"open", "output"},
           Makes(cmds[c].req), cmds[c].req.kind = "new" => BuildRequest(cmds[c].req),
           cmds' = [cmds EXCEPT ![c].pc = l, ![c].plan = Script(cmds[c].req)],
           UNCHANGED files, UNCHANGED disturbed
    PROVE  LInv'
<1>1. PICK plan, q : /\ plan = Script(cmds[c].req)
                     /\ q = Moved(cmds[c], l, plan, cmds[c].read, cmds[c].git)
  OBVIOUS
<1>2. cmds' = [cmds EXCEPT ![c] = q]
  BY <1>1, Plans
<1>3. q.pc = l /\ q.req = cmds[c].req /\ q.plan = plan
  BY <1>1, MovedParts
<1>4. cmds[c].req \in Requests
  BY CommandParts
<1>5. \A i \in DOMAIN plan : ItemLists(cmds[c].req, plan[i], ToRename(cmds))
  BY <1>1, <1>4, ScriptLists
<1>6. Listing(q, ToRename(cmds)) /\ q.req = cmds[c].req /\ q.pc # "off"
  BY <1>3, <1>5 DEF Listing
<1>7. ~Revising(q)
  BY <1>3, MakersDoNotRevise
<1>8. files'[Manifest].whole => Lists(files'[Manifest].body, ToRename(cmds))
  BY DEF LInv
<1>9. QED
  BY <1>2, <1>6, <1>7, <1>8, ListsAfter

LEMMA CheckLists ==
    ASSUME IInv, LInv, NEW c \in Commands, Check(c)
    PROVE  LInv'
<1>1. cmds[c].pc = "check" /\ UNCHANGED files /\ UNCHANGED disturbed
  BY DEF Check, At, dir, hist
<1>2. /\ c \in Running /\ cmds[c].req \in Requests /\ cmds[c].req.kind = "new"
      /\ Makes(cmds[c].req)
  BY <1>1, NewCommand DEF NewPlaces
<1>3. CASE Exit(c, "failed")
  BY <1>1, <1>2, <1>3, EndLists
<1>4. CASE /\ BuildRequest(cmds[c].req)
           /\ cmds' = [cmds EXCEPT ![c].pc = "open", ![c].plan =
                         RenderFiles(cmds[c].req, ResolveTemplate(cmds[c].req.template))]
  <2>1. RenderFiles(cmds[c].req, ResolveTemplate(cmds[c].req.template)) = Script(cmds[c].req)
    BY <1>2 DEF Script
  <2>2. QED
    BY <1>1, <1>2, <1>4, <2>1, PlannedLists
<1>5. QED
  BY <1>3, <1>4 DEF Check

LEMMA PersistLists ==
    ASSUME IInv, LInv, NEW c \in Commands, Persist(c)
    PROVE  LInv'
<1> DEFINE f == Head(cmds[c].plan)
<1>1. /\ cmds[c].pc = "persist" /\ (Goto(c, "chmod") \/ Onward(c))
      /\ files' = [files EXCEPT ![f.path] = File(c, f.body)] /\ UNCHANGED disturbed
  BY DEF Persist, At, hist
<1>2. /\ c \in Running /\ cmds[c].plan # <<>> /\ (cmds[c].req.kind = "wizard" => ~Dry(cmds[c].req))
      /\ cmds[c].req.kind = "new" /\ Makes(cmds[c].req)
  BY <1>1, FileInHand, NewCommand DEF NewPlaces
<1>3. \E q : cmds' = [cmds EXCEPT ![c] = q] /\ Carries(cmds[c], q)
  BY <1>1, <1>2, GotoCarries, OnwardCarries
<1>4. ItemLists(cmds[c].req, f, ToRename(cmds))
  <2>1. PlanFits(cmds[c]) /\ Listing(cmds[c], ToRename(cmds))
    BY <1>2, CommandParts DEF LInv
  <2>2. QED
    BY <1>2, <2>1, TailElements DEF PlanFits, Listing
<1>5. files'[Manifest].whole => Lists(files'[Manifest].body, ToRename(cmds))
  <2>1. Manifest \in Paths /\ files = [p \in Paths |-> files[p]]
    BY DEF Paths, Generated, IInv, DirectoryFits
  <2>2. CASE f.path = Manifest
    <3>1. Lists(f.body, ToRename(cmds))
      BY <1>2, <1>4, <2>2 DEF ItemLists
    <3>2. files'[Manifest].body = f.body
      BY <1>1, <2>1, <2>2 DEF File
    <3>3. QED
      BY <3>1, <3>2
  <2>3. CASE f.path # Manifest
    <3>1. files'[Manifest] = files[Manifest]
      BY <1>1, <2>1, <2>3
    <3>2. QED
      BY <3>1 DEF LInv
  <2>4. QED
    BY <2>2, <2>3
<1>6. QED
  BY <1>1, <1>2, <1>3, <1>5, MakerStep

LEMMA SetExecutableLists ==
    ASSUME IInv, LInv, NEW c \in Commands, SetExecutable(c)
    PROVE  LInv'
<1> DEFINE p == Head(cmds[c].plan).path
<1>1. /\ cmds[c].pc = "chmod" /\ UNCHANGED disturbed
      /\ \/ Exit(c, "failed") /\ UNCHANGED files
         \/ Onward(c) /\ files' = [files EXCEPT ![p].x = TRUE]
  BY DEF SetExecutable, At, hist
<1>2. c \in Running /\ cmds[c].plan # <<>> /\ (cmds[c].req.kind = "wizard" => ~Dry(cmds[c].req))
  BY <1>1, FileInHand
<1>3. Makes(cmds[c].req)
  BY <1>1, <1>2, CommandParts DEF RequestFits
<1>4. CASE Exit(c, "failed") /\ UNCHANGED files
  BY <1>1, <1>2, <1>4, EndLists
<1>5. CASE Onward(c) /\ files' = [files EXCEPT ![p].x = TRUE]
  <2>1. \E q : cmds' = [cmds EXCEPT ![c] = q] /\ Carries(cmds[c], q)
    BY <1>2, <1>5, OnwardCarries
  <2>2. Manifest \in Paths /\ files = [y \in Paths |-> files[y]] /\ FileFits(Manifest, files[Manifest], cmds)
    BY DEF Paths, Generated, IInv, DirectoryFits
  <2>3. files[Manifest] = [by |-> files[Manifest].by, whole |-> files[Manifest].whole,
                           x |-> files[Manifest].x, body |-> files[Manifest].body]
    BY <2>2 DEF FileFits
  <2>4. files'[Manifest].whole = files[Manifest].whole /\ files'[Manifest].body = files[Manifest].body
    <3>1. CASE p = Manifest
      <4>1. files'[Manifest] = [files[Manifest] EXCEPT !.x = TRUE]
        BY <1>5, <2>2, <3>1
      <4>2. QED
        BY <2>3, <4>1
    <3>2. CASE p # Manifest
      BY <1>5, <2>2, <3>2
    <3>3. QED
      BY <3>1, <3>2
  <2>5. files'[Manifest].whole => Lists(files'[Manifest].body, ToRename(cmds))
    BY <2>4 DEF LInv
  <2>6. QED
    BY <1>1, <1>2, <1>3, <2>1, <2>5, MakerStep
<1>6. QED
  BY <1>1, <1>4, <1>5

(* The other steps of `new` leave the files as they are.                    *)
LEMMA NewStepLists ==
    ASSUME IInv, LInv, NEW c \in Commands, NewStep(c), ~StartNew(c)
    PROVE  LInv'
<1>1. CASE Check(c)
  BY <1>1, CheckLists
<1>2. CASE Persist(c)
  BY <1>2, PersistLists
<1>3. CASE SetExecutable(c)
  BY <1>3, SetExecutableLists
<1>4. ASSUME cmds[c].pc \in NewPlaces, UNCHANGED files, UNCHANGED disturbed,
             \/ \E reply \in {"ok", "failed", "killed"} : Exit(c, reply)
             \/ \E l : l \notin {"off", "lib"} /\ Goto(c, l)
             \/ \E status : Report(c, status)
      PROVE  LInv'
  <2>1. c \in Running /\ Makes(cmds[c].req)
    BY <1>4, NewCommand
  <2>2. CASE \E reply \in {"ok", "failed", "killed"} : Exit(c, reply)
    BY <1>4, <2>1, <2>2, EndLists
  <2>3. CASE (\E l : l \notin {"off", "lib"} /\ Goto(c, l)) \/ (\E status : Report(c, status))
    <3>1. \E q : cmds' = [cmds EXCEPT ![c] = q] /\ Carries(cmds[c], q)
      BY <2>1, <2>3, GotoCarries, ReportCarries
    <3>2. files'[Manifest].whole => Lists(files'[Manifest].body, ToRename(cmds))
      BY <1>4 DEF LInv
    <3>3. QED
      BY <1>4, <2>1, <3>1, <3>2, MakerStep
  <2>4. QED
    BY <1>4, <2>2, <2>3
<1>5. CASE OpenTemp(c)
  <2>1. cmds[c].pc = "open" /\ Goto(c, "persist") /\ UNCHANGED files /\ UNCHANGED disturbed
    BY <1>5 DEF OpenTemp, At, hist
  <2>2. QED
    BY <1>4, <2>1 DEF NewPlaces
<1>6. CASE WriteFails(c)
  <2>1. /\ cmds[c].pc \in {"open", "persist"} /\ Exit(c, "failed")
        /\ UNCHANGED files /\ UNCHANGED disturbed
    BY <1>6 DEF WriteFails, hist
  <2>2. QED
    BY <1>4, <2>1 DEF NewPlaces
<1>7. CASE CheckDeps(c)
  <2>1. /\ cmds[c].pc = "open" /\ (Goto(c, "detect") \/ Exit(c, "failed"))
        /\ UNCHANGED files /\ UNCHANGED disturbed
    BY <1>7 DEF CheckDeps, At, dir, hist
  <2>2. QED
    BY <1>4, <2>1 DEF NewPlaces
<1>8. CASE DetectGit(c) \/ GitInit(c) \/ GitAdd(c) \/ GitCommit(c)
  <2>1. cmds[c].pc \in {"detect", "init", "add", "commit"} /\ UNCHANGED files /\ UNCHANGED disturbed
    BY <1>8 DEF DetectGit, GitInit, GitAdd, GitCommit, At, dir, hist
  <2>2. \/ Goto(c, "init") \/ Goto(c, "add") \/ Goto(c, "commit")
        \/ \E status : Report(c, status)
    <3>1. DetectGit(c) => Goto(c, "init") \/ \E s : Report(c, s)
      BY DEF DetectGit
    <3>2. GitInit(c) => Goto(c, "add") \/ \E s : Report(c, s)
      BY DEF GitInit
    <3>3. GitAdd(c) => Goto(c, "commit") \/ \E s : Report(c, s)
      BY DEF GitAdd
    <3>4. GitCommit(c) => \E s : Report(c, s)
      BY DEF GitCommit
    <3>5. QED
      BY <1>8, <3>1, <3>2, <3>3, <3>4
  <2>3. cmds[c].pc \in NewPlaces
    BY <2>1 DEF NewPlaces
  <2>4. QED
    BY <1>4, <2>1, <2>2, <2>3
<1>9. CASE Compile(c)
  <2>1. /\ cmds[c].pc = "compile" /\ (Exit(c, "ok") \/ Exit(c, "failed"))
        /\ UNCHANGED files /\ UNCHANGED disturbed
    BY <1>9 DEF Compile, At, dir, hist
  <2>2. QED
    BY <1>4, <2>1 DEF NewPlaces
<1>10. QED
  BY <1>1, <1>2, <1>3, <1>5, <1>6, <1>7, <1>8, <1>9 DEF NewStep

(* The steps of the wizard up to the execution of its plan.                 *)
LEMMA QuietLists ==
    ASSUME IInv, LInv, UNCHANGED files
    PROVE  files'[Manifest].whole => Lists(files'[Manifest].body, ToRename(cmds))
  BY DEF LInv

LEMMA ResolveLists ==
    ASSUME IInv, LInv, NEW c \in Commands, Resolve(c)
    PROVE  LInv'
<1> DEFINE req == cmds[c].req
<1>1. /\ cmds[c].pc = "resolve" /\ UNCHANGED files /\ UNCHANGED disturbed
      /\ cmds[c].pc \in WizardPlaces
  BY DEF Resolve, At, WizardPlaces, dir, hist
<1>2. c \in Running /\ req.kind = "wizard"
  BY <1>1, WizardCommand
<1>3. CASE Exit(c, "failed")
  BY <1>1, <1>2, <1>3, EndLists
<1>4. CASE \E l \in {"clear", "manifest"} : Goto(c, l)
  <2>1. PICK l \in {"clear", "manifest"} : Goto(c, l)
    BY <1>4
  <2>2. PICK q : cmds' = [cmds EXCEPT ![c] = q] /\ Carries(cmds[c], q) /\ q.pc = l
    BY <1>2, <2>1, GotoCarries
  <2>3. ~Revising(q)
    BY <2>1, <2>2 DEF Revising
  <2>4. QED
    BY <1>1, <1>2, <2>2, <2>3, QuietLists, CarriedStep
<1> DEFINE Calls == {CallStep("build"), CallStep("test"), CallStep("doctor")}
<1>5. ASSUME NEW plan, plan \in Seq(Calls),
             Mode(req) \notin {"add_operation", "update_operation"},
             cmds' = [cmds EXCEPT ![c].pc = "output", ![c].plan = plan]
      PROVE  LInv'
  <2>1. PICK q : q = Moved(cmds[c], "output", plan, cmds[c].read, cmds[c].git)
    OBVIOUS
  <2>2. cmds' = [cmds EXCEPT ![c] = q]
    BY <1>2, <1>5, <2>1, Plans
  <2>3. q.pc = "output" /\ q.req = req /\ q.plan = plan
    BY <2>1, MovedParts
  <2>4. \A item \in Calls : item.step # "file"
    BY DEF CallStep
  <2> HIDE DEF Calls
  <2>5. \A i \in DOMAIN plan : plan[i] \in Calls
    BY <1>5, LenProperties
  <2>6. Listing(q, ToRename(cmds))
    BY <1>2, <2>3, <2>4, <2>5 DEF Listing, ItemLists
  <2>7. ~Revising(q)
    BY <1>5, <2>3 DEF Revising
  <2>8. QED
    BY <1>1, <1>2, <2>2, <2>3, <2>6, <2>7, QuietLists, ListsAfter
<1>6. BuildTestPlan(req) \in Seq(Calls) /\ <<CallStep("doctor")>> \in Seq(Calls)
  <2>1. /\ <<CallStep("build")>> \in Seq(Calls) /\ <<CallStep("test")>> \in Seq(Calls)
        /\ <<CallStep("doctor")>> \in Seq(Calls) /\ <<>> \in Seq(Calls)
    OBVIOUS
  <2>2. (IF req.fullTests THEN <<CallStep("test")>> ELSE <<>>) \in Seq(Calls)
    BY <2>1
  <2> HIDE DEF Calls, req
  <2>3. QED
    BY <2>1, <2>2, ConcatProperties DEF BuildTestPlan
<1> HIDE DEF Calls
<1>7. CASE AnswersRefused(req) \/ ~ModesAgree(req)
  BY <1>3, <1>7 DEF Resolve
<1>8. CASE ~(AnswersRefused(req) \/ ~ModesAgree(req))
  <2>1. CASE Mode(req) = Create
    BY <1>4, <1>8, <2>1 DEF Resolve, Create
  <2>2. CASE Mode(req) \in {"add_operation", "update_operation"}
    BY <1>4, <1>8, <2>2 DEF Resolve, Create
  <2>3. CASE Mode(req) = "build_test"
    <3>1. cmds' = [cmds EXCEPT ![c].pc = "output", ![c].plan = BuildTestPlan(req)]
      BY <1>8, <2>3 DEF Resolve, Create
    <3>2. QED
      BY <1>5, <1>6, <2>3, <3>1
  <2>4. CASE Mode(req) \notin {Create, "add_operation", "update_operation", "build_test"}
    <3>1. cmds' = [cmds EXCEPT ![c].pc = "output", ![c].plan = <<CallStep("doctor")>>]
      BY <1>8, <2>4 DEF Resolve, Create
    <3>2. QED
      BY <1>5, <1>6, <2>4, <3>1
  <2>5. QED
    BY <2>1, <2>2, <2>3, <2>4
<1>9. QED
  BY <1>7, <1>8

LEMMA ClearLists ==
    ASSUME IInv, LInv, NEW c \in Commands, Clear(c)
    PROVE  LInv'
<1>1. /\ cmds[c].pc = "clear" /\ UNCHANGED disturbed /\ cmds[c].pc \in WizardPlaces
      /\ Exit(c, "failed") \/ Goto(c, "parse")
      /\ UNCHANGED files \/ \E P : Remove(P)
  BY DEF Clear, ClearOutput, At, WizardPlaces, dir, hist
<1>2. c \in Running /\ Makes(cmds[c].req)
  BY <1>1, WizardCommand DEF RequestFits
<1>3. \E q : cmds' = [cmds EXCEPT ![c] = q] /\ Carries(cmds[c], q)
  BY <1>1, <1>2, ExitCarries, GotoCarries
<1>4. files'[Manifest].whole => Lists(files'[Manifest].body, ToRename(cmds))
  <2>1. CASE UNCHANGED files
    BY <2>1, QuietLists
  <2>2. CASE \E P : Remove(P)
    <3>1. Manifest \in Paths
      BY DEF Paths, Generated
    <3>2. files'[Manifest] = Absent \/ files'[Manifest] = files[Manifest]
      BY <2>2, <3>1 DEF Remove
    <3>3. QED
      BY <3>2 DEF LInv, Absent
  <2>3. QED
    BY <1>1, <2>1, <2>2
<1>5. QED
  BY <1>1, <1>2, <1>3, <1>4, MakerStep

LEMMA ParseLists ==
    ASSUME IInv, LInv, NEW c \in Commands, Parse(c)
    PROVE  LInv'
<1>1. /\ cmds[c].pc = "parse" /\ UNCHANGED files /\ UNCHANGED disturbed
      /\ cmds[c].pc \in WizardPlaces
  BY DEF Parse, At, WizardPlaces, dir, hist
<1>2. /\ c \in Running /\ cmds[c].req.kind = "wizard" /\ Makes(cmds[c].req)
  BY <1>1, WizardCommand DEF RequestFits
<1>3. CASE Exit(c, "failed")
  BY <1>1, <1>2, <1>3, EndLists
<1>4. CASE cmds' = [cmds EXCEPT ![c].pc = "output", ![c].plan = CreatePlan(cmds[c].req)]
  <2>1. CreatePlan(cmds[c].req) = Script(cmds[c].req)
    BY <1>2 DEF Script
  <2>2. QED
    BY <1>1, <1>2, <1>4, <2>1, PlannedLists
<1>5. QED
  BY <1>3, <1>4 DEF Parse

(* The manifest that is read is one that lists them; what is planned is     *)
(* that with one name added or replaced.                                    *)
LEMMA ReadManifestLists ==
    ASSUME IInv, LInv, NEW c \in Commands, ReadManifest(c)
    PROVE  LInv'
<1> DEFINE req == cmds[c].req
           f == files[Manifest]
           m == IF Mode(req) = "add_operation" THEN AddOperation(f.body, req)
                ELSE UpdateOperation(f.body, req)
<1>1. /\ cmds[c].pc = "manifest" /\ UNCHANGED files /\ UNCHANGED disturbed
      /\ cmds[c].pc \in WizardPlaces
  BY DEF ReadManifest, At, WizardPlaces, dir, hist
<1>2. /\ c \in Running /\ req \in Requests /\ req.kind = "wizard"
      /\ Mode(req) \in {"add_operation", "update_operation"}
  BY <1>1, WizardCommand DEF RequestFits
<1>3. CASE Exit(c, "failed")
  BY <1>1, <1>2, <1>3, EndLists
<1>4. CASE /\ f.whole /\ ~OperationRefused(f.body, req)
           /\ cmds' = [cmds EXCEPT ![c].pc = "lib", ![c].read = m]
  <2>1. Lists(m, ToRename(cmds))
    <3>1. IsManifest(f.body) /\ Lists(f.body, ToRename(cmds))
      BY <1>4 DEF IInv, DirectoryFits, FileFits, Paths, Generated, LInv
    <3>2. CASE Mode(req) = "add_operation"
      BY <3>1, <3>2, AddedLists
    <3>3. CASE Mode(req) = "update_operation"
      <4>1. InSeq(req.op, f.body.ops)
        BY <1>4, <3>3 DEF OperationRefused
      <4>2. req.op \in ToRename(cmds) \/ NewName(req) = req.op
        BY <1>1, <1>2, <3>3 DEF ToRename, Renames
      <4>3. Lists(UpdateOperation(f.body, req), ToRename(cmds))
        BY <3>1, <4>1, <4>2, UpdatedLists
      <4>4. QED
        BY <3>3, <4>3
    <3>4. QED
      BY <1>2, <3>2, <3>3
  <2>2. PICK q : q = Moved(cmds[c], "lib", cmds[c].plan, m, cmds[c].git)
    OBVIOUS
  <2> HIDE DEF m
  <2>3. cmds' = [cmds EXCEPT ![c] = q]
    <3>1. cmds' = WithPlaceRead(cmds, c, "lib", m)
      BY <1>4 DEF WithPlaceRead
    <3>2. QED
      BY <1>2, <2>2, <3>1, ReadMoves
  <2>4. q.pc = "lib" /\ q.req = req /\ q.plan = cmds[c].plan /\ q.read = m
    BY <2>2, MovedParts
  <2>5. Listing(cmds[c], ToRename(cmds))
    BY DEF LInv
  <2>6. Listing(q, ToRename(cmds))
    BY <2>1, <2>4, <2>5 DEF Listing
  <2>7. ~Revising(q)
    BY <2>4 DEF Revising
  <2>8. QED
    BY <1>1, <1>2, <2>3, <2>4, <2>6, <2>7, QuietLists, ListsAfter
<1>5. QED
  BY <1>3, <1>4 DEF ReadManifest

(* src/lib.rs is planned with what the manifest that was read has.          *)
LEMMA RewriteLibLists ==
    ASSUME IInv, LInv, NEW c \in Commands, RewriteLib(c)
    PROVE  LInv'
<1> DEFINE f == files[Lib]
           m == cmds[c].read
           ops == CollectUserOperations(m)
           Planned(whole, layout) ==
             cmds' = [cmds EXCEPT ![c].pc = "output", ![c].read = Blank,
                        ![c].plan = OperationPlan(m, FileStep(Lib, whole, LibRs(ops, layout)))]
<1>1. /\ cmds[c].pc = "lib" /\ UNCHANGED files /\ UNCHANGED disturbed
      /\ cmds[c].pc \in WizardPlaces
  BY DEF RewriteLib, At, WizardPlaces, dir, hist
<1>2. /\ c \in Running /\ Lists(m, ToRename(cmds))
  BY <1>1, WizardCommand DEF LInv, Listing
<1>3. CASE Exit(c, "failed")
  BY <1>1, <1>2, <1>3, EndLists
<1>4. ASSUME NEW whole, NEW layout, Planned(whole, layout) PROVE LInv'
  <2>1. PICK first, lib, plan : /\ first = FileStep(Manifest, TRUE, m)
                                /\ lib = FileStep(Lib, whole, LibRs(ops, layout))
                                /\ plan = OperationPlan(m, lib)
    OBVIOUS
  <2>2. PICK q : q = Moved(cmds[c], "output", plan, Blank, cmds[c].git)
    OBVIOUS
  <2>3. cmds' = [cmds EXCEPT ![c] = q]
    <3>1. cmds' = WithPlaceReadPlan(cmds, c, "output", Blank, plan)
      BY <1>4, <2>1 DEF WithPlaceReadPlan
    <3>2. QED
      BY <1>2, <2>2, <3>1, RewriteMoves
  <2>4. q.pc = "output" /\ q.plan = plan /\ q.req = cmds[c].req
    BY <2>2, MovedParts
  <2>5. /\ first.path = Manifest /\ first.body = m
        /\ lib.path = Lib /\ lib.step = "file" /\ lib.body.ops = ops
    BY <2>1 DEF FileStep, LibRs
  <2> HIDE DEF ops
  <2>6. plan = <<first, lib>> /\ DOMAIN plan = {1, 2} /\ plan[1] = first /\ plan[2] = lib
    BY <2>1 DEF OperationPlan
  <2>7. Manifest # Lib
    BY DEF Manifest, Lib
  <2>8. Listing(q, ToRename(cmds))
    BY <1>2, <2>4, <2>5, <2>6, <2>7 DEF Listing, ItemLists
  <2>9. Follows(c, q, files)
    <3>1. {first, lib} = {plan[i] : i \in DOMAIN plan}
      BY <2>6
    <3>2. plan = OperationPlan(first.body, lib) /\ LibOf(lib, first.body)
      BY <2>1, <2>5 DEF LibOf, ops
    <3>3. QED
      BY <2>4, <3>1, <3>2 DEF Follows
  <2>10. QED
    BY <1>1, <1>2, <2>3, <2>4, <2>8, <2>9, QuietLists, ListsAfter
<1>5. CASE Planned(ops # {} \/ f.body.layout = "extend", f.body.layout)
  BY <1>4, <1>5
<1>6. CASE \E l \in {"vec", "extend"} : Planned(FALSE, l)
  BY <1>4, <1>6
<1>7. QED
  BY <1>3, <1>5, <1>6 DEF RewriteLib

LEMMA OutputLists ==
    ASSUME IInv, LInv, NEW c \in Commands, Output(c)
    PROVE  LInv'
<1>1. /\ cmds[c].pc = "output" /\ UNCHANGED files /\ UNCHANGED disturbed
      /\ cmds[c].pc \in WizardPlaces
  BY DEF Output, At, WizardPlaces, dir, hist
<1>2. c \in Running
  BY <1>1, WizardCommand
<1>3. CASE \E reply \in {"ok", "failed", "killed"} : Exit(c, reply)
  BY <1>1, <1>2, <1>3, EndLists
<1>4. CASE Goto(c, "step")
  <2>1. PICK q : /\ cmds' = [cmds EXCEPT ![c] = q] /\ Carries(cmds[c], q)
                 /\ q.pc = "step" /\ q.req = cmds[c].req /\ q.plan = cmds[c].plan
    BY <1>2, <1>4, GotoCarries
  <2>2. ASSUME c \notin disturbed, Revising(q) PROVE Follows(c, q, files')
    <3>1. Revising(cmds[c])
      BY <1>1, <2>1, <2>2 DEF Revising
    <3>2. Follows(c, cmds[c], files)
      BY <1>2, <2>2, <3>1 DEF LInv
    <3>3. QED
      BY <1>1, <2>1, <3>2 DEF Follows
  <2>3. QED
    BY <1>1, <1>2, <2>1, <2>2, QuietLists, CarriedStep
<1>5. QED
  BY <1>3, <1>4 DEF Output

(* The execution of the plan.  A run that revises, undisturbed, with        *)
(* something left of its plan.                                              *)
LEMMA RevisionAhead ==
    ASSUME LInv, NEW c \in Running, c \notin disturbed, Revising(cmds[c]),
           cmds[c].plan # <<>>
    PROVE  \E plan, f :
             /\ plan = cmds[c].plan /\ f = Head(plan) /\ f.step = "file"
             /\ \/ /\ f.path = Manifest /\ f.whole = TRUE
                   /\ \E lib : Tail(plan) = <<lib>> /\ LibOf(lib, f.body)
                \/ /\ f.path = Lib /\ Tail(plan) = <<>>
                   /\ files[Manifest].whole /\ LibOf(f, files[Manifest].body)
             /\ cmds[c].pc = "fill" => files[f.path].by = c
<1>0. PICK plan, f : plan = cmds[c].plan /\ f = Head(plan)
  OBVIOUS
<1>1. Follows(c, cmds[c], files)
  BY DEF LInv
<1>2. cmds[c].pc = "fill" => files[f.path].by = c
  BY <1>0, <1>1 DEF Follows
<1>3. CASE \E m, lib : plan = OperationPlan(m.body, lib) /\ LibOf(lib, m.body)
  <2>1. PICK m, lib : plan = OperationPlan(m.body, lib) /\ LibOf(lib, m.body)
    BY <1>3
  <2>2. PICK first : first = FileStep(Manifest, TRUE, m.body)
    OBVIOUS
  <2>3. plan = <<first, lib>> /\ Head(plan) = first /\ Tail(plan) = <<lib>>
    BY <2>1, <2>2 DEF OperationPlan
  <2>4. /\ first.step = "file" /\ first.path = Manifest /\ first.whole = TRUE
        /\ first.body = m.body
    BY <2>2 DEF FileStep
  <2>5. QED
    BY <1>0, <1>2, <2>1, <2>3, <2>4
<1>4. CASE files[Manifest].whole /\ \E lib : plan = <<lib>> /\ LibOf(lib, files[Manifest].body)
  <2>1. PICK lib : plan = <<lib>> /\ LibOf(lib, files[Manifest].body)
    BY <1>4
  <2>2. Head(plan) = lib /\ Tail(plan) = <<>>
    BY <2>1
  <2>3. QED
    BY <1>0, <1>2, <1>4, <2>1, <2>2 DEF LibOf
<1>5. QED
  BY <1>0, <1>1, <1>3, <1>4 DEF Follows

LEMMA CallLists ==
    ASSUME IInv, LInv, NEW c \in Commands, NEW what, what # "file", AtStep(c, what), Onward(c),
           UNCHANGED files, UNCHANGED disturbed
    PROVE  LInv'
<1>1. /\ c \in Running /\ cmds[c].plan # <<>> /\ Head(cmds[c].plan).step = what
      /\ ~Dry(cmds[c].req) /\ cmds[c].pc = "step"
  BY AtStepParts
<1>2. PICK q : cmds' = [cmds EXCEPT ![c] = q] /\ Carries(cmds[c], q)
  BY <1>1, OnwardCarries
<1>3. ASSUME c \notin disturbed, Revising(q) PROVE FALSE
  <2>1. Revising(cmds[c])
    BY <1>1, <1>2, <1>3 DEF Revising, Carries
  <2>2. QED
    BY <1>1, <1>3, <2>1, RevisionAhead
<1>4. QED
  BY <1>1, <1>2, <1>3, QuietLists, CarriedStep

LEMMA BuildLists ==
    ASSUME IInv, LInv, NEW c \in Commands, Build(c)
    PROVE  LInv'
<1> DEFINE item == FileStep(Manifest, TRUE, files[Manifest].body)
           plan == <<item>> \o Tail(cmds[c].plan)
<1>1. /\ AtStep(c, "build") /\ files[Manifest].whole
      /\ cmds' = [cmds EXCEPT ![c].plan = plan] /\ UNCHANGED files /\ UNCHANGED disturbed
  BY WholeCommand, AtStepParts DEF Build, dir, hist
<1>2. /\ c \in Running /\ cmds[c].plan # <<>> /\ ~Dry(cmds[c].req) /\ PlanFits(cmds[c])
      /\ cmds[c].pc = "step" /\ Head(cmds[c].plan).step = "build"
  BY <1>1, AtStepParts
<1>3. PICK q : q = Moved(cmds[c], "step", plan, cmds[c].read, cmds[c].git)
  OBVIOUS
<1>4. cmds' = [cmds EXCEPT ![c] = q]
  <2>1. cmds' = WithPlan(cmds, c, plan)
    BY <1>1 DEF WithPlan
  <2> HIDE DEF plan
  <2>2. QED
    BY <1>2, <1>3, <2>1, PlannedMoves
<1>5. q.pc = "step" /\ q.req = cmds[c].req /\ q.plan = plan
  <2> HIDE DEF plan
  <2>1. QED
    BY <1>3, MovedParts
<1>6. Listing(q, ToRename(cmds))
  <2> DEFINE T == {Tail(cmds[c].plan)[i] : i \in DOMAIN Tail(cmds[c].plan)}
             S == {item} \cup T
  <2>1. /\ Tail(cmds[c].plan) \in Seq(T)
        /\ \A x \in T : \E j \in DOMAIN cmds[c].plan : x = cmds[c].plan[j]
    BY <1>2, TailElements DEF PlanFits
  <2>2. \A x \in T : ItemLists(q.req, x, ToRename(cmds))
    BY <1>5, <2>1 DEF LInv, Listing
  <2>3. ItemLists(q.req, item, ToRename(cmds))
    <3>1. item.body = files[Manifest].body
      BY DEF FileStep
    <3> HIDE DEF item
    <3>2. QED
      BY <1>1, <3>1 DEF ItemLists, LInv
  <2> HIDE DEF item, T
  <2>4. <<item>> \in Seq(S) /\ Tail(cmds[c].plan) \in Seq(S)
    BY <2>1
  <2>5. plan \in Seq(S)
    BY <2>4, ConcatProperties
  <2> HIDE DEF plan
  <2>6. \A i \in DOMAIN plan : plan[i] \in S
    BY <2>5, LenProperties
  <2>7. QED
    BY <1>5, <2>2, <2>3, <2>6 DEF Listing
<1> HIDE DEF plan
<1>7. ASSUME c \notin disturbed, Revising(q) PROVE FALSE
  <2>1. Revising(cmds[c])
    BY <1>2, <1>5, <1>7 DEF Revising
  <2>2. QED
    BY <1>2, <1>7, <2>1, RevisionAhead
<1>8. QED
  BY <1>1, <1>2, <1>4, <1>5, <1>6, <1>7, QuietLists, ListsAfter

LEMMA OpenFileLists ==
    ASSUME IInv, LInv, NEW c \in Commands, OpenFile(c)
    PROVE  LInv'
<1> DEFINE f == Head(cmds[c].plan)
           p == f.path
           g == [by |-> c, whole |-> FALSE, x |-> files[p].x, body |-> Blank]
<1>1. /\ AtStep(c, "file") /\ Goto(c, "fill") /\ UNCHANGED disturbed
      /\ files' = [files EXCEPT ![p] = [by |-> c, whole |-> FALSE, x |-> @.x, body |-> Blank]]
  BY DEF OpenFile, Next1, hist
<1>2. /\ c \in Running /\ cmds[c].plan # <<>> /\ f.step = "file" /\ ~Dry(cmds[c].req)
      /\ PlanFits(cmds[c]) /\ cmds[c].pc = "step"
  BY <1>1, AtStepParts
<1>3. p \in Paths /\ Manifest \in Paths /\ Manifest # Lib
  BY <1>2, NextItem DEF ItemFits, Paths, Generated, Lib, Manifest
<1>4. /\ files'[p] = g /\ \A y \in Paths : y = p \/ files'[y] = files[y]
  BY <1>1, <1>3 DEF IInv, DirectoryFits
<1>5. files'[Manifest].whole => Lists(files'[Manifest].body, ToRename(cmds))
  BY <1>3, <1>4 DEF LInv
<1>6. PICK q : /\ cmds' = [cmds EXCEPT ![c] = q] /\ Carries(cmds[c], q)
               /\ q.pc = "fill" /\ q.req = cmds[c].req /\ q.plan = cmds[c].plan
  BY <1>1, <1>2, GotoCarries
<1>7. ASSUME c \notin disturbed, Revising(q) PROVE Follows(c, q, files')
  <2>1. Revising(cmds[c])
    BY <1>2, <1>6, <1>7 DEF Revising
  <2>2. files'[p].by = c
    BY <1>4
  <2> HIDE DEF g
  <2>3. Follows(c, cmds[c], files)
    BY <1>2, <1>7, <2>1 DEF LInv
  <2>4. CASE \E m, lib \in {q.plan[i] : i \in DOMAIN q.plan} :
               q.plan = OperationPlan(m.body, lib) /\ LibOf(lib, m.body)
    BY <1>6, <2>2, <2>4 DEF Follows
  <2>5. CASE /\ files[Manifest].whole
             /\ \E lib \in {q.plan[i] : i \in DOMAIN q.plan} :
                  q.plan = <<lib>> /\ LibOf(lib, files[Manifest].body)
    <3>1. p = Lib
      BY <1>6, <2>5 DEF LibOf
    <3>2. files'[Manifest] = files[Manifest]
      BY <1>3, <1>4, <3>1
    <3>3. QED
      BY <1>6, <2>2, <2>5, <3>2 DEF Follows
  <2>6. QED
    BY <1>2, <1>6, <2>3, <2>4, <2>5 DEF Follows
<1>8. QED
  BY <1>1, <1>2, <1>5, <1>6, <1>7, CarriedStep

LEMMA FillFileLists ==
    ASSUME IInv, LInv, NEW c \in Commands, FillFile(c)
    PROVE  LInv'
<1> DEFINE f == Head(cmds[c].plan)
           p == f.path
           g == [by |-> c, whole |-> f.whole, x |-> files[p].x, body |-> f.body]
<1>1. /\ cmds[c].pc = "fill" /\ UNCHANGED disturbed /\ cmds[c].pc \in WizardPlaces
      /\ \/ files[p] # Absent /\ files' = [files EXCEPT ![p] = g]
         \/ files[p].by # c /\ UNCHANGED files
      /\ IF Executable(p) THEN Goto(c, "chmod") ELSE Onward(c)
  BY DEF FillFile, At, Next1, WizardPlaces, hist
<1>2. /\ c \in Running /\ cmds[c].req.kind = "wizard"
      /\ cmds[c].plan # <<>> /\ f.step = "file" /\ PlanFits(cmds[c])
  BY <1>1, WizardCommand DEF PlanFits
<1>3. p \in Paths /\ Manifest \in Paths /\ Lib \in Paths /\ Manifest # Lib
  BY <1>2, NextItem DEF ItemFits, Paths, Generated, Lib, Manifest
<1>4. PICK q : /\ cmds' = [cmds EXCEPT ![c] = q] /\ q.req = cmds[c].req
               /\ IF Executable(p) THEN q.pc = "chmod" /\ q.plan = cmds[c].plan
                  ELSE q.pc = "step" /\ q.plan = Tail(cmds[c].plan)
  BY <1>1, FilledFits
<1>5. Carries(cmds[c], q)
  BY <1>2, <1>4 DEF Carries
<1>6. CASE files[p] # Absent /\ files' = [files EXCEPT ![p] = g]
  <2>1. files'[p] = g /\ \A y \in Paths : y = p \/ files'[y] = files[y]
    BY <1>3, <1>6 DEF IInv, DirectoryFits
  <2>2. files'[p].whole = f.whole /\ files'[p].body = f.body
    BY <2>1
  <2> HIDE DEF g
  <2>3. ItemLists(cmds[c].req, f, ToRename(cmds))
    BY <1>2, TailElements DEF PlanFits, LInv, Listing
  <2>4. files'[Manifest].whole => Lists(files'[Manifest].body, ToRename(cmds))
    BY <1>2, <1>3, <2>1, <2>2, <2>3 DEF ItemLists, LInv
  <2>5. ASSUME c \notin disturbed, Revising(q) PROVE Follows(c, q, files')
    <3>1. Revising(cmds[c]) /\ q.pc = "step" /\ q.plan = Tail(cmds[c].plan)
      BY <1>1, <1>4, <2>5 DEF Revising
    <3>2. PICK plan, h :
            /\ plan = cmds[c].plan /\ h = Head(plan)
            /\ \/ /\ h.path = Manifest /\ h.whole = TRUE
                  /\ \E lib : Tail(plan) = <<lib>> /\ LibOf(lib, h.body)
               \/ /\ h.path = Lib /\ Tail(plan) = <<>>
                  /\ files[Manifest].whole /\ LibOf(h, files[Manifest].body)
      BY <1>2, <2>5, <3>1, RevisionAhead
    <3>3. \/ /\ p = Manifest /\ f.whole = TRUE
             /\ \E lib : Tail(plan) = <<lib>> /\ LibOf(lib, f.body)
          \/ /\ p = Lib /\ Tail(plan) = <<>>
             /\ files[Manifest].whole /\ LibOf(f, files[Manifest].body)
      BY <3>2
    <3>4. CASE /\ p = Manifest /\ f.whole = TRUE
               /\ \E lib : Tail(plan) = <<lib>> /\ LibOf(lib, f.body)
      <4>1. PICK lib : Tail(plan) = <<lib>> /\ LibOf(lib, f.body)
        BY <3>4
      <4>2. q.plan = <<lib>> /\ lib \in {q.plan[i] : i \in DOMAIN q.plan}
        <5>1. q.plan = <<lib>>
          BY <3>1, <3>2, <4>1
        <5>2. 1 \in DOMAIN <<lib>> /\ <<lib>>[1] = lib
          OBVIOUS
        <5>3. QED
          BY <5>1, <5>2
      <4>3. files'[Manifest].whole /\ LibOf(lib, files'[Manifest].body)
        BY <2>2, <3>4, <4>1
      <4>4. QED
        BY <3>1, <4>2, <4>3 DEF Follows
    <3>5. CASE /\ p = Lib /\ Tail(plan) = <<>>
               /\ files[Manifest].whole /\ LibOf(f, files[Manifest].body)
      <4>1. files'[Manifest] = files[Manifest] /\ files'[Lib].body = f.body
        BY <1>3, <2>1, <2>2, <3>5
      <4>2. q.plan = <<>> /\ files'[Lib].body.ops = CollectUserOperations(files'[Manifest].body)
        BY <3>1, <3>2, <3>5, <4>1 DEF LibOf
      <4>3. QED
        BY <3>1, <3>5, <4>1, <4>2 DEF Follows
    <3>6. QED
      BY <3>3, <3>4, <3>5
  <2>6. QED
    BY <1>1, <1>2, <1>4, <1>5, <2>4, <2>5, CarriedStep
<1>7. CASE files[p].by # c /\ UNCHANGED files
  <2>1. ASSUME c \notin disturbed, Revising(q) PROVE FALSE
    <3>1. Revising(cmds[c])
      BY <1>1, <1>4, <2>1 DEF Revising
    <3>2. QED
      BY <1>1, <1>2, <1>7, <2>1, <3>1, RevisionAhead
  <2>2. QED
    BY <1>1, <1>2, <1>4, <1>5, <1>7, <2>1, QuietLists, CarriedStep
<1>8. QED
  BY <1>1, <1>6, <1>7


(* The other steps of an execution leave the files as they are.             *)
LEMMA WizardStepLists ==
    ASSUME IInv, LInv, NEW c \in Commands, WizardStep(c), ~StartWizard(c)
    PROVE  LInv'
<1>1. CASE StepFails(c)
  <2>1. /\ cmds[c].pc \in WizardPlaces /\ Exit(c, "failed") /\ UNCHANGED files /\ UNCHANGED disturbed
    BY <1>1 DEF StepFails, WizardPlaces, dir, hist
  <2>2. c \in Running
    BY <2>1, WizardCommand
  <2>3. QED
    BY <2>1, <2>2, EndLists
<1>2. CASE Executed(c)
  <2>1. /\ cmds[c].pc \in WizardPlaces /\ Exit(c, "ok") /\ UNCHANGED files /\ UNCHANGED disturbed
    BY <1>2 DEF Executed, At, WizardPlaces, dir, hist
  <2>2. c \in Running
    BY <2>1, WizardCommand
  <2>3. QED
    BY <2>1, <2>2, EndLists
<1>3. CASE EnsureDirs(c)
  <2>1. AtStep(c, "dirs") /\ Onward(c) /\ UNCHANGED files /\ UNCHANGED disturbed
    BY <1>3 DEF EnsureDirs, hist
  <2>2. QED
    BY <2>1, CallLists
<1>4. CASE Call(c)
  <2>1. PICK what \in {"test", "doctor"} :
          AtStep(c, what) /\ Onward(c) /\ UNCHANGED files /\ UNCHANGED disturbed
    BY <1>4 DEF Call, dir, hist
  <2>2. QED
    BY <2>1, CallLists
<1>5. QED
  BY <1>1, <1>2, <1>3, <1>4, ResolveLists, ClearLists, ParseLists, ReadManifestLists,
     RewriteLibLists, OutputLists, OpenFileLists, FillFileLists, BuildLists
     DEF WizardStep

LEMMA KillLists ==
    ASSUME IInv, LInv, NEW c \in Commands, Kill(c)
    PROVE  LInv'
<1>1. c \in Running /\ Exit(c, "killed") /\ UNCHANGED files /\ UNCHANGED disturbed
  BY DEF Kill, dir
<1>2. QED
  BY <1>1, EndLists

(* An operation that is declared by hand comes after those there are.       *)
LEMMA ByHandLists ==
    ASSUME NEW m, IsManifest(m), NEW R, Lists(m, R), NEW x
    PROVE  Lists([m EXCEPT !.ops = Append(@, x)], R)
<1>1. PICK list, n : list = Append(m.ops, x) /\ n = [m EXCEPT !.ops = list]
  OBVIOUS
<1>2. [m EXCEPT !.ops = Append(@, x)] = n
  BY <1>1
<1>3. n.ops = list /\ n.default = m.default
  BY <1>1 DEF IsManifest, ManifestJson
<1>4. list \in Seq(Members(list)) /\ Members(list) = Members(m.ops) \cup {x}
  BY <1>1, AppendedMembers DEF Lists
<1>5. Lists(n, R)
  BY <1>3, <1>4 DEF Lists
<1>6. QED
  BY <1>2, <1>5

LEMMA EditLists ==
    ASSUME IInv, LInv, NEW p \in {Notes, Lib, Manifest}, Edit(p)
    PROVE  LInv'
<1>1. cmds' = cmds /\ disturbed' = disturbed \cup Running
  BY DEF Edit
<1>2. Running' \ disturbed' = {}
  BY <1>1 DEF Running
<1>3. \A c \in Commands : Listing(cmds'[c], ToRename(cmds))
  BY <1>1 DEF LInv
<1>4. files'[Manifest].whole => Lists(files'[Manifest].body, ToRename(cmds))
  <2>1. Manifest \in Paths /\ files = [y \in Paths |-> files[y]]
    BY PathsApart DEF IInv, DirectoryFits
  <2>2. CASE p # Manifest
    <3>1. files'[Manifest] = files[Manifest]
      BY <2>1, <2>2 DEF Edit
    <3>2. QED
      BY <3>1 DEF LInv
  <2>3. CASE p = Manifest
    <3>1. PICK m, n : /\ m = files[Manifest].body
                      /\ n = [m EXCEPT !.ops = Append(@, "by_hand")]
      OBVIOUS
    <3>2. files[Manifest].whole /\ files' = [files EXCEPT ![Manifest] = File(Dev, n)]
      BY <2>3, <3>1, PathsApart DEF Edit
    <3>3. IsManifest(m) /\ Lists(m, ToRename(cmds))
      BY <2>1, <3>1, <3>2 DEF LInv, IInv, DirectoryFits, FileFits
    <3>4. Lists(n, ToRename(cmds))
      BY <3>1, <3>3, ByHandLists
    <3>5. files'[Manifest].body = n
      BY <2>1, <3>2 DEF File
    <3>6. QED
      BY <3>4, <3>5
  <2>4. QED
    BY <2>2, <2>3
<1>5. QED
  BY <1>1, <1>2, <1>3, <1>4 DEF LInv

LEMMA StartLists ==
    ASSUME IInv, LInv, NEW c \in Commands, NEW req, NEW l \in {"check", "resolve"},
           Start(c, req, l)
    PROVE  LInv'
<1>1. PICK q : q = [Idle EXCEPT !.pc = l, !.req = req]
  OBVIOUS
<1>2. /\ cmds[c].pc = "off" /\ cmds = [d \in Commands |-> cmds[d]]
      /\ cmds' = [cmds EXCEPT ![c] = q]
      /\ disturbed' = IF Running = {} THEN disturbed ELSE disturbed \cup Running \cup {c}
      /\ UNCHANGED files
  BY <1>1 DEF Start, At, IInv, dir
<1>3. q.pc = l /\ q.plan = <<>>
  BY <1>1 DEF Idle
<1>4. cmds'[c] = q /\ \A d \in Commands : d # c => cmds'[d] = cmds[d]
  BY <1>2
<1>5. Listing(q, ToRename(cmds)) /\ ~Revising(q)
  BY <1>3 DEF Listing, Revising
<1>6. /\ \A d \in Commands : Listing(cmds'[d], ToRename(cmds'))
      /\ files'[Manifest].whole => Lists(files'[Manifest].body, ToRename(cmds'))
  <2>1. ToRename(cmds) \subseteq ToRename(cmds')
    BY <1>2, <1>4, ToRenameGrows
  <2>2. \A d \in Commands : Listing(cmds'[d], ToRename(cmds))
    BY <1>4, <1>5 DEF LInv
  <2>3. QED
    BY <1>2, <2>1, <2>2, QuietLists, MoreRenamed
<1>7. ASSUME NEW d \in Running' \ disturbed' PROVE ~Revising(cmds'[d])
  <2>1. Running' = Running \cup {c}
    BY <1>2, <1>3, <1>4 DEF Running
  <2>2. Running = {}
    BY <1>2, <1>7, <2>1
  <2>3. d = c
    BY <1>7, <2>1, <2>2
  <2>4. QED
    BY <1>4, <1>5, <2>3
<1>8. QED
  BY <1>6, <1>7 DEF LInv

LEMMA StepLInv ==
    ASSUME IInv, LInv, [Next]_vars
    PROVE  LInv'
<1>1. ASSUME NEW c \in Commands, NewStep(c) PROVE LInv'
  <2>1. CASE StartNew(c)
    BY <2>1, StartLists DEF StartNew
  <2>2. CASE ~StartNew(c)
    BY <1>1, <2>2, NewStepLists
  <2>3. QED
    BY <2>1, <2>2
<1>2. ASSUME NEW c \in Commands, WizardStep(c) PROVE LInv'
  <2>1. CASE StartWizard(c)
    BY <2>1, StartLists DEF StartWizard
  <2>2. CASE ~StartWizard(c)
    BY <1>2, <2>2, WizardStepLists
  <2>3. QED
    BY <2>1, <2>2
<1>3. CASE UNCHANGED vars
  <2>1. files' = files /\ cmds' = cmds /\ disturbed' = disturbed
    BY <1>3 DEF vars, dir, hist
  <2>2. Running' = Running
    BY <2>1 DEF Running
  <2>3. QED
    BY <2>1, <2>2 DEF LInv
<1>4. QED
  BY <1>1, <1>2, <1>3, KillLists, EditLists DEF Next

LEMMA InitLInv ==
    ASSUME Init
    PROVE  LInv
<1>1. PICK d \in InitialDirs : files = d.files
  BY DEF Init
<1>2. \A c \in Commands : cmds[c] = Idle
  BY DEF Init
<1>3. \A c \in Commands : Listing(cmds[c], ToRename(cmds)) /\ cmds[c].pc = "off"
  BY <1>2 DEF Idle, Listing
<1>4. Running = {}
  BY <1>3 DEF Running
<1>5. files[Manifest].whole => Lists(files[Manifest].body, ToRename(cmds))
  <2>1. CASE d.files \in {NoFiles, Foreign}
    <3>1. files[Manifest] = Absent
      BY <1>1, <2>1, PathsApart DEF NoFiles, Foreign
    <3>2. QED
      BY <3>1 DEF Absent
  <2>2. CASE \E layout : d.files = Project(layout)
    <3>1. PICK ops, m : ops = <<"handle">> \o ReservedOps /\ m = ManifestJson(ops, "handle", {})
      OBVIOUS
    <3>2. files[Manifest].body = m
      BY <1>1, <2>2, <3>1, PathsApart DEF Project, File
    <3>3. m.ops = ops /\ m.default = "handle"
      BY <3>1 DEF ManifestJson
    <3>4. <<"handle">> \in Seq({"handle"}) /\ "handle" \in Members(<<"handle">>)
      BY DEF Members
    <3>5. Members(ops) = Members(<<"handle">>) \cup Reserved
      BY <3>1, <3>4, MembersOfBoth
    <3>6. ops \in Seq(Members(ops))
      <4>1. PICK T : T = Members(ops)
        OBVIOUS
      <4>2. <<"handle">> \in Seq(T)
        BY <3>4, <3>5, <4>1
      <4>3. ReservedOps \in Seq(T)
        BY <3>5, <4>1 DEF ReservedOps, Reserved
      <4>4. QED
        BY <3>1, <4>1, <4>2, <4>3, ConcatProperties
    <3>7. QED
      BY <3>2, <3>3, <3>4, <3>5, <3>6 DEF Lists
  <2>3. QED
    BY <2>1, <2>2 DEF InitialDirs
<1>6. QED
  BY <1>3, <1>4, <1>5 DEF LInv

(* Every manifest that is read, planned or in place lists its default and   *)
(* the reserved operations that no command was told to rename, and what an  *)
(* undisturbed run that revises has still to write follows the manifest.    *)
THEOREM ManifestsList == Spec => []LInv
<1>1. Init => LInv
  BY InitLInv
<1>2. IInv /\ LInv /\ [Next]_vars => LInv'
  BY StepLInv
<1>3. QED
  BY Invariance, <1>1, <1>2, PTL DEF Spec

LEMMA LibBody ==
    ASSUME NEW req
    PROVE  ScriptBody(req, Lib).ops = Members(UserOperations(req))
  BY DEF ScriptBody, RenderedBody, LibRs, Lib, Manifest

LEMMA MadeAligned ==
    ASSUME IInv, NEW c \in Commands, Ends(c), Finishes(c), c \notin disturbed',
           IsNew(c) \/ Creates(c)
    PROVE  Aligned(files', ToRename(cmds))
<1> DEFINE req == cmds[c].req
           ops == Members(UserOperations(req))
           m == ScriptBody(req, Manifest)
<1>1. /\ req \in Requests /\ cmds[c].plan = <<>> /\ Makes(req)
      /\ OnCourse(c, cmds[c], files, temps, git) /\ UNCHANGED dir
      /\ cmds[c].pc \in {"compile", "step"}
  BY DeliveryHolds
<1>2. files' = files /\ Underway(c, cmds[c], files) /\ (req.kind = "new" => BuildRequest(req))
  BY <1>1 DEF dir, OnCourse
<1>3. \A p \in Generated : files[p].whole /\ files[p].body = ScriptBody(req, p)
  <2>1. \A p \in Generated :
          /\ files[p].by = c /\ files[p].whole /\ files[p].body = ScriptBody(req, p)
          /\ Executable(p) => files[p].x
    BY ONLY <1>1, <1>2, ScriptDelivered
  <2>2. QED
    BY <2>1
<1>4. files'[Manifest].whole /\ files'[Manifest].body = m /\ files'[Lib].body.ops = ops
  BY <1>2, <1>3, LibBody DEF Generated
<1>5. PICK both, default :
        /\ both = UserOperations(req) \o ReservedOps
        /\ default = IF req.kind = "new" THEN DefaultOperation(req) ELSE CreateDefault(req)
  OBVIOUS
<1>6. m = ManifestJson(both, default, ManifestCapabilities(req.caps))
  BY <1>5, ManifestBody
<1>7. Members(both) = ops \cup Reserved /\ default \in ops
  BY <1>1, <1>2, <1>5, OperationsNamed, MembersOfBoth, DefaultIsMade
<1> HIDE DEF ops, m
<1>8. m.ops = both /\ m.default = default
  BY <1>6 DEF ManifestJson
<1>9. QED
  BY <1>4, <1>7, <1>8 DEF Aligned

LEMMA RevisedAligned ==
    ASSUME IInv, LInv, NEW c \in Commands, Finishes(c), c \notin disturbed', Revises(c)
    PROVE  Aligned(files', ToRename(cmds))
<1>1. /\ cmds[c].req.kind # "new" /\ ~Dry(cmds[c].req)
      /\ Mode(cmds[c].req) \in {"add_operation", "update_operation"}
  BY DEF Revises, Executes, IsNew
<1>2. ~Compile(c)
  BY <1>1, NewCommand DEF Compile, At, NewPlaces
<1>3. cmds[c].pc = "step" /\ cmds[c].plan = <<>> /\ files' = files /\ c \notin disturbed
  BY <1>1, <1>2 DEF Finishes, Executed, At, dir, hist
<1>4. c \in Running /\ cmds[c].req.kind = "wizard"
  BY <1>3, WizardCommand DEF WizardPlaces
<1>5. Revising(cmds[c])
  BY <1>1, <1>3, <1>4 DEF Revising
<1>6. Follows(c, cmds[c], files)
  BY <1>3, <1>4, <1>5 DEF LInv
<1>7. /\ files[Manifest].whole
      /\ files[Lib].body.ops = CollectUserOperations(files[Manifest].body)
  BY <1>3, <1>6 DEF Follows, OperationPlan
<1>8. Lists(files[Manifest].body, ToRename(cmds))
  BY <1>7 DEF LInv
<1>9. QED
  BY <1>3, <1>7, <1>8 DEF Aligned, Lists, CollectUserOperations

(* When a command that made or changed the operations of a project ends     *)
(* well, and neither another command nor an edit came in its way, src/lib.rs*)
(* lists the user operations of the manifest, and the manifest its default  *)
(* and every reserved operation that no command was told to rename, also    *)
(* after killed and failed commands and edits.                              *)
THEOREM LibFollowsManifest == Spec => AlignedWhenDone
<1> DEFINE Ended(c) ==
      (Ends(c) /\ c \notin disturbed' /\ (FromBuiltIn(c) \/ Creates(c) \/ Revises(c)))
        => Aligned(files', ToRename(cmds))
<1>1. ASSUME IInv, LInv, [Next]_vars, NEW c \in Commands PROVE Ended(c)
  <2> SUFFICES ASSUME Ends(c), c \notin disturbed', FromBuiltIn(c) \/ Creates(c) \/ Revises(c)
               PROVE  Aligned(files', ToRename(cmds))
    OBVIOUS
  <2>1. Finishes(c)
    BY <1>1, LastStep
  <2>2. QED
    BY <1>1, <2>1, MadeAligned, RevisedAligned DEF FromBuiltIn
<1>2. IInv /\ LInv /\ [Next]_vars => [\A c \in Commands : Ended(c)]_vars
  BY <1>1
<1>3. QED
  BY Invariance, ManifestsList, <1>2, PTL DEF Spec, AlignedWhenDone
=============================================================================
