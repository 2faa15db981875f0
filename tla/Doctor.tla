------------------------------- MODULE Doctor -------------------------------
(***************************************************************************)
(* `greentic-component doctor` and `inspect` (cmd/doctor.rs,               *)
(* cmd/inspect.rs) on one component: which file they take for its          *)
(* artifact, what they read in it, the calls doctor makes into it, and the *)
(* verdict.                                                                *)
(*                                                                         *)
(* A component with the descriptor interface is called in one store of     *)
(* doctor's own, without a deadline, where nothing works after a trap; one *)
(* that has only the node interface is invoked through a test harness, the *)
(* watchdogs and the guest of Harness, operation by operation, whatever    *)
(* came of the one before.  inspect follows, on the same files.            *)
(*                                                                         *)
(* A subject is what the files are like; calls and answers are what the    *)
(* checks tell apart.                                                      *)
(***************************************************************************)
EXTENDS Harness, Sequences

CONSTANTS
    Modes,        \* qa_modes, in order
    Subjects,     \* what the files may be like
    Schemas,      \* of a component's configuration
    ConfigValues  \* what apply-answers may return for a configuration

Schema == INSTANCE SchemaIr WITH Values <- ConfigValues

NoValue == [kind |-> "none"]

ASSUME ConfigAssumption == NoValue \notin ConfigValues

VARIABLES
    subject,
    phase,
    calls,      \* calls still to make
    answers,    \* answers[c]: what came of call c
    poisoned,   \* a call into doctor's own store trapped
    verdict,    \* of doctor
    seen        \* what inspect reports

doctorVars == <<subject, phase, calls, answers, poisoned, verdict, seen>>
checkVars == <<harnessVars, doctorVars>>

-----------------------------------------------------------------------------
(* What can be wrong with the result of describe(), besides its schemas.   *)
Defects == {"traps", "undecodable", "blank", "noncanonical", "no_operations", "hash",
            "differs"}

Artifact == [world : {"component", "fallback", "other"},
             embedded : {"missing", "damaged", "intact"},
             loads : BOOLEAN,      \* with nothing but WASI to import
             interfaces : SUBSET {"component-descriptor", "component-i18n", "component-qa",
                                  "component-runtime", "node"},
             describe : SUBSET Defects,
             config : Schemas]

(* A target may be a wasm file, a manifest or a directory, in which found  *)
(* files may be the artifact; scheme is whether it was written as a        *)
(* file:// URL.  given is the manifest that is the target or the argument  *)
(* of --manifest (override), hashed whether its hash is that of the        *)
(* artifact it names.  A manifest may lie in the directory that is the     *)
(* target (inside) and in the artifact's own or the one above (beside).    *)
(* One that is "stale" says other than what the artifact has embedded.     *)
Manifests == {"none", "broken", "stale", "ok"}
Subject == [target : {"wasm", "json", "dir"}, scheme : BOOLEAN, found : 0..2,
            override : BOOLEAN, given : Manifests, hashed : BOOLEAN,
            inside : Manifests, beside : Manifests,
            operation : BOOLEAN, own : Artifact, named : Artifact]

(* The steps of the harness suffice for the calls into a node component.   *)
ASSUME DoctorAssumption ==
    /\ Modes \in Seq(STRING)
    /\ Subjects \subseteq Subject
    /\ \A s \in Subjects :
         1 + 2 * Len(Modes) + (IF s.operation THEN 1 ELSE 0) <= Cardinality(Steps)

Overridden == subject.override
Given == Overridden \/ subject.target = "json"
Loadable == subject.given \in {"stale", "ok"} /\ subject.hashed

(* resolve_wasm_path, find_wasm_in_dir: a given manifest decides.          *)
Resolvable == IF Given THEN Loadable ELSE subject.target = "dir" => subject.found = 1
Examined == IF Given THEN subject.named ELSE subject.own

(* discover_manifest_path, the first found: the target's directory, without *)
(* its scheme, and then the artifact's.                                    *)
ManifestRead ==
    IF Overridden THEN subject.given
    ELSE IF subject.target = "dir" /\ subject.inside # "none" THEN subject.inside
    ELSE subject.beside

-----------------------------------------------------------------------------
(* The calls of either path, in order.                                     *)
Once(name) == <<name, "">>
Each(name) == [i \in DOMAIN Modes |-> <<name, Modes[i]>>]

DescriptorCalls ==
    <<Once("get-component-info"), Once("describe"), Once("i18n-keys"), Once("run")>>
      \o Each("qa-spec")
NodeCalls ==
    <<Once("i18n-keys")>> \o Each("qa-spec") \o Each("apply-answers")
      \o (IF subject.operation THEN <<Once("operation")>> ELSE <<>>)
RangeOf(s) == {s[i] : i \in DOMAIN s}
Calls == RangeOf(DescriptorCalls) \cup RangeOf(Each("apply-answers")) \cup {Once("operation")}

InterfaceOf(c) ==
    CASE c[1] \in {"get-component-info", "describe"} -> "component-descriptor"
      [] c[1] = "i18n-keys" -> "component-i18n"
      [] c[1] = "run" -> "component-runtime"
      [] OTHER -> "component-qa"

Answer(is) == [is |-> is, value |-> NoValue]
Answers == [is : {"none", "failed", "good", "invalid", "undecodable", "noncanonical", "setup",
                  "remove", "unknown_key"},
            value : ConfigValues \cup {NoValue}]

(* What a guest may return.  A qa-spec may be one for another mode, or     *)
(* name a key that i18n-keys lacks.                                        *)
Returned(c) ==
    CASE c[1] = "qa-spec" ->
           {Answer(is) : is \in {"good", "undecodable", "setup", "remove", "unknown_key"}}
      [] c[1] = "run" -> {Answer("good")}
      [] OTHER -> {Answer("good"), Answer("invalid")}

(* apply-answers of a descriptor component returns a configuration.        *)
Configuration ==
    {Answer("undecodable")}
      \cup [is : {"good", "noncanonical"}, value : ConfigValues]

(* describe() is a matter of the artifact.                                 *)
Described ==
    Answer(IF "traps" \in Examined.describe THEN "failed"
           ELSE IF "undecodable" \in Examined.describe THEN "undecodable" ELSE "good")

-----------------------------------------------------------------------------
(* The diagnostics of severity error, as a function of what was read and   *)
(* answered.                                                               *)
World == IF Examined.world = "other" THEN {"world.mismatch"} ELSE {}

Embedded ==
    IF Examined.embedded = "missing" THEN {"embedded.missing"}
    ELSE IF ManifestRead = "stale" THEN {"embedded.manifest_mismatch"}
    ELSE {}

Failures == {"export.call_failed" : c \in {d \in Calls : answers[d].is = "failed"}}

(* qa-spec: the specification for setup does for default.                  *)
QaSpec(c) ==
    CASE answers[c].is = "undecodable" -> {"qa.decode_failed"}
      [] answers[c].is \in {"setup", "remove"} /\ answers[c].is # c[2]
           /\ ~(answers[c].is = "setup" /\ c[2] = "default") -> {"qa.mode_mismatch"}
      [] OTHER -> {}

(* validate_i18n                                                           *)
I18n ==
    IF answers[Once("i18n-keys")].is # "good" THEN {"i18n.missing_keys"}
    ELSE IF \E c \in Calls : answers[c].is = "unknown_key" THEN {"i18n.key_missing"}
    ELSE {}

(* validate_info and validate_describe, and the comparison with what is    *)
(* embedded.                                                               *)
Describe ==
    LET wrong == Examined.describe \ {"differs"}
    IN  wrong \cup (IF Schema!Issues[Examined.config] = {} THEN {} ELSE {"schema"})
          \cup (IF Examined.embedded = "intact" THEN Examined.describe \cap {"differs"}
                ELSE {})

(* validate_apply_answers                                                  *)
Applied(c) ==
    (IF answers[c].is \in {"undecodable", "noncanonical"} THEN {answers[c].is} ELSE {})
      \cup (IF answers[c].value # NoValue /\ ~Schema!Fits[Examined.config, answers[c].value]
            THEN {"schema_invalid"} ELSE {})

Invalid == {"export.invalid" : c \in {d \in Calls : answers[d].is = "invalid"}}

Common == World \cup Embedded \cup Failures \cup Invalid
            \cup UNION {QaSpec(c) : c \in RangeOf(Each("qa-spec"))}
(* Mutant: a description that cannot be decoded is passed over.            *)
DescriptorErrorsSilent ==
    Common \cup (IF answers[Once("describe")].is = "good"
                 THEN Describe \cup I18n
                        \cup UNION {Applied(c) : c \in RangeOf(Each("apply-answers"))}
                 ELSE {})
DescriptorErrors ==
    Common \cup (IF answers[Once("describe")].is = "good"
                 THEN Describe \cup I18n
                        \cup UNION {Applied(c) : c \in RangeOf(Each("apply-answers"))}
                 ELSE {"describe"})
NodeErrors == Common \cup I18n

-----------------------------------------------------------------------------
NoReport == [exit |-> "none", by |-> "none", warned |-> FALSE, manifest |-> "none",
             describe |-> "none"]

DoctorTypeOK ==
    /\ HarnessTypeOK
    /\ subject \in Subjects
    /\ phase \in {"start", "load", "exports", "apply", "node", "done", "end"}
    /\ calls \in Seq(Calls)
    /\ answers \in [Calls -> Answers]
    /\ poisoned \in BOOLEAN
    /\ verdict \in {"none", "ok", "failed"}
    /\ seen.exit \in {"none", "ok", "failed"} /\ seen.warned \in BOOLEAN
    /\ seen.by \in {"none", "artifact", "describe"}

(* new_doctor_harness allows everything but files.                         *)
DoctorGrant == [write |-> TRUE, delete |-> TRUE, secrets |-> TRUE, declared |-> SecretKeys,
                http |-> TRUE, mount |-> "none", given |-> {}]

DoctorInit ==
    /\ HarnessInit
    /\ grant = DoctorGrant
    /\ subject \in Subjects
    /\ phase = "start"
    /\ calls = <<>>
    /\ answers = [c \in Calls |-> Answer("none")]
    /\ poisoned = FALSE
    /\ verdict = "none"
    /\ seen = NoReport

Report(status) == phase' = "done" /\ verdict' = status
Judge(errors) == Report(IF errors = {} THEN "ok" ELSE "failed")
Proceed(place, plan) == phase' = place /\ calls' = plan /\ UNCHANGED verdict

Resolve ==
    /\ phase = "start"
    /\ IF Resolvable THEN phase' = "load" /\ UNCHANGED verdict ELSE Report("failed")
    /\ UNCHANGED <<harnessVars, subject, calls, answers, poisoned, seen>>

(* from_wasm up to the first call: damaged metadata, a manifest that       *)
(* cannot be read, and an artifact that cannot be instantiated end it.     *)
NodeOnly == /\ "component-descriptor" \notin Examined.interfaces
            /\ "node" \in Examined.interfaces
Readable == /\ Examined.embedded # "damaged"
            /\ ManifestRead = "broken" => Examined.embedded = "missing" /\ ~NodeOnly
            /\ Examined.loads

Load ==
    /\ phase = "load"
    /\ \/ ~Readable /\ Report("failed") /\ UNCHANGED calls
       \/ Readable /\ NodeOnly /\ ManifestRead = "none" /\ Report("failed") /\ UNCHANGED calls
       \/ Readable /\ NodeOnly /\ ManifestRead # "none" /\ Proceed("node", NodeCalls)
       \/ Readable /\ ~NodeOnly /\ Proceed("exports", DescriptorCalls)
    /\ UNCHANGED <<harnessVars, subject, answers, poisoned, seen>>

(* ComponentCaller::call: a missing export fails, and so does every call   *)
(* after one that trapped.                                                 *)
CallExport ==
    /\ phase \in {"exports", "apply"}
    /\ calls # <<>>
    /\ calls' = Tail(calls)
    /\ LET c == Head(calls)
           reached == InterfaceOf(c) \in Examined.interfaces /\ ~poisoned
           replies == IF c = Once("describe") THEN {Described}
                      ELSE {Answer("failed")}
                             \cup (IF phase = "apply" THEN Configuration ELSE Returned(c))
       IN  \E reply \in IF reached THEN replies ELSE {Answer("failed")} :
             /\ answers' = [answers EXCEPT ![c] = reply]
             /\ poisoned' = (poisoned \/ (reached /\ reply.is = "failed"))
    /\ UNCHANGED <<harnessVars, subject, phase, verdict, seen>>

(* Only with a description are there answers to apply.                     *)
ExportsCalled ==
    /\ phase = "exports"
    /\ calls = <<>>
    /\ IF answers[Once("describe")].is = "good"
       THEN Proceed("apply", Each("apply-answers"))
       ELSE Judge(DescriptorErrors) /\ UNCHANGED calls
    /\ UNCHANGED <<harnessVars, subject, answers, poisoned, seen>>

AnswersApplied ==
    /\ phase = "apply"
    /\ calls = <<>>
    /\ Judge(DescriptorErrors)
    /\ UNCHANGED <<harnessVars, subject, calls, answers, poisoned, seen>>

(* validate_node_component: one invocation after the other,                *)
InvokeNode ==
    /\ phase = "node"
    /\ ~running
    /\ step = Len(NodeCalls) - Len(calls)
    /\ calls # <<>>
    /\ Invoke(step + 1)
    /\ UNCHANGED doctorVars

(* each looked at when it has ended, however it ended,                     *)
JudgeNode ==
    /\ phase = "node"
    /\ ~running
    /\ step = Len(NodeCalls) - Len(calls) + 1
    /\ \E reply \in IF code[step] = "ok" THEN Returned(Head(calls)) ELSE {Answer("failed")} :
         answers' = [answers EXCEPT ![Head(calls)] = reply]
    /\ calls' = Tail(calls)
    /\ UNCHANGED <<harnessVars, subject, phase, poisoned, verdict, seen>>

(* and a report of them all.                                               *)
NodeJudged ==
    /\ phase = "node"
    /\ calls = <<>>
    /\ Judge(NodeErrors)
    /\ UNCHANGED <<harnessVars, subject, calls, answers, poisoned, seen>>

-----------------------------------------------------------------------------
(* inspect of a wasm file or a directory; of anything else it is           *)
(* prepare_component, which is Prepare's.  It opens what it is pointed at, *)
(* whatever --manifest names, and asks for a description only where there  *)
(* is an embedded manifest to compare it with.                             *)
InspectResolvable == subject.target = "dir" => subject.found = 1

(* Mutant: only the directories of the artifact are looked at.             *)
InspectBesideArtifact == IF Overridden THEN subject.given ELSE subject.beside

(* Its own discover_manifest_path is handed the target as it was written:  *)
(* a directory with its scheme is not found to be one.                     *)
InspectManifestRead ==
    IF Overridden THEN subject.given
    ELSE IF subject.target = "dir" /\ ~subject.scheme /\ subject.inside # "none"
         THEN subject.inside
    ELSE subject.beside

(* call_describe; without the descriptor interface the world's own WIT     *)
(* will do.                                                                *)
InspectDescribe(a) ==
    IF ~a.loads THEN [warned |-> TRUE, describe |-> "none"]
    ELSE IF "component-descriptor" \notin a.interfaces
         THEN [warned |-> FALSE, describe |-> "none"]
    ELSE IF a.describe \cap {"traps", "undecodable"} # {}
         THEN [warned |-> TRUE, describe |-> "none"]
    ELSE [warned |-> FALSE,
          describe |-> IF "differs" \in a.describe THEN "mismatch" ELSE "match"]

InspectArtifact ==
    /\ phase = "done"
    /\ subject.target # "json"
    /\ phase' = "end"
    /\ LET a == subject.own
           described == IF a.embedded = "intact" THEN InspectDescribe(a)
                        ELSE [warned |-> FALSE, describe |-> "none"]
           beside == InspectManifestRead
       IN  seen' = IF ~InspectResolvable \/ a.embedded = "damaged" \/ beside = "broken"
                   THEN [NoReport EXCEPT !.exit = "failed", !.by = "artifact"]
                   ELSE [exit |-> "ok", by |-> "artifact",
                         warned |-> described.warned,
                         describe |-> described.describe,
                         manifest |-> IF beside = "none" \/ a.embedded = "missing" THEN "none"
                                      ELSE IF beside = "ok" THEN "match" ELSE "mismatch"]
    /\ UNCHANGED <<harnessVars, subject, calls, answers, poisoned, verdict>>

(* inspect --describe file --verify, of what describe() returned.          *)
InspectDescribeFile ==
    /\ phase = "done"
    /\ "component-descriptor" \in Examined.interfaces
    /\ Described.is # "failed"
    /\ phase' = "end"
    /\ seen' = [NoReport EXCEPT !.by = "describe",
                  !.exit = IF {"undecodable", "hash"} \cap Examined.describe # {} THEN "failed"
                           ELSE "ok",
                  !.warned = "noncanonical" \in Examined.describe]
    /\ UNCHANGED <<harnessVars, subject, calls, answers, poisoned, verdict>>

NodeStep == InvokeNode \/ JudgeNode \/ NodeJudged
DoctorNext ==
    \/ Resolve \/ Load
    \/ CallExport \/ ExportsCalled \/ AnswersApplied
    \/ NodeStep
    \/ InspectArtifact \/ InspectDescribeFile
    \/ (Watchdogs \/ Guest) /\ phase = "node" /\ UNCHANGED doctorVars

(* Nothing is assumed of a call into doctor's own store: it has no         *)
(* deadline.                                                               *)
DoctorSpec == DoctorInit /\ [][DoctorNext]_checkVars /\ HarnessFairness /\ WF_checkVars(NodeStep)

-----------------------------------------------------------------------------
(* What the files must be for an "ok".  Only a manifest that is given, as  *)
(* the target or with --manifest, has its hash compared with the artifact: *)
(* of a wasm file or a directory an "ok" says nothing about the hash in    *)
(* the manifest that was found.  And only the one that was found, or named *)
(* by --manifest, is compared with what is embedded: one that is the       *)
(* target is not, unless the search comes back to it.                      *)
SoundFiles ==
    LET a == Examined
    IN  /\ Given => Loadable
        /\ ~Given /\ subject.target = "dir" => subject.found = 1
        /\ a.loads /\ a.embedded = "intact" /\ a.world # "other"
        /\ \/ ManifestRead = "ok"
           \/ ManifestRead = "none" /\ "component-descriptor" \in a.interfaces
        /\ \/ NodeOnly
           \/ a.describe = {} /\ Schema!Issues[a.config] = {}

Good(c) ==
    \/ answers[c].is = "good"
    \/ /\ c[1] = "qa-spec"
       /\ \/ answers[c].is = "setup" /\ c[2] \in {"default", "setup"}
          \/ answers[c].is = "remove" /\ c[2] = "remove"
WellAnswered ==
    IF NodeOnly THEN \A c \in RangeOf(NodeCalls) : Good(c)
    ELSE /\ \A c \in RangeOf(DescriptorCalls) : Good(c)
         /\ \A m \in RangeOf(Modes) :
              LET reply == answers[<<"apply-answers", m>>]
              IN  reply.is = "good" /\ Schema!Fits[Examined.config, reply.value]

(* An "ok" is earned: the files are sound as far as SoundFiles goes, and   *)
(* every call that the component's path has was made and answered well,    *)
(* whichever of them failed before; a trap, an undecodable description or  *)
(* an invocation cut short is never passed over.  And a component of which *)
(* all this holds is not failed.  A call that a watchdog interrupted, be   *)
(* it that of an earlier call, was not answered well.                      *)
VerdictIsEarned == verdict # "none" => (verdict = "ok" <=> SoundFiles /\ WellAnswered)

(* The invariant of doctor: types, of the harness too, and the verdict.     *)
DoctorInv == DoctorTypeOK /\ VerdictIsEarned

(* The two programs have a copy each of the code that finds and reads the  *)
(* artifact and its manifest.  What doctor accepts, inspect --strict never *)
(* warns of, nor does it find the description at odds with what is         *)
(* embedded; and it passes it, with the manifest doctor compared, unless   *)
(* the target is a directory written as a URL: there the search of inspect *)
(* may miss the manifest that doctor read, or fall on another.  With       *)
(* --manifest the two look at different artifacts.                         *)
InspectAgrees ==
    verdict = "ok" /\ seen.exit # "none" /\ ~Overridden =>
        /\ ~seen.warned /\ seen.describe # "mismatch"
        /\ ~(subject.scheme /\ subject.target = "dir") =>
             /\ seen.exit = "ok"
             /\ seen.by = "artifact" =>
                  seen.manifest = IF ManifestRead = "none" THEN "none" ELSE "match"

-----------------------------------------------------------------------------
(* The inductive invariant.  What doctor has found out by the time it is   *)
(* in a phase: without it a call might be made that its path does not have. *)
Course ==
    /\ phase \in {"load", "exports", "apply", "node"} => Resolvable
    /\ phase \in {"exports", "apply"} => Readable /\ ~NodeOnly
    /\ phase = "apply" => answers[Once("describe")].is = "good"
    /\ phase = "node" => Readable /\ NodeOnly /\ ManifestRead # "none"
    /\ (verdict = "none") <=> (phase \notin {"done", "end"})
    /\ phase # "end" => seen = NoReport

(* The calls of a phase, and what may have come of one.                    *)
PlanOf(place) ==
    CASE place = "exports" -> DescriptorCalls
      [] place = "apply" -> Each("apply-answers")
      [] place = "node" -> NodeCalls
      [] OTHER -> <<>>
Planned == RangeOf(PlanOf(phase))
             \cup (IF phase = "apply" THEN RangeOf(DescriptorCalls) ELSE {})
Possible(c) ==
    {Answer("failed")}
      \cup (IF c = Once("describe")
            THEN IF "component-descriptor" \in Examined.interfaces THEN {Described} ELSE {}
            ELSE IF c[1] = "apply-answers" /\ ~NodeOnly THEN Configuration ELSE Returned(c))

(* Each call planned so far was made or still is to be made, and no other  *)
(* was: no check goes without its answer, none sees that of another path.  *)
Dialogue ==
    phase \notin {"done", "end"} =>
        /\ RangeOf(calls) \subseteq RangeOf(PlanOf(phase))
        /\ \A c \in Planned \ RangeOf(calls) : answers[c] \in Possible(c)
        /\ \A c \in Calls \ Planned : answers[c] = Answer("none")

(* The harness keeps step with the calls into a node component.            *)
Pace ==
    /\ phase \in {"start", "load"} => step = 0
    /\ phase = "node" =>
         \/ step + Len(calls) = Len(NodeCalls)
         \/ step + Len(calls) = Len(NodeCalls) + 1 /\ calls # <<>>

DoctorIInv ==
    /\ DoctorTypeOK /\ EpochCounts /\ OutcomesOpen
    /\ InterruptNeedsLateStep /\ MemoryBlameIsOwn
    /\ Course /\ Dialogue /\ Pace
    /\ VerdictIsEarned /\ InspectAgrees

(* A node component that loops for ever does not keep doctor from its      *)
(* report; one that waits for ever in a single host call does.             *)
NodeChecksEnd == []<>~waiting => (phase = "node") ~> (verdict # "none")
=============================================================================
