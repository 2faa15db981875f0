---------------------------- MODULE MCProject ----------------------------
(* Two commands out of a set of typical ones on one project directory, one *)
(* kill and one edit, from each kind of directory.                         *)
EXTENDS Wizard

NewReq(ops, default, caps, template, deps, skipGit, flaw) ==
  [kind |-> "new", ops |-> ops, default |-> default, caps |-> caps, template |-> template,
   deps |-> deps, skipGit |-> skipGit, noCheck |-> skipGit, flaw |-> flaw]

WizReq(mode) ==
  [kind |-> "wizard", mode |-> mode, doc |-> "none", sub |-> "run", flag |-> "none", ops |-> <<>>,
   default |-> "", caps |-> {}, deps |-> "crates-io", overwrite |-> FALSE, emit |-> FALSE,
   planOut |-> FALSE, version |-> "current", migrate |-> FALSE, flaw |-> "none", op |-> "", newOp |-> "", setDefault |-> FALSE,
   fullTests |-> FALSE]

New(template, caps) == NewReq(<<"a", "b">>, "b", caps, template, "crates-io", FALSE, "none")
Bare == NewReq(<<>>, "", {}, "rust-wasi-p2-min", "local", TRUE, "none")

MCNewRequests ==
  {New("rust-wasi-p2-min", {"mounts", "state.delete", "attributes"}), New("linked", {}), Bare,
   NewReq(<<"a", "a">>, "a", {}, "rust-wasi-p2-min", "crates-io", TRUE, "none"),
   NewReq(<<>>, "", {}, "broken", "crates-io", TRUE, "none"),
   NewReq(<<>>, "", {}, "absent", "crates-io", TRUE, "none")}

CreateReq == [WizReq("create") EXCEPT !.ops = <<"a">>, !.default = "z",
                                      !.caps = {"filesystem", "mounts", "state.read"}]
AddReq == [WizReq("add_operation") EXCEPT !.op = "b"]
UpdateReq == [WizReq("update_operation") EXCEPT !.op = "handle", !.newOp = "b"]

MCWizardRequests ==
  {[CreateReq EXCEPT !.sub = "new", !.doc = "doctor"], [CreateReq EXCEPT !.overwrite = TRUE],
   [CreateReq EXCEPT !.overwrite = TRUE, !.flaw = "operations"],
   [CreateReq EXCEPT !.overwrite = TRUE, !.flaw = "name"],
   [CreateReq EXCEPT !.overwrite = TRUE, !.sub = "validate", !.planOut = TRUE],
   [WizReq("create") EXCEPT !.doc = "add_operation", !.op = "c", !.setDefault = TRUE, !.emit = TRUE],
   AddReq, [AddReq EXCEPT !.doc = "create"], [AddReq EXCEPT !.flag = "dry-run"],
   UpdateReq, [UpdateReq EXCEPT !.op = "qa-spec", !.setDefault = TRUE],
   [UpdateReq EXCEPT !.newOp = "", !.sub = "apply", !.flag = "dry-run"],
   [WizReq("build_test") EXCEPT !.fullTests = TRUE],
   [WizReq("doctor") EXCEPT !.version = "older", !.migrate = TRUE],
   [WizReq("doctor") EXCEPT !.version = "older"]}

MCRequests == MCNewRequests \cup MCWizardRequests

(* A user template with a path dependency, one whose metadata cannot be    *)
(* read, and one that has the identity of the built-in one.                *)
Template(id, dirName, path) ==
  [id |-> id, dirName |-> dirName, user |-> TRUE, path |-> path, readable |-> TRUE,
   loads |-> TRUE, renders |-> TRUE, pathDep |-> FALSE, layout |-> "other"]
MCTemplates ==
  {[Template("linked", "linked", 1) EXCEPT !.pathDep = TRUE],
   [Template("x", "broken", 2) EXCEPT !.readable = FALSE],
   Template("rust-wasi-p2-min", "mine", 3)}
===========================================================================
