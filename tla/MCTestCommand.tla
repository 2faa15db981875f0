---------------------------- MODULE MCTestCommand ----------------------------
(* Instances of TestCommand for TLC. *)
EXTENDS TestCommand

Full == [state |-> {"read", "write", "delete"}, secrets |-> TRUE, declared |-> {"declared"},
         fs |-> "rw", operations |-> Operations]
Bare == [state |-> {"read"}, secrets |-> FALSE, declared |-> {}, fs |-> "none",
         operations |-> Operations]
Deleting == [Full EXCEPT !.state = {"delete"}]

One == [world |-> TRUE, ops |-> <<"render">>, inputs |-> 1, marks |-> 0, seeds |-> {},
        given |-> {}, dryRun |-> TRUE, allowHttp |-> TRUE, allowFsWrite |-> TRUE,
        output |-> TRUE, trace |-> TRUE]
Two == [One EXCEPT !.ops = <<"render", "submit">>, !.inputs = 2, !.marks = 1,
                   !.output = FALSE]

MCInvocations ==
    [manifest : {Full, Bare, Deleting},
     args : {One, Two,
             [Two EXCEPT !.marks = 0],
             [One EXCEPT !.dryRun = FALSE, !.seeds = Keys, !.given = SecretKeys],
             [Two EXCEPT !.given = SecretKeys, !.trace = FALSE],
             [One EXCEPT !.seeds = Keys, !.output = FALSE]}]
=============================================================================
