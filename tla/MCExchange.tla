----------------------------- MODULE MCExchange -----------------------------
(* An instance of Exchange for TLC: the command lines that differ.         *)
EXTENDS Exchange, TLC

Plain == [kind |-> "build", infer |-> TRUE, write |-> TRUE, force |-> FALSE, flow |-> TRUE]
NoInfer == [Plain EXCEPT !.infer = FALSE]
NoWrite == [Plain EXCEPT !.write = FALSE, !.flow = FALSE]
Force == [Plain EXCEPT !.force = TRUE]
Flow == [Plain EXCEPT !.kind = "flow"]
FlowNoWrite == [Flow EXCEPT !.write = FALSE]
FlowForceNoWrite == [FlowNoWrite EXCEPT !.force = TRUE]
Hash == [Plain EXCEPT !.kind = "hash"]

MCOptions == {Plain, NoInfer, NoWrite, Force, Flow, FlowNoWrite, FlowForceNoWrite, Hash}
PlainBuild == {Plain}
WorkersAlike == Permutations(Workers)
==============================================================================
