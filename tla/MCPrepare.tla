------------------------------ MODULE MCPrepare ------------------------------
(* An instance of Prepare for TLC: the first edit of the manifest changes   *)
(* its world alone, the second one its describe_export; the second source   *)
(* revision changes the worlds the artifact is accepted for.                *)
EXTENDS Prepare, TLC

Build == [kind |-> "build", infer |-> FALSE, write |-> TRUE, force |-> FALSE, flow |-> FALSE]
MCOptions == {Build}
MCWorldOf == <<"node", "node@2", "node@2">>
MCExportOf == <<"describe", "describe", "get-schema">>
MCAccepted == {<<1, "node">>} \cup {2, 3} \X {"node", "node@2"}

(* dist/ and the history of settled commands are read by no step and by no  *)
(* property of this run: states that differ in them alone are one state.    *)
WithoutDist == <<edits, compiled, manifest, wasm, wasmTime, job, bounds, caches, prep, prepares>>
(* The edits of source and manifest together.                               *)
TwoEdits == source + draft <= 4
PreparersAlike == Permutations(Preparers)
=============================================================================
