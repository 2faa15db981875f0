----------------------------- MODULE TestCommand -----------------------------
(***************************************************************************)
(* `greentic-component test` (cmd/test.rs): from the manifest and the      *)
(* arguments it derives what the harness may allow, invokes the given      *)
(* operations on one harness until one fails, and then writes the output   *)
(* file and the trace.  The watchdogs and the guest of Harness run beside  *)
(* it.  Any file may turn out to be unreadable, malformed or unwritable.   *)
(***************************************************************************)
EXTENDS Harness, Sequences

CONSTANTS
    Operations,
    Invocations,   \* what the command is started with: manifests and arguments
    NoGrant        \* before there is a harness

Manifest == [state : SUBSET {"read", "write", "delete"}, secrets : BOOLEAN,
             declared : SUBSET SecretKeys, fs : {"none", "ro", "rw"},
             operations : SUBSET Operations]
Args == [world : BOOLEAN, ops : Seq(Operations), inputs : Nat, marks : Nat,
         seeds : SUBSET Keys, given : SUBSET SecretKeys,
         dryRun : BOOLEAN, allowHttp : BOOLEAN, allowFsWrite : BOOLEAN,
         output : BOOLEAN, trace : BOOLEAN]

ASSUME TestAssumption ==
    /\ Invocations \subseteq [manifest : Manifest, args : Args]
    /\ \A i \in Invocations : Len(i.args.ops) <= Cardinality(Steps)

VARIABLES
    manifest, args,
    pc,            \* where run_inner is
    outputFile, traceFile,
    hinted,        \* whether #TRY_SAVE_TRACE was printed
    exit

commandVars == <<manifest, args, pc, outputFile, traceFile, hinted, exit>>
vars == <<harnessVars, commandVars>>

TypeOK ==
    /\ HarnessTypes
    /\ grant \in Grant \cup {NoGrant}
    /\ [manifest |-> manifest, args |-> args] \in Invocations
    /\ pc \in {"start", "prepare", "steps", "output", "trace", "failing", "end"}
    /\ outputFile \in {"none", "torn", "written"}
    /\ traceFile \in {"none", "torn", "ok", "error"}
    /\ hinted \in BOOLEAN
    /\ exit \in {"none", "ok", "failed"}

Init ==
    /\ HarnessInit
    /\ grant = NoGrant
    /\ \E i \in Invocations : manifest = i.manifest /\ args = i.args
    /\ pc = "start"
    /\ outputFile = "none"
    /\ traceFile = "none"
    /\ hinted = FALSE
    /\ exit = "none"

Goto(place) ==
    pc' = place /\ UNCHANGED <<manifest, args, outputFile, traceFile, hinted, exit>>

Exit(status) == pc' = "end" /\ exit' = status

-----------------------------------------------------------------------------
(* collect_steps: as many inputs as operations, and --step between them.   *)
StepsValid(a) ==
    /\ Len(a.ops) > 0
    /\ a.inputs = Len(a.ops)
    /\ Len(a.ops) > 1 => a.marks = Len(a.ops) - 1

(* Mutant: dry-run is only looked at for HTTP.                             *)
PermissionsFsLoose(m, a) ==
    [write |-> m.state \cap {"write", "delete"} # {},
     delete |-> "delete" \in m.state,
     secrets |-> m.secrets,
     declared |-> IF m.secrets THEN m.declared ELSE {},
     given |-> a.given,
     http |-> a.allowHttp /\ ~a.dryRun,
     mount |-> IF m.fs = "rw" /\ a.allowFsWrite THEN "rw"
               ELSE IF m.fs = "none" THEN "none" ELSE "ro"]

(* state_permissions (the right to delete brings the right to write),      *)
(* secret_permissions, resolve_wasi_preopens.                              *)
Permissions(m, a) ==
    [write |-> m.state \cap {"write", "delete"} # {},
     delete |-> "delete" \in m.state,
     secrets |-> m.secrets,
     declared |-> IF m.secrets THEN m.declared ELSE {},
     given |-> a.given,
     http |-> a.allowHttp /\ ~a.dryRun,
     mount |-> IF m.fs = "rw" /\ a.allowFsWrite /\ ~a.dryRun THEN "rw"
               ELSE IF m.fs = "none" THEN "none" ELSE "ro"]

(* World, manifest and steps are read before there is a trace.             *)
Start ==
    /\ pc = "start"
    /\ \/ args.world /\ StepsValid(args) /\ Goto("prepare")
       \/ Exit("failed") /\ UNCHANGED <<manifest, args, outputFile, traceFile, hinted>>
    /\ UNCHANGED harnessVars

(* Mutant: seeds are loaded without asking for the right to write.         *)
PrepareSeedsUnchecked ==
    /\ pc = "prepare"
    /\ \A i \in 1..Len(args.ops) : args.ops[i] \in manifest.operations
    /\ args.given # {} => manifest.secrets
    /\ Len(args.ops) > 1 => ~args.output
    /\ grant' = Permissions(manifest, args)
    /\ store' = {"base"} \X args.seeds
    /\ Goto("steps")
    /\ UNCHANGED <<engine, running, waiting, step, hit, code, cause, late, exceeded, effects>>

(* The checks, and TestHarness::new, which loads the seeds.                *)
Prepare ==
    /\ pc = "prepare"
    /\ \A i \in 1..Len(args.ops) : args.ops[i] \in manifest.operations
    /\ args.seeds # {} => Permissions(manifest, args).write
    /\ args.given # {} => manifest.secrets
    /\ Len(args.ops) > 1 => ~args.output
    /\ grant' = Permissions(manifest, args)
    /\ store' = {"base"} \X args.seeds
    /\ Goto("steps")
    /\ UNCHANGED <<engine, running, waiting, step, hit, code, cause, late, exceeded, effects>>

(* One of the checks fails, or a file cannot be read or parsed.            *)
PrepareFails ==
    /\ pc = "prepare"
    /\ Goto("failing")
    /\ UNCHANGED harnessVars

-----------------------------------------------------------------------------
Between == pc = "steps" /\ ~running
StepOk == step > 0 /\ code[step] = "ok"

(* Mutant: an error the component itself returns does not stop the run.    *)
NextStepLenient ==
    /\ Between
    /\ step < Len(args.ops)
    /\ step > 0 => code[step] \in {"ok", "component"}
    /\ Invoke(step + 1) \/ InvokeFails(step + 1)
    /\ UNCHANGED commandVars

NextStep ==
    /\ Between
    /\ step < Len(args.ops)
    /\ step > 0 => StepOk
    /\ Invoke(step + 1) \/ InvokeFails(step + 1)
    /\ UNCHANGED commandVars

StepFailed ==
    /\ Between
    /\ step > 0 /\ ~StepOk
    /\ Goto("failing")
    /\ UNCHANGED harnessVars

(* The output is longer than MAX_OUTPUT_BYTES.                             *)
OutputTooLong ==
    /\ Between
    /\ StepOk
    /\ code' = [code EXCEPT ![step] = "test.output.limit"]
    /\ Goto("failing")
    /\ UNCHANGED <<grant, store, engine, running, waiting, step, hit, cause, late, exceeded,
                   effects>>

AllStepsDone ==
    /\ Between
    /\ step = Len(args.ops) /\ StepOk
    /\ Goto("output")
    /\ UNCHANGED harnessVars

-----------------------------------------------------------------------------
(* Mutant: the trace is saved first.                                       *)
WriteOutputAfterTrace ==
    /\ pc = "output"
    /\ traceFile' = IF args.trace THEN "ok" ELSE traceFile
    /\ \/ /\ pc' = "trace"
          /\ outputFile' = IF args.output THEN "written" ELSE outputFile
          /\ UNCHANGED exit
       \/ /\ args.output
          /\ outputFile' \in {"none", "torn"}
          /\ Exit("failed")
    /\ UNCHANGED <<harnessVars, manifest, args, hinted>>

(* A failure to write the output ends the command at once.                 *)
WriteOutput ==
    /\ pc = "output"
    /\ \/ /\ pc' = "trace"
          /\ outputFile' = IF args.output THEN "written" ELSE outputFile
          /\ UNCHANGED exit
       \/ /\ args.output
          /\ outputFile' \in {"none", "torn"}
          /\ Exit("failed")
    /\ UNCHANGED <<harnessVars, manifest, args, traceFile, hinted>>

WriteTrace ==
    /\ pc = "trace"
    /\ \/ Exit("ok") /\ traceFile' = IF args.trace THEN "ok" ELSE traceFile
       \/ args.trace /\ Exit("failed") /\ traceFile' \in {"none", "torn"}
    /\ UNCHANGED <<harnessVars, manifest, args, outputFile, hinted>>

(* A failure to write the trace of a failure is only reported.             *)
WriteFailureTrace ==
    /\ pc = "failing"
    /\ traceFile' \in IF args.trace THEN {"error", "none", "torn"} ELSE {traceFile}
    /\ hinted' = args.trace
    /\ Exit("failed")
    /\ UNCHANGED <<harnessVars, manifest, args, outputFile>>

Command ==
    \/ Start \/ Prepare \/ PrepareFails
    \/ NextStep \/ StepFailed \/ OutputTooLong \/ AllStepsDone
    \/ WriteOutput \/ WriteTrace \/ WriteFailureTrace

Next ==
    \/ Command
    \/ (Watchdogs \/ Guest) /\ pc # "end" /\ UNCHANGED commandVars

Spec == Init /\ [][Next]_vars /\ HarnessFairness /\ WF_vars(Command)

-----------------------------------------------------------------------------
(* The trace tells how the command ended, also when a later write failed:  *)
(* one without an error stands for a run that succeeded in every respect,  *)
(* one with an error for a run that failed.                                *)
TraceMatchesExit ==
    pc = "end" =>
        /\ traceFile = "ok" => exit = "ok"
        /\ traceFile = "error" => exit = "failed"
        /\ exit = "ok" /\ args.trace => traceFile = "ok"

(* What counts as success, an output file or a trace without an error,     *)
(* exists only when every operation asked for was run and succeeded: a     *)
(* later step never covers up for an earlier one.                          *)
SuccessNeedsAllSteps ==
    outputFile # "none" \/ traceFile = "ok" =>
        \A s \in 1..Len(args.ops) : code[s] = "ok"

(* The invariant of the command: types, of the harness too, and success.    *)
TestCommandInv == TypeOK /\ SuccessNeedsAllSteps

(* "dry-run mode (disables HTTP and filesystem writes)" (cmd/test.rs:66),  *)
(* over all steps and whatever the other flags and the manifest allow.     *)
DryRunSealed == args.dryRun => effects \cap {"http", "file"} = {}

(* "State/secrets calls are denied when capabilities are not declared"     *)
(* (docs/cli.md): without the right to write or delete the store stays     *)
(* empty from the seeds to the last step, and a secret reaches the guest   *)
(* only if the manifest names it.                                          *)
CapabilitiesEnforced ==
    /\ manifest.state \cap {"write", "delete"} = {} => store = {}
    /\ effects \cap SecretKeys \subseteq (IF manifest.secrets THEN manifest.declared ELSE {})

-----------------------------------------------------------------------------
(* The inductive invariant.  From the first step on the grant is what      *)
(* manifest and arguments permit; a step is begun only when those before   *)
(* it succeeded; files are written and the command ends only afterwards.   *)
Granted ==
    /\ pc = "steps" => grant = Permissions(manifest, args)
    /\ running => pc = "steps"
    /\ pc \in {"start", "prepare"} => step = 0
Progress ==
    /\ step <= Len(args.ops)
    /\ \A s \in 1..step : s < step => code[s] = "ok"
    /\ pc \in {"output", "trace"} => step = Len(args.ops) /\ (step > 0 => code[step] = "ok")
    /\ pc \notin {"output", "trace", "end"} => outputFile = "none"
    /\ pc # "end" => traceFile = "none" /\ exit = "none"
IInv ==
    /\ TypeOK /\ EpochCounts /\ OutcomesOpen
    /\ InterruptNeedsLateStep /\ MemoryBlameIsOwn
    /\ Granted /\ Progress
    /\ SuccessNeedsAllSteps /\ TraceMatchesExit
    /\ DryRunSealed /\ CapabilitiesEnforced

(* "On failure the CLI prints a replay hint" (docs/component-testing.md).  *)
FailureHinted == exit = "failed" /\ args.trace => hinted

(* Whatever the component computes, and whatever host calls come between,  *)
(* the command comes to an end, unless the guest waits for ever in one     *)
(* host call: the timeout does not reach it there.                         *)
CommandEnds == []<>~waiting => <>(pc = "end")
=============================================================================
