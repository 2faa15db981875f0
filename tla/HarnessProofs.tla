--------------------------- MODULE HarnessProofs ---------------------------
(* Proofs about Harness, and about the two programs that invoke components *)
(* through it: TestCommand and Doctor.  They hold for every number of      *)
(* steps, every set of keys and secrets and every guest; for every         *)
(* manifest and command line of the one; and for every component, every    *)
(* list of modes and all schemas of the other.                             *)
EXTENDS TestCommand, Doctor, FiniteSetTheorems, TLAPS

USE HarnessAssumption

LEMMA StepsAreNumbers ==
    /\ Cardinality(Steps) \in Nat
    /\ \A s \in Steps : s \in Nat /\ s > 0
  BY FS_CardinalityType

LEMMA FiredCounts == IsFiniteSet(Fired) /\ Cardinality(Fired) <= Cardinality(Steps)
  BY FS_Subset DEF Fired

-----------------------------------------------------------------------------
(* What holds of a harness, whoever uses it.                               *)
HarnessSound ==
    /\ HarnessTypes /\ EpochCounts /\ OutcomesOpen
    /\ InterruptNeedsLateStep /\ MemoryBlameIsOwn

LEMMA HarnessBegins == ASSUME HarnessInit PROVE HarnessSound
<1> USE DEF HarnessInit
<1>1. Fired = {}
  BY DEF Fired
<1>2. Cardinality(Fired) = 0
  BY <1>1, FS_EmptySet
<1>3. HarnessTypes
  <2>1. 0 \in 0..Cardinality(Steps) /\ 0 \in 0..Cardinality(Steps) + 1
    BY StepsAreNumbers
  <2>2. QED
    BY <2>1 DEF HarnessTypes, Codes, Causes
<1>4. EpochCounts
  BY <1>2 DEF EpochCounts
<1>5. OutcomesOpen /\ InterruptNeedsLateStep /\ MemoryBlameIsOwn
  BY DEF OutcomesOpen, InterruptNeedsLateStep, MemoryBlameIsOwn
<1>6. QED
  BY <1>3, <1>4, <1>5 DEF HarnessSound

(* A step that leaves the harness alone; its grant does not matter.        *)
LEMMA HarnessAlone ==
    ASSUME HarnessSound,
           UNCHANGED <<store, engine, running, waiting, step, hit, code, cause, late, exceeded, effects>>
    PROVE  HarnessSound'
<1> USE DEF engine
<1>1. Fired' = Fired
  BY DEF Fired
<1>2. HarnessTypes'
  BY DEF HarnessSound, HarnessTypes
<1>3. EpochCounts'
  BY <1>1 DEF HarnessSound, EpochCounts
<1>4. OutcomesOpen' /\ InterruptNeedsLateStep' /\ MemoryBlameIsOwn'
  BY DEF HarnessSound, OutcomesOpen, InterruptNeedsLateStep, MemoryBlameIsOwn
<1>5. QED
  BY <1>2, <1>3, <1>4 DEF HarnessSound

LEMMA HarnessRests == ASSUME HarnessSound, UNCHANGED harnessVars PROVE HarnessSound'
  BY HarnessAlone DEF harnessVars, engine

(* Beginning an invocation.                                                *)
LEMMA InvokeSound ==
    ASSUME HarnessSound, step + 1 \in Steps, Invoke(step + 1)
    PROVE  HarnessSound'
<1> DEFINE s == step + 1
<1>1. s \in Steps /\ s \in Nat /\ s > 0 /\ step \in Nat
  BY StepsAreNumbers DEF HarnessSound, HarnessTypes
<1>2. /\ ~running /\ step' = s /\ running' = TRUE /\ hit' = FALSE /\ deadline' = epoch + 1
      /\ watchdog' = [watchdog EXCEPT ![s] = "asleep"]
      /\ UNCHANGED <<grant, store, epoch, waiting, done, code, cause, late, exceeded, effects>>
  BY DEF Invoke
<1>3. watchdog[s] = "none"
  BY <1>1 DEF HarnessSound, EpochCounts, HarnessTypes
<1>4. Fired' = Fired
  BY <1>1, <1>2, <1>3 DEF Fired, HarnessSound, HarnessTypes, EpochCounts
<1>5. epoch \in Nat /\ epoch <= Cardinality(Steps) /\ Cardinality(Steps) \in Nat
  BY StepsAreNumbers DEF HarnessSound, HarnessTypes
<1> HIDE DEF s
<1>6. HarnessTypes'
  <2>1. deadline' \in 0..Cardinality(Steps) + 1
    BY <1>2, <1>5
  <2>2. watchdog' \in [Steps -> {"none", "asleep", "woken", "gone"}]
    BY <1>1, <1>2 DEF HarnessSound, HarnessTypes
  <2>3. QED
    BY <1>1, <1>2, <2>1, <2>2 DEF HarnessSound, HarnessTypes
<1>7. EpochCounts'
  BY <1>1, <1>2, <1>3, <1>4, <1>5, StepsAreNumbers DEF HarnessSound, HarnessTypes, EpochCounts, s
<1>8. OutcomesOpen'
  BY <1>1, <1>2, StepsAreNumbers DEF HarnessSound, OutcomesOpen, s
<1>9. InterruptNeedsLateStep' /\ MemoryBlameIsOwn'
  BY <1>2 DEF HarnessSound, InterruptNeedsLateStep, MemoryBlameIsOwn
<1>10. QED
  BY <1>6, <1>7, <1>8, <1>9 DEF HarnessSound

LEMMA InvokeFailsSound ==
    ASSUME HarnessSound, step + 1 \in Steps, InvokeFails(step + 1)
    PROVE  HarnessSound'
<1> DEFINE s == step + 1
<1>1. s \in Steps /\ s \in Nat /\ s > 0 /\ step \in Nat
  BY StepsAreNumbers DEF HarnessSound, HarnessTypes
<1>2. /\ ~running /\ step' = s
      /\ code' = [code EXCEPT ![s] = "test.failure"]
      /\ cause' = [cause EXCEPT ![s] = "setup"]
      /\ UNCHANGED <<grant, store, engine, running, waiting, hit, late, exceeded, effects>>
  BY DEF InvokeFails
<1>3. Fired' = Fired
  BY <1>2 DEF Fired, engine
<1> HIDE DEF s
<1>4. HarnessTypes'
  BY <1>1, <1>2 DEF HarnessSound, HarnessTypes, engine, Codes, Causes
<1>5. EpochCounts'
  BY <1>1, <1>2, <1>3, StepsAreNumbers DEF HarnessSound, EpochCounts, engine, s
<1>6. OutcomesOpen'
  BY <1>1, <1>2, StepsAreNumbers DEF HarnessSound, HarnessTypes, OutcomesOpen, s
<1>7. InterruptNeedsLateStep'
  BY <1>1, <1>2 DEF HarnessSound, HarnessTypes, InterruptNeedsLateStep
<1>8. MemoryBlameIsOwn'
  BY <1>1, <1>2 DEF HarnessSound, HarnessTypes, MemoryBlameIsOwn, OutcomesOpen, s
<1>9. QED
  BY <1>4, <1>5, <1>6, <1>7, <1>8 DEF HarnessSound

-----------------------------------------------------------------------------
(* The watchdogs.  The epoch stays the number of those that advanced it,   *)
(* and so cannot exceed the number of steps.                               *)
LEMMA WatchdogWakesSound ==
    ASSUME HarnessSound, NEW s \in Steps, WatchdogWakes(s)
    PROVE  HarnessSound'
<1> USE DEF WatchdogWakes
<1>1. Fired' = Fired
  BY DEF Fired, HarnessSound, HarnessTypes, EpochCounts
<1>2. HarnessTypes'
  BY DEF HarnessSound, HarnessTypes
<1>3. EpochCounts'
  BY <1>1 DEF HarnessSound, HarnessTypes, EpochCounts
<1>4. OutcomesOpen' /\ MemoryBlameIsOwn'
  BY DEF HarnessSound, OutcomesOpen, MemoryBlameIsOwn
<1>5. InterruptNeedsLateStep'
  BY DEF HarnessSound, HarnessTypes, EpochCounts, InterruptNeedsLateStep
<1>6. QED
  BY <1>2, <1>3, <1>4, <1>5 DEF HarnessSound

LEMMA WatchdogFiresSound ==
    ASSUME HarnessSound, NEW s \in Steps, WatchdogFires(s)
    PROVE  HarnessSound'
<1> USE DEF WatchdogFires
<1>1. late[s] /\ s \notin Fired
  BY DEF HarnessSound, EpochCounts, Fired
<1>2. Fired' = Fired \cup {s}
  BY <1>1 DEF Fired, HarnessSound, HarnessTypes
<1>3. Cardinality(Fired') = Cardinality(Fired) + 1 /\ Cardinality(Fired) \in Nat
  BY <1>1, <1>2, FiredCounts, FS_AddElement, FS_CardinalityType
<1>4. Cardinality(Fired') <= Cardinality(Steps)
  BY <1>2, FS_Subset DEF Fired
<1>5. epoch = Cardinality(Fired) /\ epoch' = Cardinality(Fired')
  BY <1>3 DEF HarnessSound, EpochCounts
<1>6. HarnessTypes'
  <2>1. epoch' \in 0..Cardinality(Steps)
    BY <1>3, <1>4, <1>5, StepsAreNumbers
  <2>2. QED
    BY <2>1 DEF HarnessSound, HarnessTypes
<1>7. EpochCounts'
  <2>1. deadline' <= epoch' + 1
    BY <1>3, <1>5, StepsAreNumbers DEF HarnessSound, EpochCounts, HarnessTypes
  <2>2. QED
    BY <1>1, <1>5, <2>1 DEF HarnessSound, EpochCounts, HarnessTypes
<1>8. OutcomesOpen' /\ InterruptNeedsLateStep' /\ MemoryBlameIsOwn'
  BY DEF HarnessSound, OutcomesOpen, InterruptNeedsLateStep, MemoryBlameIsOwn
<1>9. QED
  BY <1>6, <1>7, <1>8 DEF HarnessSound

LEMMA WatchdogsSound == ASSUME HarnessSound, Watchdogs PROVE HarnessSound'
  BY WatchdogWakesSound, WatchdogFiresSound DEF Watchdogs

LEMMA WatchdogsLeave ==
    ASSUME Watchdogs
    PROVE  UNCHANGED <<grant, store, running, step, code, effects>>
  BY DEF Watchdogs, WatchdogWakes, WatchdogFires

-----------------------------------------------------------------------------
(* A host call changes the store and the effects, if the grant allows it.  *)
HostCalls ==
    \/ \E ctx \in Contexts, key \in Keys : StateWrite(ctx, key) \/ StateDelete(ctx, key)
    \/ \E key \in SecretKeys : SecretGet(key)
    \/ HttpRequest \/ FileWrite \/ WaitInHost \/ HostReturns

LEMMA HostCallEffects ==
    ASSUME HarnessSound, HostCalls
    PROVE  /\ running /\ waiting' \in BOOLEAN
           /\ UNCHANGED <<grant, engine, running, step, hit, code, cause, late, exceeded>>
           /\ store' \subseteq Scopes \X Keys
           /\ ~grant.write => store' \subseteq store
           /\ effects' \subseteq ({"http", "file"} \cup SecretKeys)
           /\ \A e \in effects' \ effects :
                \/ e = "http" /\ grant.http
                \/ e = "file" /\ grant.mount = "rw"
                \/ e \in SecretKeys /\ grant.secrets /\ e \in grant.declared
<1>1. /\ running /\ waiting' \in BOOLEAN
      /\ UNCHANGED <<grant, engine, running, step, hit, code, cause, late, exceeded>>
  <2> USE DEF HostCall, Computes, HarnessSound, HarnessTypes, OutcomesOpen
  <2>1. CASE \/ \E ctx \in Contexts, key \in Keys : StateWrite(ctx, key) \/ StateDelete(ctx, key)
             \/ \E key \in SecretKeys : SecretGet(key)
    BY <2>1 DEF StateWrite, StateDelete, SecretGet
  <2>2. CASE FileWrite \/ WaitInHost \/ HostReturns
    BY <2>2 DEF FileWrite, WaitInHost, HostReturns
  <2>3. CASE HttpRequest
    BY <2>3 DEF HttpRequest
  <2>4. QED
    BY <2>1, <2>2, <2>3 DEF HostCalls
<1>2. /\ store' \subseteq Scopes \X Keys
      /\ ~grant.write => store' \subseteq store
  <2>1. CASE \E ctx \in Contexts, key \in Keys : StateWrite(ctx, key)
    BY <2>1 DEF StateWrite, ScopeForCtx, Contexts, Scopes, HarnessSound, HarnessTypes
  <2>2. CASE \E ctx \in Contexts, key \in Keys : StateDelete(ctx, key)
    BY <2>2 DEF StateDelete, HarnessSound, HarnessTypes
  <2>3. CASE UNCHANGED store
    BY <2>3 DEF HarnessSound, HarnessTypes
  <2>4. QED
    BY <2>1, <2>2, <2>3 DEF HostCalls, SecretGet, HttpRequest, FileWrite, WaitInHost, HostReturns
<1>3. /\ effects' \subseteq ({"http", "file"} \cup SecretKeys)
      /\ \A e \in effects' \ effects :
           \/ e = "http" /\ grant.http
           \/ e = "file" /\ grant.mount = "rw"
           \/ e \in SecretKeys /\ grant.secrets /\ e \in grant.declared
  <2>1. effects \subseteq ({"http", "file"} \cup SecretKeys)
    BY DEF HarnessSound, HarnessTypes
  <2>2. CASE \E key \in SecretKeys : SecretGet(key)
    BY <2>1, <2>2 DEF SecretGet
  <2>3. CASE HttpRequest \/ FileWrite \/ UNCHANGED effects
    BY <2>1, <2>3 DEF HttpRequest, FileWrite
  <2>4. QED
    BY <2>2, <2>3 DEF HostCalls, StateWrite, StateDelete, WaitInHost, HostReturns
<1>4. QED
  BY <1>1, <1>2, <1>3

LEMMA HostCallsSound == ASSUME HarnessSound, HostCalls PROVE HarnessSound'
<1>1. /\ running /\ waiting' \in BOOLEAN
      /\ UNCHANGED <<grant, engine, running, step, hit, code, cause, late, exceeded>>
      /\ store' \subseteq Scopes \X Keys
      /\ effects' \subseteq ({"http", "file"} \cup SecretKeys)
  BY HostCallEffects
<1>2. HarnessTypes'
  BY <1>1 DEF HarnessSound, HarnessTypes, engine
<1>3. Fired' = Fired
  BY <1>1 DEF Fired, engine
<1>4. EpochCounts' /\ OutcomesOpen' /\ InterruptNeedsLateStep' /\ MemoryBlameIsOwn'
  BY <1>1, <1>3 DEF HarnessSound, EpochCounts, OutcomesOpen, InterruptNeedsLateStep,
                    MemoryBlameIsOwn, engine
<1>5. QED
  BY <1>2, <1>4 DEF HarnessSound

-----------------------------------------------------------------------------
LEMMA WhileRunning ==
    ASSUME HarnessSound, running
    PROVE  /\ step \in Steps /\ step \in Nat /\ step > 0
           /\ hit = FALSE /\ code[step] = "none" /\ ~exceeded[step]
<1>1. step \in Steps \cup {0} /\ hit \in BOOLEAN /\ step > 0
  BY DEF HarnessSound, OutcomesOpen, HarnessTypes
<1>2. step \in Steps /\ step \in Nat /\ hit = FALSE
  BY <1>1, StepsAreNumbers DEF HarnessSound, OutcomesOpen
<1>3. QED
  BY <1>1, <1>2 DEF HarnessSound, OutcomesOpen

(* An invocation that runs past its deadline can point to a watchdog that  *)
(* fired: the epoch counts them and the deadline is above zero.            *)
LEMMA InterruptHasCause ==
    ASSUME HarnessSound, running, epoch >= deadline
    PROVE  \E t \in Steps : t <= step /\ late[t]
<1>1. epoch \in Nat /\ deadline \in Nat /\ deadline > 0 /\ epoch = Cardinality(Fired)
  BY StepsAreNumbers DEF HarnessSound, HarnessTypes, EpochCounts
<1>2. Fired # {}
  BY <1>1, FS_EmptySet
<1>3. QED
  BY <1>2 DEF Fired, HarnessSound, EpochCounts

(* An invocation ends with a code that does not blame the memory limit     *)
(* unless it was reached, and is interrupted only if a watchdog fired.     *)
LEMMA EndSound ==
    ASSUME HarnessSound, Computes,
           UNCHANGED <<grant, store, epoch, deadline, waiting, step, watchdog, late, effects>>,
           NEW why \in Causes, NEW status \in Codes, End(why, status),
           hit' \in BOOLEAN,
           why = "interrupt" => epoch >= deadline,
           \/ exceeded' = [exceeded EXCEPT ![step] = TRUE] /\ status = "test.memory_limit"
           \/ exceeded' = exceeded /\ status # "test.memory_limit"
    PROVE  HarnessSound'
<1> USE DEF End, Computes
<1>1. /\ step \in Steps /\ step \in Nat /\ step > 0
      /\ code[step] = "none" /\ ~exceeded[step]
  BY WhileRunning
<1>2. HarnessTypes'
  <2>1. /\ code' \in [Steps -> Codes] /\ cause' \in [Steps -> Causes]
        /\ done' \in [Steps -> BOOLEAN]
    BY <1>1 DEF HarnessSound, HarnessTypes
  <2>2. exceeded' \in [Steps -> BOOLEAN]
    BY <1>1 DEF HarnessSound, HarnessTypes
  <2>3. QED
    BY <2>1, <2>2 DEF HarnessSound, HarnessTypes
<1>3. Fired' = Fired
  BY DEF Fired
<1>4. EpochCounts'
  BY <1>3 DEF HarnessSound, EpochCounts
<1>5. OutcomesOpen'
  BY <1>1, StepsAreNumbers DEF HarnessSound, HarnessTypes, OutcomesOpen
<1>6. InterruptNeedsLateStep'
  BY <1>1, InterruptHasCause DEF HarnessSound, HarnessTypes, InterruptNeedsLateStep
<1>7. MemoryBlameIsOwn'
  BY <1>1 DEF HarnessSound, HarnessTypes, MemoryBlameIsOwn
<1>8. QED
  BY <1>2, <1>4, <1>5, <1>6, <1>7 DEF HarnessSound

Endings == GrowTooFar \/ GuestFails \/ GuestReturns \/ Interrupted

LEMMA EndingsLeave ==
    ASSUME HarnessSound, Endings
    PROVE  /\ running /\ ~running' /\ UNCHANGED <<grant, store, step, effects>>
           /\ \E status \in Codes : code' = [code EXCEPT ![step] = status]
<1>1. hit \in BOOLEAN
  BY DEF HarnessSound, HarnessTypes
<1>2. QED
  BY <1>1 DEF Endings, GrowTooFar, GuestFails, GuestReturns, Interrupted, Computes, EndInError,
              End, MapInvokeError, IsTimeoutError, Wrapped, Codes

LEMMA EndingsSound == ASSUME HarnessSound, Endings PROVE HarnessSound'
<1>1. running
  BY DEF Endings, GrowTooFar, GuestFails, GuestReturns, Interrupted, Computes
<1>2. hit = FALSE
  BY <1>1, WhileRunning
<1> USE DEF EndInError, MapInvokeError, IsTimeoutError, Wrapped
<1>3. CASE GrowTooFar
  <2>1. End("memory", "test.memory_limit")
    BY <1>3 DEF GrowTooFar
  <2>2. QED
    BY <1>1, <1>3, <2>1, EndSound DEF GrowTooFar, Causes, Codes
<1>4. CASE GuestFails
  <2>1. End("trap", "test.failure")
    BY <1>2, <1>4 DEF GuestFails
  <2>2. QED
    BY <1>1, <1>2, <1>4, <2>1, EndSound DEF GuestFails, Causes, Codes
<1>5. CASE GuestReturns
  <2>1. PICK status \in {"ok", "component"} : End("return", status)
    BY <1>5 DEF GuestReturns
  <2>2. QED
    BY <1>1, <1>2, <1>5, <2>1, EndSound DEF GuestReturns, Causes, Codes
<1>6. CASE Interrupted
  <2>1. End("interrupt", "test.failure") /\ epoch >= deadline
    BY <1>2, <1>6 DEF Interrupted
  <2>2. QED
    BY <1>1, <1>2, <1>6, <2>1, EndSound DEF Interrupted, Causes, Codes
<1>7. QED
  BY <1>3, <1>4, <1>5, <1>6 DEF Endings

LEMMA GuestParts == ASSUME Guest PROVE HostCalls \/ Endings
  BY DEF Guest, HostCalls, Endings

-----------------------------------------------------------------------------
(* The test command.  First what it adds to the harness: its invariant is  *)
(* that of the harness and the rest.                                       *)
CommandTypes ==
    /\ grant \in Grant \cup {NoGrant}
    /\ [manifest |-> manifest, args |-> args] \in Invocations
    /\ pc \in {"start", "prepare", "steps", "output", "trace", "failing", "end"}
    /\ outputFile \in {"none", "torn", "written"}
    /\ traceFile \in {"none", "torn", "ok", "error"}
    /\ hinted \in BOOLEAN
    /\ exit \in {"none", "ok", "failed"}

LEMMA IInvParts ==
    IInv <=> /\ HarnessSound /\ CommandTypes /\ Granted /\ Progress
             /\ SuccessNeedsAllSteps /\ TraceMatchesExit
             /\ DryRunSealed /\ CapabilitiesEnforced
  BY DEF IInv, TypeOK, HarnessSound, CommandTypes

(* The invocations are as many as the operations asked for, and each has a *)
(* number in Steps.                                                        *)
LEMMA OperationsFit ==
    ASSUME HarnessSound, CommandTypes
    PROVE  /\ manifest \in Manifest /\ args \in Args
           /\ Len(args.ops) \in Nat
           /\ 1..Len(args.ops) \subseteq Steps
           /\ step \in Nat
<1>1. /\ manifest \in Manifest /\ args \in Args
      /\ Len(args.ops) <= Cardinality(Steps)
  BY TestAssumption DEF CommandTypes
<1>2. Len(args.ops) \in Nat
  BY <1>1 DEF Args
<1>3. QED
  BY <1>1, <1>2, StepsAreNumbers DEF HarnessSound, HarnessTypes

LEMMA PermissionsGrant ==
    ASSUME NEW m \in Manifest, NEW a \in Args
    PROVE  Permissions(m, a) \in Grant
  BY DEF Permissions, Manifest, Args, Grant

LEMMA InitIInv == Init => IInv
<1> SUFFICES ASSUME Init PROVE IInv
  OBVIOUS
<1> USE DEF Init
<1>1. HarnessSound
  BY HarnessBegins
<1>2. [manifest |-> manifest, args |-> args] \in Invocations
  <2>1. PICK i \in Invocations : manifest = i.manifest /\ args = i.args
    OBVIOUS
  <2>2. i = [manifest |-> i.manifest, args |-> i.args]
    BY TestAssumption
  <2>3. QED
    BY <2>1, <2>2
<1>3. CommandTypes
  BY <1>2 DEF CommandTypes
<1>4. Granted /\ Progress
  BY <1>1, <1>3, OperationsFit DEF Granted, Progress, HarnessInit
<1>5. SuccessNeedsAllSteps /\ TraceMatchesExit /\ DryRunSealed /\ CapabilitiesEnforced
  BY DEF HarnessInit, SuccessNeedsAllSteps, TraceMatchesExit, DryRunSealed, CapabilitiesEnforced
<1>6. QED
  BY <1>1, <1>3, <1>4, <1>5, IInvParts

(* A step of the command that reads, decides or writes a file.             *)
LEMMA CommandAloneKeeps ==
    ASSUME IInv, UNCHANGED harnessVars,
           \/ Start \/ PrepareFails \/ StepFailed \/ AllStepsDone
           \/ WriteOutput \/ WriteTrace \/ WriteFailureTrace
    PROVE  IInv'
<1> USE IInvParts
<1>1. HarnessSound'
  BY HarnessRests
<1> USE DEF Start, PrepareFails, StepFailed, AllStepsDone, WriteOutput, WriteTrace,
            WriteFailureTrace, Goto, Exit, Between, StepOk, harnessVars
<1>a. UNCHANGED <<manifest, args, grant>>
  OBVIOUS
<1>b. pc' \in {"start", "prepare", "steps", "output", "trace", "failing", "end"}
  BY DEF CommandTypes
<1>c. outputFile' \in {"none", "torn", "written"}
  BY DEF CommandTypes
<1>d. traceFile' \in {"none", "torn", "ok", "error"}
  BY DEF CommandTypes
<1>e. exit' \in {"none", "ok", "failed"}
  BY DEF CommandTypes
<1>f. hinted' \in BOOLEAN
  <2>1. hinted \in BOOLEAN /\ args \in Args
    BY OperationsFit DEF CommandTypes
  <2>2. args.trace \in BOOLEAN
    BY <2>1 DEF Args
  <2>3. QED
    BY <2>1, <2>2
<1>2. CommandTypes'
  BY <1>a, <1>b, <1>c, <1>d, <1>e, <1>f DEF CommandTypes
<1>3. Granted'
  BY DEF Granted
<1>4. Progress'
  BY OperationsFit DEF Progress
<1>5. SuccessNeedsAllSteps'
  BY OperationsFit DEF SuccessNeedsAllSteps, Progress
<1>6. TraceMatchesExit'
  BY DEF TraceMatchesExit, Progress, CommandTypes
<1>7. DryRunSealed' /\ CapabilitiesEnforced'
  BY DEF DryRunSealed, CapabilitiesEnforced
<1>8. QED
  BY <1>1, <1>2, <1>3, <1>4, <1>5, <1>6, <1>7 DEF IInv, TypeOK, HarnessSound, CommandTypes

LEMMA PrepareKeeps == ASSUME IInv, Prepare PROVE IInv'
<1> USE IInvParts DEF Prepare, Goto
<1>1. UNCHANGED <<engine, running, waiting, step, hit, code, cause, late, exceeded, effects>>
  OBVIOUS
<1>2. Permissions(manifest, args) \in Grant /\ args.seeds \subseteq Keys
  BY OperationsFit, PermissionsGrant DEF Args
<1>3. Fired' = Fired
  BY DEF Fired, engine
<1>4. HarnessSound'
  <2>1. HarnessTypes'
    BY <1>1, <1>2 DEF HarnessSound, HarnessTypes, engine, Scopes
  <2>2. EpochCounts'
    BY <1>1, <1>3 DEF HarnessSound, EpochCounts, engine
  <2>3. OutcomesOpen' /\ InterruptNeedsLateStep' /\ MemoryBlameIsOwn'
    BY <1>1 DEF HarnessSound, OutcomesOpen, InterruptNeedsLateStep, MemoryBlameIsOwn
  <2>4. QED
    BY <2>1, <2>2, <2>3 DEF HarnessSound
<1>5. CommandTypes'
  BY <1>2 DEF CommandTypes
<1>6. Granted' /\ Progress'
  BY OperationsFit DEF Granted, Progress
<1>7. SuccessNeedsAllSteps' /\ TraceMatchesExit' /\ DryRunSealed'
  BY DEF SuccessNeedsAllSteps, TraceMatchesExit, DryRunSealed
<1>8. CapabilitiesEnforced'
  BY DEF CapabilitiesEnforced, Permissions
<1>9. QED
  BY <1>4, <1>5, <1>6, <1>7, <1>8 DEF IInv, TypeOK, HarnessSound, CommandTypes

-----------------------------------------------------------------------------
(* Beginning an invocation, which may fail at once: no step before it has  *)
(* failed.                                                                 *)
LEMMA NextStepKeeps == ASSUME IInv, NextStep PROVE IInv'
<1> DEFINE s == step + 1
<1> USE IInvParts DEF NextStep, Between, StepOk
<1>1. /\ s \in Steps /\ s \in Nat /\ s > 0 /\ step \in Nat
      /\ step < Len(args.ops) /\ Len(args.ops) \in Nat
  BY OperationsFit
<1>2. HarnessSound'
  BY <1>1, InvokeSound, InvokeFailsSound
<1>3. /\ step' = s /\ UNCHANGED <<grant, store, effects, commandVars>>
      /\ \A t \in Steps : t # s => code'[t] = code[t]
  BY DEF Invoke, InvokeFails, HarnessSound, HarnessTypes
<1> HIDE DEF s
<1>4. CommandTypes' /\ Granted'
  BY <1>1, <1>3 DEF CommandTypes, Granted, commandVars
<1>5. Progress'
  <2>1. \A t \in 1..s : t < s => t \in 1..step /\ t \in Steps /\ t # s /\ code[t] = "ok"
    <3>1. \A t \in 1..s : t < s => t \in 1..step /\ t \in Steps /\ t # s
      BY <1>1, OperationsFit DEF s
    <3>2. step > 0 => code[step] = "ok"
      OBVIOUS
    <3>3. \A t \in 1..step : t = step \/ t < step
      BY <1>1
    <3>4. QED
      BY <1>1, <3>1, <3>2, <3>3 DEF Progress
  <2>2. step' <= Len(args.ops) /\ pc' = "steps"
    BY <1>1, <1>3 DEF s, commandVars
  <2>3. QED
    BY <1>3, <2>1, <2>2 DEF Progress, commandVars
<1>6. SuccessNeedsAllSteps' /\ TraceMatchesExit'
  BY <1>3 DEF Progress, SuccessNeedsAllSteps, TraceMatchesExit, commandVars
<1>7. DryRunSealed' /\ CapabilitiesEnforced'
  BY <1>3 DEF DryRunSealed, CapabilitiesEnforced, commandVars
<1>8. QED
  BY <1>2, <1>4, <1>5, <1>6, <1>7 DEF IInv, TypeOK, HarnessSound, CommandTypes

LEMMA OutputTooLongKeeps == ASSUME IInv, OutputTooLong PROVE IInv'
<1> USE IInvParts DEF OutputTooLong, Between, StepOk, Goto
<1>1. step \in Steps /\ code[step] = "ok" /\ step > 0 /\ step \in Nat
  BY StepsAreNumbers DEF HarnessSound, HarnessTypes
<1>2. UNCHANGED <<grant, store, engine, running, waiting, step, hit, cause, late, exceeded, effects>>
  OBVIOUS
<1>3. Fired' = Fired
  BY DEF Fired, engine
<1>4. HarnessSound'
  <2>1. HarnessTypes'
    BY <1>1, <1>2 DEF HarnessSound, HarnessTypes, engine, Codes
  <2>2. EpochCounts'
    BY <1>2, <1>3 DEF HarnessSound, EpochCounts, engine
  <2>3. InterruptNeedsLateStep'
    BY <1>2 DEF HarnessSound, InterruptNeedsLateStep
  <2>4. OutcomesOpen'
    BY <1>1, <1>2, StepsAreNumbers DEF HarnessSound, HarnessTypes, OutcomesOpen
  <2>5. MemoryBlameIsOwn'
    BY <1>1, <1>2 DEF HarnessSound, HarnessTypes, MemoryBlameIsOwn
  <2>6. QED
    BY <2>1, <2>2, <2>3, <2>4, <2>5 DEF HarnessSound
<1>5. CommandTypes'
  BY DEF CommandTypes
<1>6. Granted' /\ Progress'
  BY <1>1, OperationsFit DEF HarnessSound, HarnessTypes, Granted, Progress
<1>7. SuccessNeedsAllSteps' /\ TraceMatchesExit' /\ DryRunSealed' /\ CapabilitiesEnforced'
  BY DEF Progress, SuccessNeedsAllSteps, TraceMatchesExit, DryRunSealed, CapabilitiesEnforced
<1>8. QED
  BY <1>4, <1>5, <1>6, <1>7 DEF IInv, TypeOK, HarnessSound, CommandTypes

-----------------------------------------------------------------------------
(* The watchdogs and the guest beside the command.                         *)
LEMMA WatchdogsKeep == ASSUME IInv, UNCHANGED commandVars, Watchdogs PROVE IInv'
<1> USE IInvParts
<1>1. HarnessSound'
  BY WatchdogsSound
<1>2. UNCHANGED <<grant, store, running, step, code, effects>>
  BY WatchdogsLeave
<1> USE DEF commandVars
<1>3. CommandTypes' /\ Granted'
  BY <1>2 DEF CommandTypes, Granted
<1>4. Progress' /\ SuccessNeedsAllSteps' /\ TraceMatchesExit'
  BY <1>2 DEF Progress, SuccessNeedsAllSteps, TraceMatchesExit
<1>5. DryRunSealed' /\ CapabilitiesEnforced'
  BY <1>2 DEF DryRunSealed, CapabilitiesEnforced
<1>6. QED
  BY <1>1, <1>3, <1>4, <1>5 DEF IInv, TypeOK, HarnessSound, CommandTypes

LEMMA HostCallsKeep == ASSUME IInv, UNCHANGED commandVars, HostCalls PROVE IInv'
<1> USE IInvParts
<1>1. HarnessSound'
  BY HostCallsSound
<1>2. /\ running /\ UNCHANGED <<grant, running, step, code>>
      /\ ~grant.write => store' \subseteq store
      /\ \A e \in effects' \ effects :
           \/ e = "http" /\ grant.http
           \/ e = "file" /\ grant.mount = "rw"
           \/ e \in SecretKeys /\ grant.secrets /\ e \in grant.declared
  BY HostCallEffects
<1> USE DEF commandVars
<1>3. /\ grant = Permissions(manifest, args)
      /\ manifest \in Manifest /\ args \in Args
  BY <1>2, OperationsFit DEF Granted
<1>4. CommandTypes' /\ Granted'
  BY <1>2 DEF CommandTypes, Granted
<1>5. Progress' /\ SuccessNeedsAllSteps' /\ TraceMatchesExit'
  BY <1>2 DEF Progress, SuccessNeedsAllSteps, TraceMatchesExit
<1>6. DryRunSealed'
  <2> SUFFICES ASSUME args.dryRun PROVE effects' \cap {"http", "file"} = {}
    BY DEF DryRunSealed
  <2>1. grant.http = FALSE /\ grant.mount # "rw"
    BY <1>3 DEF Permissions
  <2>2. effects \cap {"http", "file"} = {}
    BY DEF DryRunSealed
  <2>3. "http" \notin SecretKeys /\ "file" \notin SecretKeys
    OBVIOUS
  <2>4. QED
    BY <1>2, <2>1, <2>2, <2>3
<1>7. CapabilitiesEnforced'
  <2>1. /\ grant.write = (manifest.state \cap {"write", "delete"} # {})
        /\ grant.secrets = manifest.secrets
        /\ grant.secrets => grant.declared = manifest.declared
    BY <1>3 DEF Permissions
  <2>2. manifest.state \cap {"write", "delete"} = {} => store' = {}
    BY <1>2, <2>1 DEF CapabilitiesEnforced
  <2>3. effects \cap SecretKeys \subseteq (IF manifest.secrets THEN manifest.declared ELSE {})
    BY DEF CapabilitiesEnforced
  <2>4. effects' \cap SecretKeys \subseteq (IF manifest.secrets THEN manifest.declared ELSE {})
    BY <1>2, <2>1, <2>3
  <2>5. QED
    BY <2>2, <2>4 DEF CapabilitiesEnforced
<1>8. QED
  BY <1>1, <1>4, <1>5, <1>6, <1>7 DEF IInv, TypeOK, HarnessSound, CommandTypes

LEMMA EndingsKeep == ASSUME IInv, UNCHANGED commandVars, Endings PROVE IInv'
<1> USE IInvParts
<1>1. HarnessSound'
  BY EndingsSound
<1>2. /\ running /\ ~running' /\ UNCHANGED <<grant, store, step, effects>>
      /\ \E status \in Codes : code' = [code EXCEPT ![step] = status]
  BY EndingsLeave
<1>3. pc = "steps" /\ step \in Steps /\ step \in Nat /\ step > 0 /\ code[step] = "none"
  BY <1>2, WhileRunning DEF Granted
<1>4. \A t \in Steps : t < step => code'[t] = code[t]
  BY <1>2, <1>3, StepsAreNumbers DEF HarnessSound, HarnessTypes
<1> USE DEF commandVars
<1>5. CommandTypes' /\ Granted'
  BY <1>2, <1>3 DEF CommandTypes, Granted
<1>6. Progress'
  BY <1>2, <1>3, <1>4, OperationsFit DEF Progress
<1>7. SuccessNeedsAllSteps' /\ TraceMatchesExit'
  BY <1>3 DEF Progress, SuccessNeedsAllSteps, TraceMatchesExit
<1>8. DryRunSealed' /\ CapabilitiesEnforced'
  BY <1>2 DEF DryRunSealed, CapabilitiesEnforced
<1>9. QED
  BY <1>1, <1>5, <1>6, <1>7, <1>8 DEF IInv, TypeOK, HarnessSound, CommandTypes

-----------------------------------------------------------------------------
LEMMA StutterKeeps == ASSUME IInv, UNCHANGED vars PROVE IInv'
<1> USE IInvParts
<1>1. HarnessSound'
  BY HarnessRests DEF vars
<1> USE DEF vars, harnessVars, commandVars
<1>2. CommandTypes' /\ Granted' /\ Progress'
  BY DEF CommandTypes, Granted, Progress
<1>3. SuccessNeedsAllSteps' /\ TraceMatchesExit' /\ DryRunSealed' /\ CapabilitiesEnforced'
  BY DEF SuccessNeedsAllSteps, TraceMatchesExit, DryRunSealed, CapabilitiesEnforced
<1>4. QED
  BY <1>1, <1>2, <1>3 DEF IInv, TypeOK, HarnessSound, CommandTypes

LEMMA StepIInv == IInv /\ [Next]_vars => IInv'
<1> SUFFICES ASSUME IInv, [Next]_vars PROVE IInv'
  OBVIOUS
<1>1. CASE UNCHANGED vars
  BY <1>1, StutterKeeps
<1>2. CASE Command
  <2>1. CASE Start \/ PrepareFails \/ StepFailed \/ AllStepsDone
             \/ WriteOutput \/ WriteTrace \/ WriteFailureTrace
    <3>1. UNCHANGED harnessVars
      BY <2>1 DEF Start, PrepareFails, StepFailed, AllStepsDone, WriteOutput, WriteTrace,
                  WriteFailureTrace
    <3>2. QED
      BY <2>1, <3>1, CommandAloneKeeps
  <2>2. QED
    BY <1>2, <2>1, PrepareKeeps, NextStepKeeps, OutputTooLongKeeps DEF Command
<1>3. CASE Watchdogs /\ UNCHANGED commandVars
  BY <1>3, WatchdogsKeep
<1>4. CASE Guest /\ UNCHANGED commandVars
  BY <1>4, GuestParts, HostCallsKeep, EndingsKeep
<1>5. QED
  BY <1>1, <1>2, <1>3, <1>4 DEF Next

(* Every behaviour of the command keeps the inductive invariant.           *)
THEOREM Invariance == Spec => []IInv
<1>1. QED
  BY InitIInv, StepIInv, PTL DEF Spec

(* The types hold, and an output file or a trace without an error exists   *)
(* only when every operation asked for was run and succeeded.              *)
THEOREM SuccessIsWhole == Spec => []TestCommandInv
<1>1. IInv => TestCommandInv
  BY DEF IInv, TestCommandInv
<1>2. QED
  BY Invariance, <1>1, PTL

(* The trace and the exit status never contradict each other.              *)
THEOREM TraceIsTrue == Spec => []TraceMatchesExit
<1>1. IInv => TraceMatchesExit
  BY DEF IInv
<1>2. QED
  BY Invariance, <1>1, PTL

(* In a dry run the guest reaches neither network nor file system, whatever *)
(* the flags and the manifest say.                                         *)
THEOREM DryRunIsSealed == Spec => []DryRunSealed
<1>1. IInv => DryRunSealed
  BY DEF IInv
<1>2. QED
  BY Invariance, <1>1, PTL

(* State and secrets are out of reach unless the manifest declares them.   *)
THEOREM CapabilitiesAreEnforced == Spec => []CapabilitiesEnforced
<1>1. IInv => CapabilitiesEnforced
  BY DEF IInv
<1>2. QED
  BY Invariance, <1>1, PTL

(* Nothing is interrupted that answers in time, as long as everything      *)
(* before it answered in time too.                                         *)
THEOREM NoStrayInterrupt == Spec => []InterruptNeedsLateStep
<1>1. IInv => InterruptNeedsLateStep
  BY DEF IInv
<1>2. QED
  BY Invariance, <1>1, PTL

(* The memory limit is blamed exactly on the step that reached it.         *)
THEOREM NoStrayMemoryBlame == Spec => []MemoryBlameIsOwn
<1>1. IInv => MemoryBlameIsOwn
  BY DEF IInv
<1>2. QED
  BY Invariance, <1>1, PTL
-----------------------------------------------------------------------------
(* Doctor.  First the sequences of calls it plans.                         *)
LEMMA InRange == \A s, x : x \in RangeOf(s) <=> \E i \in DOMAIN s : s[i] = x
  BY DEF RangeOf

LEMMA SeqOfRange == ASSUME NEW S, NEW s \in Seq(S) PROVE s \in Seq(RangeOf(s))
<1>1. Len(s) \in Nat /\ s = [i \in 1 .. Len(s) |-> s[i]] /\ DOMAIN s = 1 .. Len(s)
  OBVIOUS
<1>2. \A i \in 1 .. Len(s) : s[i] \in RangeOf(s)
  BY <1>1 DEF RangeOf
<1>3. s \in [1 .. Len(s) -> RangeOf(s)]
  BY <1>1, <1>2
<1>4. QED
  BY <1>1, <1>3

LEMMA Joined ==
    ASSUME NEW s, s \in Seq(RangeOf(s)), NEW t, t \in Seq(RangeOf(t))
    PROVE  /\ s \o t \in Seq(RangeOf(s \o t)) /\ Len(s \o t) = Len(s) + Len(t)
           /\ RangeOf(s \o t) = RangeOf(s) \cup RangeOf(t)
<1> DEFINE S == RangeOf(s) \cup RangeOf(t)
<1>a. s \in Seq(S) /\ t \in Seq(S)
  OBVIOUS
<1> HIDE DEF S
<1>1. /\ s \o t \in Seq(S) /\ Len(s \o t) = Len(s) + Len(t) /\ Len(s) \in Nat /\ Len(t) \in Nat
      /\ \A i \in 1 .. Len(s) + Len(t) : (s \o t)[i] = IF i <= Len(s) THEN s[i] ELSE t[i - Len(s)]
  BY <1>a
<1>2. DOMAIN s = 1 .. Len(s) /\ DOMAIN t = 1 .. Len(t) /\ DOMAIN (s \o t) = 1 .. Len(s) + Len(t)
  BY <1>1
<1>3. \A i \in DOMAIN s : (s \o t)[i] = s[i] /\ i \in DOMAIN (s \o t)
  BY <1>1, <1>2
<1>4. \A i \in DOMAIN t : (s \o t)[i + Len(s)] = t[i] /\ i + Len(s) \in DOMAIN (s \o t)
  BY <1>1, <1>2
<1>5. \A i \in DOMAIN (s \o t) :
        \/ i \in DOMAIN s /\ (s \o t)[i] = s[i]
        \/ i - Len(s) \in DOMAIN t /\ (s \o t)[i] = t[i - Len(s)]
  BY <1>1, <1>2
<1> HIDE DEF RangeOf
<1>6. ASSUME NEW x, x \in RangeOf(s \o t)
      PROVE  x \in RangeOf(s) \/ x \in RangeOf(t)
  <2>1. PICK i \in DOMAIN (s \o t) : (s \o t)[i] = x
    BY <1>6, InRange
  <2>2. QED
    BY <1>5, <2>1, InRange
<1>7. ASSUME NEW x, x \in RangeOf(s) \/ x \in RangeOf(t)
      PROVE  x \in RangeOf(s \o t)
  <2>1. CASE x \in RangeOf(s)
    <3>1. PICK i \in DOMAIN s : s[i] = x
      BY <2>1, InRange
    <3>2. i \in DOMAIN (s \o t) /\ (s \o t)[i] = x
      BY <1>3, <3>1
    <3>3. QED
      BY <3>2, InRange
  <2>2. CASE x \in RangeOf(t)
    <3>1. PICK i \in DOMAIN t : t[i] = x
      BY <2>2, InRange
    <3>2. PICK j : j = i + Len(s)
      OBVIOUS
    <3>3. j \in DOMAIN (s \o t) /\ (s \o t)[j] = x
      BY <1>4, <3>1, <3>2
    <3>4. QED
      BY <3>3, InRange
  <2>3. QED
    BY <1>7, <2>1, <2>2
<1>8. s \o t \in Seq(RangeOf(s \o t))
  BY <1>1, SeqOfRange
<1>9. QED
  BY <1>1, <1>6, <1>7, <1>8

LEMMA RangeOfTail ==
    ASSUME NEW s, s \in Seq(RangeOf(s)), s # <<>>
    PROVE  /\ Head(s) \in RangeOf(s) /\ Tail(s) \in Seq(RangeOf(s))
           /\ Len(Tail(s)) + 1 = Len(s) /\ Len(s) \in Nat /\ Len(Tail(s)) \in Nat
           /\ RangeOf(s) = {Head(s)} \cup RangeOf(Tail(s))
<1> DEFINE S == RangeOf(s)
<1> HIDE DEF S
<1>a. s \in Seq(S)
  BY DEF S
<1>1. /\ Len(s) \in Nat /\ Len(s) > 0 /\ Tail(s) \in Seq(S) /\ Len(Tail(s)) = Len(s) - 1
      /\ Head(s) = s[1] /\ \A i \in 1 .. Len(s) - 1 : Tail(s)[i] = s[i + 1]
  BY <1>a
<1>2. DOMAIN s = 1 .. Len(s) /\ DOMAIN Tail(s) = 1 .. Len(s) - 1 /\ 1 \in DOMAIN s
  BY <1>1
<1>3. \A i \in DOMAIN s : i = 1 \/ (i - 1 \in DOMAIN Tail(s) /\ s[i] = Tail(s)[i - 1])
  BY <1>1, <1>2
<1>4. \A i \in DOMAIN Tail(s) : i + 1 \in DOMAIN s /\ Tail(s)[i] = s[i + 1]
  BY <1>1, <1>2
<1>5. ASSUME NEW x, x \in RangeOf(s)
      PROVE  x = Head(s) \/ x \in RangeOf(Tail(s))
  <2>1. PICK i \in DOMAIN s : s[i] = x
    BY <1>5, InRange
  <2>2. PICK j : j = i - 1
    OBVIOUS
  <2>3. i = 1 \/ (j \in DOMAIN Tail(s) /\ Tail(s)[j] = x)
    BY <1>3, <2>1, <2>2
  <2>4. QED
    BY <1>1, <2>1, <2>3, InRange
<1>6. ASSUME NEW x, x \in RangeOf(Tail(s))
      PROVE  x \in RangeOf(s)
  <2>1. PICK i \in DOMAIN Tail(s) : Tail(s)[i] = x
    BY <1>6, InRange
  <2>2. PICK j : j = i + 1
    OBVIOUS
  <2>3. j \in DOMAIN s /\ s[j] = x
    BY <1>4, <2>1, <2>2
  <2>4. QED
    BY <2>3, InRange
<1>7. Head(s) \in RangeOf(s)
  BY <1>1, <1>2, InRange
<1>8. RangeOf(s) = {Head(s)} \cup RangeOf(Tail(s))
  BY <1>5, <1>6, <1>7
<1>9. QED
  BY <1>1, <1>7, <1>8 DEF S

ModeSet == RangeOf(Modes)
PerMode(name) == {<<name, m>> : m \in ModeSet}

LEMMA EachCalls ==
    ASSUME NEW name
    PROVE  /\ Each(name) \in Seq(PerMode(name)) /\ Len(Each(name)) = Len(Modes)
           /\ RangeOf(Each(name)) = PerMode(name)
<1>1. Modes \in Seq(STRING) /\ Len(Modes) \in Nat /\ DOMAIN Modes = 1 .. Len(Modes)
  BY DoctorAssumption
<1>2. \A i \in DOMAIN Modes : <<name, Modes[i]>> \in PerMode(name)
  BY DEF PerMode, ModeSet, RangeOf
<1>3. Each(name) \in [1 .. Len(Modes) -> PerMode(name)]
  BY <1>1, <1>2 DEF Each
<1>4. Each(name) \in Seq(PerMode(name)) /\ Len(Each(name)) = Len(Modes)
  BY <1>1, <1>3
<1>5. RangeOf(Each(name)) = PerMode(name)
  BY <1>1 DEF RangeOf, Each, PerMode, ModeSet
<1>6. QED
  BY <1>4, <1>5

(* The calls that are made once, of either path.                           *)
First == <<Once("get-component-info"), Once("describe"), Once("i18n-keys"), Once("run")>>

LEMMA DescriptorPlan ==
    /\ DescriptorCalls \in Seq(Calls)
    /\ RangeOf(DescriptorCalls) = {Once("get-component-info"), Once("describe"),
                                   Once("i18n-keys"), Once("run")} \cup PerMode("qa-spec")
<1> DEFINE firsts == {Once("get-component-info"), Once("describe"), Once("i18n-keys"), Once("run")}
<1>1. First \in Seq(RangeOf(First)) /\ RangeOf(First) = firsts
  <2>1. /\ First \in Seq(firsts) /\ DOMAIN First = 1 .. 4
        /\ First[1] = Once("get-component-info") /\ First[2] = Once("describe")
        /\ First[3] = Once("i18n-keys") /\ First[4] = Once("run")
    BY DEF First
  <2>2. RangeOf(First) = {First[1], First[2], First[3], First[4]}
    BY <2>1 DEF RangeOf
  <2>3. QED
    BY <2>1, <2>2, SeqOfRange
<1>2. Each("qa-spec") \in Seq(RangeOf(Each("qa-spec")))
  BY EachCalls
<1>3. DescriptorCalls = First \o Each("qa-spec")
  BY DEF DescriptorCalls, First
<1> HIDE DEF firsts
<1>4. RangeOf(DescriptorCalls) = firsts \cup PerMode("qa-spec")
  BY <1>1, <1>2, <1>3, Joined, EachCalls
<1>6. DescriptorCalls \in Seq(RangeOf(DescriptorCalls))
  BY <1>1, <1>2, <1>3, Joined
<1>7. RangeOf(DescriptorCalls) \subseteq Calls
  BY DEF Calls
<1>8. DescriptorCalls \in Seq(Calls)
  BY <1>6, <1>7
<1>9. QED
  BY <1>4, <1>8 DEF firsts

LEMMA AllCalls ==
    Calls = {Once("get-component-info"), Once("describe"), Once("i18n-keys"), Once("run"),
             Once("operation")} \cup PerMode("qa-spec") \cup PerMode("apply-answers")
  BY DescriptorPlan, EachCalls DEF Calls

LEMMA ApplyPlan ==
    /\ Each("apply-answers") \in Seq(Calls)
    /\ RangeOf(Each("apply-answers")) = PerMode("apply-answers")
<1>1. PerMode("apply-answers") \subseteq Calls
  BY AllCalls
<1>2. QED
  BY <1>1, EachCalls

(* The calls into a node component are no more than the harness has steps. *)
LEMMA NodePlan ==
    ASSUME subject \in Subjects
    PROVE  /\ NodeCalls \in Seq(Calls)
           /\ RangeOf(NodeCalls) = {Once("i18n-keys")}
                \cup PerMode("qa-spec") \cup PerMode("apply-answers")
                \cup (IF subject.operation THEN {Once("operation")} ELSE {})
           /\ Len(NodeCalls) \in Nat /\ Len(NodeCalls) <= Cardinality(Steps)
<1> DEFINE a == <<Once("i18n-keys")>>
           b == Each("qa-spec")
           d == Each("apply-answers")
           e == IF subject.operation THEN <<Once("operation")>> ELSE <<>>
<1>1. a \in Seq(RangeOf(a)) /\ RangeOf(a) = {Once("i18n-keys")} /\ Len(a) = 1
  <2>1. a \in Seq({Once("i18n-keys")}) /\ Len(a) = 1
    OBVIOUS
  <2>2. RangeOf(a) = {Once("i18n-keys")}
    BY DEF RangeOf
  <2>3. QED
    BY <2>1, <2>2
<1>2. PerMode("qa-spec") \subseteq Calls
  BY AllCalls
<1>3. b \in Seq(RangeOf(b)) /\ RangeOf(b) = PerMode("qa-spec") /\ Len(b) = Len(Modes)
  BY <1>2, EachCalls
<1>4. d \in Seq(RangeOf(d)) /\ RangeOf(d) = PerMode("apply-answers") /\ Len(d) = Len(Modes)
  BY ApplyPlan, EachCalls
<1>5. /\ e \in Seq(RangeOf(e)) /\ Len(e) = IF subject.operation THEN 1 ELSE 0
      /\ RangeOf(e) = IF subject.operation THEN {Once("operation")} ELSE {}
  <2>1. /\ <<Once("operation")>> \in Seq({Once("operation")})
        /\ Len(<<Once("operation")>>) = 1
    OBVIOUS
  <2>2. RangeOf(<<Once("operation")>>) = {Once("operation")}
    BY DEF RangeOf
  <2>3. <<>> \in Seq({}) /\ Len(<<>>) = 0 /\ RangeOf(<<>>) = {}
    BY DEF RangeOf
  <2>4. CASE subject.operation
    BY <2>1, <2>2, <2>4
  <2>5. CASE ~subject.operation
    BY <2>3, <2>5
  <2>6. QED
    BY <2>4, <2>5
<1>6. NodeCalls = ((a \o b) \o d) \o e
  BY DEF NodeCalls
<1> HIDE DEF a, b, d, e
<1>7. PICK ab : ab = a \o b
  OBVIOUS
<1>a. PICK abd : abd = ab \o d
  OBVIOUS
<1>b. ab \in Seq(RangeOf(ab)) /\ Len(ab) = 1 + Len(b) /\ RangeOf(ab) = RangeOf(a) \cup RangeOf(b)
  BY <1>1, <1>3, <1>7, Joined
<1>c. abd \in Seq(RangeOf(abd)) /\ Len(abd) = Len(ab) + Len(d) /\ RangeOf(abd) = RangeOf(ab) \cup RangeOf(d)
  BY <1>4, <1>a, <1>b, Joined
<1>8. /\ NodeCalls \in Seq(RangeOf(NodeCalls)) /\ Len(NodeCalls) = Len(abd) + Len(e)
      /\ RangeOf(NodeCalls) = RangeOf(abd) \cup RangeOf(e)
  BY <1>5, <1>6, <1>7, <1>a, <1>c, Joined
<1>9. Len(NodeCalls) = 1 + Len(Modes) + Len(Modes) + Len(e) /\ Len(Modes) \in Nat
  BY <1>3, <1>4, <1>b, <1>c, <1>8, DoctorAssumption
<1>10. 1 + 2 * Len(Modes) + (IF subject.operation THEN 1 ELSE 0) <= Cardinality(Steps)
  BY DoctorAssumption
<1>11. Len(NodeCalls) \in Nat /\ Len(NodeCalls) <= Cardinality(Steps)
  BY <1>5, <1>9, <1>10, StepsAreNumbers, DoctorAssumption
<1>12. RangeOf(NodeCalls) = {Once("i18n-keys")}
                \cup PerMode("qa-spec") \cup PerMode("apply-answers")
                \cup (IF subject.operation THEN {Once("operation")} ELSE {})
  BY <1>1, <1>3, <1>4, <1>5, <1>b, <1>c, <1>8
<1>13. RangeOf(NodeCalls) \subseteq Calls
  BY <1>12, AllCalls
<1>14. NodeCalls \in Seq(Calls)
  BY <1>8, <1>13
<1>15. QED
  BY <1>11, <1>12, <1>14

-----------------------------------------------------------------------------
(* What the checks make of the answers, call by call: an answer that may   *)
(* have come is good exactly if no check objects to it.                    *)
LEMMA PlainJudged ==
    ASSUME NEW c \in Calls, c # Once("describe"), c[1] # "qa-spec",
           c[1] = "apply-answers" => NodeOnly, answers[c] \in Possible(c)
    PROVE  /\ answers[c].is \in {"failed", "good", "invalid"}
           /\ Good(c) <=> answers[c].is = "good"
<1>1. answers[c] \in {Answer("failed"), Answer("good"), Answer("invalid")}
  BY DEF Possible, Returned
<1>2. answers[c].is \in {"failed", "good", "invalid"}
  BY <1>1 DEF Answer
<1>3. QED
  BY <1>2 DEF Good

LEMMA DescribeJudged ==
    ASSUME answers[Once("describe")] \in Possible(Once("describe")),
           answers[Once("describe")].is = "good"
    PROVE  /\ "component-descriptor" \in Examined.interfaces /\ ~NodeOnly
           /\ Good(Once("describe"))
<1>1. "component-descriptor" \in Examined.interfaces
  BY DEF Possible, Answer
<1>2. QED
  BY <1>1 DEF NodeOnly, Good

LEMMA SpecJudged ==
    ASSUME NEW m, NEW c, c = <<"qa-spec", m>>, answers[c] \in Possible(c)
    PROVE  /\ answers[c].is \in {"failed", "good", "undecodable", "setup", "remove", "unknown_key"}
           /\ Good(c) <=> (/\ answers[c].is \notin {"failed", "unknown_key"} /\ QaSpec(c) = {})
<1>1. c[1] = "qa-spec" /\ c[2] = m /\ c # Once("describe")
  BY DEF Once
<1>2. answers[c] \in {Answer(is) : is \in {"failed", "good", "undecodable", "setup", "remove",
                                           "unknown_key"}}
  BY <1>1 DEF Possible, Returned
<1>3. answers[c].is \in {"failed", "good", "undecodable", "setup", "remove", "unknown_key"}
  BY <1>2 DEF Answer
<1>4. CASE answers[c].is \in {"failed", "unknown_key", "good", "undecodable"}
  BY <1>1, <1>4 DEF Good, QaSpec
<1>5. CASE answers[c].is = "setup"
  BY <1>1, <1>5 DEF Good, QaSpec
<1>6. CASE answers[c].is = "remove"
  BY <1>1, <1>6 DEF Good, QaSpec
<1>7. QED
  BY <1>3, <1>4, <1>5, <1>6

(* What apply-answers returned for a configuration fits the schema.        *)
Fitting(c) == Schema!Fits[Examined.config, answers[c].value]

LEMMA ConfigurationJudged ==
    ASSUME NEW m, NEW c, c = <<"apply-answers", m>>, answers[c] \in Possible(c), ~NodeOnly,
           Examined.config \in Schemas
    PROVE  /\ answers[c].is \in {"failed", "good", "undecodable", "noncanonical"}
           /\ (answers[c].is = "good" /\ Fitting(c))
                <=> (answers[c].is # "failed" /\ Applied(c) = {})
<1>1. c[1] = "apply-answers" /\ c # Once("describe")
  BY DEF Once
<1>2. answers[c] \in {Answer("failed")} \cup Configuration
  BY <1>1 DEF Possible
<1>3. CASE answers[c] \in {Answer("failed"), Answer("undecodable")}
  <2>1. CASE answers[c] = Answer("failed")
    BY <2>1 DEF Answer
  <2>2. CASE answers[c] = Answer("undecodable")
    <3>1. answers[c].is = "undecodable"
      BY <2>2 DEF Answer
    <3>2. Applied(c) # {}
      BY <3>1, Zenon DEF Applied
    <3>3. QED
      BY <3>1, <3>2
  <2>3. QED
    BY <1>3, <2>1, <2>2
<1>4. CASE answers[c] \in [is : {"good", "noncanonical"}, value : ConfigValues]
  <2>1. /\ answers[c].is \in {"good", "noncanonical"} /\ answers[c].value \in ConfigValues
        /\ answers[c].value # NoValue
    BY <1>4, ConfigAssumption
  <2>2. QED
    <3>1. Applied(c) =
            (IF answers[c].is \in {"undecodable", "noncanonical"} THEN {answers[c].is} ELSE {})
              \cup (IF Fitting(c) THEN {} ELSE {"schema_invalid"})
      BY <2>1, Zenon DEF Applied, Fitting
    <3>2. QED
      BY <2>1, <3>1
<1>5. QED
  BY <1>2, <1>3, <1>4 DEF Configuration

-----------------------------------------------------------------------------
(* The diagnostics of either path: there is none exactly if files and      *)
(* answers are as they should be.                                          *)
LEMMA SubjectFits ==
    ASSUME subject \in Subjects
    PROVE  /\ subject \in Subject /\ Examined \in Artifact
           /\ Examined.config \in Schemas /\ Examined.embedded \in {"missing", "damaged", "intact"}
           /\ Examined.describe \subseteq Defects
           /\ ManifestRead \in {"none", "broken", "stale", "ok"}
<1>1. subject \in Subject
  BY DoctorAssumption
<1>2. Examined \in Artifact /\ ManifestRead \in Manifests
  BY <1>1 DEF Subject, Examined, ManifestRead
<1>3. QED
  BY <1>1, <1>2 DEF Artifact, Manifests

(* What is found in the files, whatever the answers.                       *)
LEMMA FilesJudged ==
    ASSUME subject \in Subjects, Resolvable, Readable,
           NodeOnly => ManifestRead # "none",
           ~NodeOnly => "component-descriptor" \in Examined.interfaces
    PROVE  /\ SoundFiles <=> /\ World = {} /\ Embedded = {}
                             /\ NodeOnly \/ Describe = {}
           /\ Embedded = {} => Examined.embedded = "intact"
<1>1. (World = {}) <=> (Examined.world # "other")
  BY DEF World
<1>2. Embedded = {} <=> Examined.embedded # "missing" /\ ManifestRead # "stale"
  BY SubjectFits DEF Embedded, Artifact
<1>3. Embedded = {} => Examined.embedded = "intact" /\ ManifestRead \in {"none", "ok"}
  BY <1>2, SubjectFits DEF Readable
<1>4. Examined.embedded = "intact" =>
        ((Describe = {}) <=> (Examined.describe = {} /\ Schema!Issues[Examined.config] = {}))
  <2>1. CASE Schema!Issues[Examined.config] = {}
    <3>1. Describe = (Examined.describe \ {"differs"})
                       \cup (IF Examined.embedded = "intact"
                             THEN Examined.describe \cap {"differs"} ELSE {})
      <4>1. (IF Schema!Issues[Examined.config] = {} THEN {} ELSE {"schema"}) = {}
        BY <2>1, Zenon
      <4>2. QED
        BY <4>1, Zenon DEF Describe
    <3>2. QED
      BY <2>1, <3>1
  <2>2. CASE ~(Schema!Issues[Examined.config] = {})
    <3>1. "schema" \in Describe
      BY <2>2, Zenon DEF Describe
    <3>2. QED
      BY <2>2, <3>1
  <2>3. QED
    BY <2>1, <2>2, Zenon
<1>5. /\ Given => Loadable
      /\ ~Given /\ subject.target = "dir" => subject.found = 1
  BY DEF Resolvable
<1>6. Examined.loads
  BY DEF Readable
<1>7. Embedded = {} =>
        \/ ManifestRead = "ok"
        \/ ManifestRead = "none" /\ "component-descriptor" \in Examined.interfaces
  BY <1>2, <1>3
<1>8. (/\ World = {} /\ Embedded = {} /\ (NodeOnly \/ Describe = {})) => SoundFiles
  BY <1>1, <1>3, <1>4, <1>5, <1>6, <1>7 DEF SoundFiles
<1>9. SoundFiles => (/\ World = {} /\ Embedded = {} /\ (NodeOnly \/ Describe = {}))
  BY <1>1, <1>2, <1>4 DEF SoundFiles
<1>10. QED
  BY <1>3, <1>8, <1>9

LEMMA CallNames ==
    /\ \A name : Once(name)[1] = name
    /\ \A name, c : c \in PerMode(name) => c[1] = name
  BY DEF Once, PerMode

(* With a description, the diagnostics of the descriptor path.             *)
LEMMA DescriptorJudged ==
    ASSUME subject \in Subjects, Resolvable, Readable, ~NodeOnly,
           answers[Once("describe")].is = "good",
           \A c \in RangeOf(DescriptorCalls) \cup PerMode("apply-answers") :
             answers[c] \in Possible(c),
           answers[Once("operation")] = Answer("none")
    PROVE  DescriptorErrors = {} <=> SoundFiles /\ WellAnswered
<1> DEFINE info == Once("get-component-info")
           desc == Once("describe")
           i18n == Once("i18n-keys")
           run == Once("run")
           wrong(c) == answers[c].is \in {"failed", "invalid", "unknown_key"}
<1>1. /\ RangeOf(DescriptorCalls) = {info, desc, i18n, run} \cup PerMode("qa-spec")
      /\ Calls = {info, desc, i18n, run, Once("operation")}
                   \cup PerMode("qa-spec") \cup PerMode("apply-answers")
      /\ RangeOf(Each("apply-answers")) = PerMode("apply-answers")
      /\ RangeOf(Each("qa-spec")) = PerMode("qa-spec")
  BY DescriptorPlan, AllCalls, EachCalls
<1>2. "component-descriptor" \in Examined.interfaces /\ Good(desc) /\ ~wrong(desc)
  BY <1>1, DescribeJudged
<1>3. ~wrong(Once("operation"))
  BY DEF Answer
<1>4. \A c \in {info, i18n, run} :
        /\ answers[c].is \in {"failed", "good", "invalid"}
        /\ Good(c) <=> answers[c].is = "good"
  <2>1. TAKE c \in {info, i18n, run}
  <2>2. /\ c \in Calls /\ c # Once("describe") /\ c[1] \notin {"qa-spec", "apply-answers"}
        /\ answers[c] \in Possible(c)
    BY <1>1, CallNames
  <2>3. QED
    BY <2>2, PlainJudged
<1>5. \A c \in PerMode("qa-spec") :
        /\ answers[c].is \in {"failed", "good", "undecodable", "setup", "remove", "unknown_key"}
        /\ Good(c) <=> (/\ answers[c].is \notin {"failed", "unknown_key"} /\ QaSpec(c) = {})
  <2>1. TAKE c \in PerMode("qa-spec")
  <2>2. PICK m : c = <<"qa-spec", m>>
    BY DEF PerMode
  <2>3. QED
    BY <1>1, <2>2, SpecJudged
<1>6. \A c \in PerMode("apply-answers") :
        /\ answers[c].is \in {"failed", "good", "undecodable", "noncanonical"}
        /\ (answers[c].is = "good" /\ Fitting(c))
             <=> (answers[c].is # "failed" /\ Applied(c) = {})
  <2>1. TAKE c \in PerMode("apply-answers")
  <2>2. PICK m : c = <<"apply-answers", m>>
    BY DEF PerMode
  <2>3. QED
    BY <2>2, ConfigurationJudged, SubjectFits
<1>7. Failures = {} /\ Invalid = {} /\ I18n = {} <=>
        /\ \A c \in {info, i18n, run} : Good(c)
        /\ \A c \in PerMode("qa-spec") : answers[c].is \notin {"failed", "unknown_key"}
        /\ \A c \in PerMode("apply-answers") : answers[c].is # "failed"
  <2>1. /\ (Failures = {}) <=> \A c \in Calls : answers[c].is # "failed"
        /\ (Invalid = {}) <=> \A c \in Calls : answers[c].is # "invalid"
    BY DEF Failures, Invalid
  <2>2. (I18n = {}) <=> /\ answers[i18n].is = "good"
                        /\ \A c \in Calls : answers[c].is # "unknown_key"
    BY DEF I18n
  <2> HIDE DEF info, desc, i18n, run
  <2>3. QED
    BY <1>1, <1>2, <1>3, <1>4, <1>5, <1>6, <2>1, <2>2
<1>8. UNION {QaSpec(c) : c \in RangeOf(Each("qa-spec"))} = {}
        <=> \A c \in PerMode("qa-spec") : QaSpec(c) = {}
  BY <1>1
<1>9. UNION {Applied(c) : c \in RangeOf(Each("apply-answers"))} = {}
        <=> \A c \in PerMode("apply-answers") : Applied(c) = {}
  BY <1>1
<1>10. WellAnswered <=>
         /\ \A c \in {info, desc, i18n, run} \cup PerMode("qa-spec") : Good(c)
         /\ \A c \in PerMode("apply-answers") :
              answers[c].is = "good" /\ Fitting(c)
  <2>1. (\A m \in RangeOf(Modes) :
           LET reply == answers[<<"apply-answers", m>>]
           IN  reply.is = "good" /\ Schema!Fits[Examined.config, reply.value])
        <=> \A c \in PerMode("apply-answers") :
              answers[c].is = "good" /\ Fitting(c)
    BY Zenon DEF PerMode, ModeSet, Fitting
  <2>2. QED
    BY <1>1, <2>1, Zenon DEF WellAnswered
<1>11. DescriptorErrors = {} <=>
         /\ World = {} /\ Embedded = {} /\ Describe = {}
         /\ Failures = {} /\ Invalid = {} /\ I18n = {}
         /\ UNION {QaSpec(c) : c \in RangeOf(Each("qa-spec"))} = {}
         /\ UNION {Applied(c) : c \in RangeOf(Each("apply-answers"))} = {}
  BY DEF DescriptorErrors, Common
<1>12. SoundFiles <=> /\ World = {} /\ Embedded = {} /\ Describe = {}
  BY <1>2, FilesJudged
<1> HIDE DEF info, desc, i18n, run
<1>13. QED
  BY <1>2, <1>5, <1>6, <1>7, <1>8, <1>9, <1>10, <1>11, <1>12

(* The diagnostics of the node path.                                       *)
LEMMA NodeAnswersJudged ==
    ASSUME subject \in Subjects, Resolvable, Readable, NodeOnly, ManifestRead # "none",
           \A c \in RangeOf(NodeCalls) : answers[c] \in Possible(c),
           \A c \in Calls \ RangeOf(NodeCalls) : answers[c] = Answer("none")
    PROVE  NodeErrors = {} <=> SoundFiles /\ WellAnswered
<1> DEFINE i18n == Once("i18n-keys")
           plain == RangeOf(NodeCalls) \ PerMode("qa-spec")
<1>1. /\ i18n \in plain /\ plain \subseteq Calls
      /\ RangeOf(NodeCalls) = plain \cup PerMode("qa-spec")
      /\ RangeOf(Each("qa-spec")) = PerMode("qa-spec") /\ PerMode("qa-spec") \subseteq Calls
      /\ \A c \in plain : c # Once("describe") /\ c[1] # "qa-spec"
  <2>1. RangeOf(NodeCalls) = {i18n} \cup PerMode("qa-spec") \cup PerMode("apply-answers")
                \cup (IF subject.operation THEN {Once("operation")} ELSE {})
    BY NodePlan
  <2>2. \A c \in PerMode("apply-answers") : c[1] = "apply-answers" /\ c # Once("describe")
    BY CallNames
  <2>3. \A c \in {i18n, Once("operation")} : c[1] # "qa-spec" /\ c # Once("describe")
    BY CallNames
  <2>4. \A c \in PerMode("qa-spec") : c[1] = "qa-spec"
    BY DEF PerMode
  <2> HIDE DEF i18n
  <2>5. i18n \notin PerMode("qa-spec")
    BY <2>3, <2>4
  <2>6. plain \subseteq PerMode("apply-answers") \cup {i18n, Once("operation")}
    BY <2>1
  <2>7. \A c \in plain : c # Once("describe") /\ c[1] # "qa-spec"
    BY <2>2, <2>3, <2>6
  <2>8. plain \subseteq Calls /\ PerMode("qa-spec") \subseteq Calls
    BY <2>6, AllCalls DEF i18n
  <2>9. QED
    BY <2>1, <2>5, <2>7, <2>8, EachCalls
<1>2. \A c \in plain :
        /\ answers[c].is \in {"failed", "good", "invalid"}
        /\ Good(c) <=> answers[c].is = "good"
  BY <1>1, PlainJudged
<1>3. \A c \in PerMode("qa-spec") :
        /\ answers[c].is \in {"failed", "good", "undecodable", "setup", "remove", "unknown_key"}
        /\ Good(c) <=> (/\ answers[c].is \notin {"failed", "unknown_key"} /\ QaSpec(c) = {})
  <2>1. TAKE c \in PerMode("qa-spec")
  <2>2. PICK m : c = <<"qa-spec", m>>
    BY DEF PerMode
  <2>3. QED
    BY <1>1, <2>2, SpecJudged
<1>4. \A c \in Calls \ (plain \cup PerMode("qa-spec")) : answers[c].is = "none"
  BY <1>1 DEF Answer
<1>5. Failures = {} /\ Invalid = {} /\ I18n = {} <=>
        /\ \A c \in plain : Good(c)
        /\ \A c \in PerMode("qa-spec") : answers[c].is \notin {"failed", "unknown_key"}
  <2>1. /\ (Failures = {}) <=> \A c \in Calls : answers[c].is # "failed"
        /\ (Invalid = {}) <=> \A c \in Calls : answers[c].is # "invalid"
    BY DEF Failures, Invalid
  <2>2. (I18n = {}) <=> /\ answers[i18n].is = "good"
                        /\ \A c \in Calls : answers[c].is # "unknown_key"
    BY DEF I18n
  <2> HIDE DEF i18n, plain
  <2>3. QED
    BY <1>1, <1>2, <1>3, <1>4, <2>1, <2>2
<1>6. UNION {QaSpec(c) : c \in RangeOf(Each("qa-spec"))} = {}
        <=> \A c \in PerMode("qa-spec") : QaSpec(c) = {}
  BY <1>1
<1>7. WellAnswered <=> \A c \in plain \cup PerMode("qa-spec") : Good(c)
  BY <1>1 DEF WellAnswered
<1>8. NodeErrors = {} <=>
         /\ World = {} /\ Embedded = {}
         /\ Failures = {} /\ Invalid = {} /\ I18n = {}
         /\ UNION {QaSpec(c) : c \in RangeOf(Each("qa-spec"))} = {}
  BY DEF NodeErrors, Common
<1>9. SoundFiles <=> World = {} /\ Embedded = {}
  BY FilesJudged
<1> HIDE DEF i18n, plain
<1>10. QED
  BY <1>3, <1>5, <1>6, <1>7, <1>8, <1>9

(* doctor that gives up before the first call is right to.                 *)
LEMMA GivenUpRightly ==
    ASSUME subject \in Subjects,
           \/ ~Resolvable \/ ~Readable
           \/ NodeOnly /\ ManifestRead = "none"
           \/ ~NodeOnly /\ answers[Once("describe")].is # "good"
    PROVE  ~(SoundFiles /\ WellAnswered)
<1>1. CASE ~Resolvable
  BY <1>1 DEF Resolvable, SoundFiles
<1>2. CASE ~Readable
  BY <1>2 DEF Readable, SoundFiles, NodeOnly
<1>3. CASE NodeOnly /\ ManifestRead = "none"
  BY <1>3 DEF SoundFiles, NodeOnly
<1>4. CASE ~NodeOnly /\ answers[Once("describe")].is # "good"
  <2>1. ~Good(Once("describe")) /\ Once("describe") \in RangeOf(DescriptorCalls)
    BY <1>4, DescriptorPlan DEF Good, Once
  <2>2. QED
    BY <1>4, <2>1 DEF WellAnswered
<1>5. QED
  BY <1>1, <1>2, <1>3, <1>4

-----------------------------------------------------------------------------
(* The steps of doctor.                                                    *)
DoctorTypes ==
    /\ grant \in Grant
    /\ subject \in Subjects
    /\ phase \in {"start", "load", "exports", "apply", "node", "done", "end"}
    /\ calls \in Seq(Calls)
    /\ answers \in [Calls -> Answers]
    /\ poisoned \in BOOLEAN
    /\ verdict \in {"none", "ok", "failed"}
    /\ seen.exit \in {"none", "ok", "failed"} /\ seen.warned \in BOOLEAN
    /\ seen.by \in {"none", "artifact", "describe"}

LEMMA DoctorParts ==
    DoctorIInv <=> /\ HarnessSound /\ DoctorTypes
                   /\ Course /\ Dialogue /\ Pace /\ VerdictIsEarned /\ InspectAgrees
  BY DEF DoctorIInv, DoctorTypeOK, HarnessTypeOK, HarnessSound, DoctorTypes

(* The files are what they are.                                            *)
LEMMA FilesStay ==
    ASSUME UNCHANGED subject
    PROVE  /\ Examined' = Examined /\ ManifestRead' = ManifestRead
           /\ NodeCalls' = NodeCalls /\ Described' = Described
           /\ Resolvable' <=> Resolvable
           /\ Readable' <=> Readable
           /\ NodeOnly' <=> NodeOnly
           /\ SoundFiles' <=> SoundFiles
<1>1. Examined' = Examined /\ ManifestRead' = ManifestRead
  BY DEF Examined, ManifestRead, Given, Overridden, Loadable
<1>2. (NodeOnly' <=> NodeOnly) /\ (Given' <=> Given)
  BY <1>1 DEF NodeOnly, Given, Overridden
<1>3. NodeCalls' = NodeCalls
  BY DEF NodeCalls
<1>4. Described' = Described
  BY <1>1 DEF Described
<1>5. Resolvable' <=> Resolvable
  BY DEF Resolvable, Given, Overridden, Loadable
<1>6. Readable' <=> Readable
  BY <1>1, <1>2 DEF Readable
<1>7. SoundFiles' <=> SoundFiles
  <2>1. Loadable' <=> Loadable
    BY DEF Loadable
  <2>2. (Schema!Issues[Examined.config] = {})' <=> (Schema!Issues[Examined.config] = {})
    BY <1>1, Zenon
  <2>3. QED
    BY <1>1, <1>2, <2>1, <2>2 DEF SoundFiles
<1>8. QED
  BY <1>1, <1>2, <1>3, <1>4, <1>5, <1>6, <1>7

LEMMA PossibleStays == ASSUME UNCHANGED subject, NEW c PROVE Possible(c)' = Possible(c)
<1>1. Examined' = Examined /\ (NodeOnly' <=> NodeOnly) /\ Described' = Described
  BY FilesStay
<1>2. QED
  BY <1>1 DEF Possible

LEMMA AnswersStay ==
    ASSUME UNCHANGED <<subject, answers>>
    PROVE  WellAnswered' <=> WellAnswered
<1>1. Examined' = Examined /\ (NodeOnly' <=> NodeOnly) /\ NodeCalls' = NodeCalls
  BY FilesStay
<1>2. \A c : Good(c)' <=> Good(c)
  BY DEF Good
<1>3. QED
  BY <1>1, <1>2 DEF WellAnswered

LEMMA PossibleFits == ASSUME NEW c, NEW reply \in Possible(c) PROVE reply \in Answers
<1>1. NoValue \in ConfigValues \cup {NoValue}
  OBVIOUS
<1> HIDE DEF NoValue
<1>2. \A is \in {"none", "failed", "good", "invalid", "undecodable", "noncanonical", "setup",
                "remove", "unknown_key"} : Answer(is) \in Answers
  BY <1>1 DEF Answer, Answers
<1>3. Returned(c) \subseteq Answers /\ Described \in Answers
  BY <1>2 DEF Returned, Described
<1>4. Configuration \subseteq Answers
  BY <1>2 DEF Configuration, Answers
<1>5. QED
  BY <1>2, <1>3, <1>4 DEF Possible

LEMMA CallsListed ==
    ASSUME DoctorTypes
    PROVE  calls \in Seq(RangeOf(calls)) /\ RangeOf(calls) \subseteq Calls /\ Len(calls) \in Nat
<1>1. calls \in Seq(Calls)
  BY DEF DoctorTypes
<1> HIDE DEF Calls
<1>2. calls \in Seq(RangeOf(calls))
  BY <1>1, SeqOfRange
<1>3. \A x \in RangeOf(calls) : x \in Calls
  BY <1>1 DEF RangeOf
<1>4. QED
  BY <1>1, <1>2, <1>3

LEMMA NothingListed == RangeOf(<<>>) = {}
  BY DEF RangeOf

LEMMA PlanStays ==
    ASSUME UNCHANGED <<subject, phase>>
    PROVE  PlanOf(phase)' = PlanOf(phase) /\ Planned' = Planned
<1>1. NodeCalls' = NodeCalls
  BY FilesStay
<1>2. QED
  BY <1>1 DEF PlanOf, Planned

-----------------------------------------------------------------------------
LEMMA InitDoctor == DoctorInit => DoctorIInv
<1> SUFFICES ASSUME DoctorInit PROVE DoctorIInv
  OBVIOUS
<1> USE DEF DoctorInit
<1>1. HarnessSound /\ step = 0
  BY HarnessBegins DEF HarnessInit
<1>2. DoctorTypes
  <2>1. grant \in Grant
    BY DEF DoctorGrant, Grant
  <2>2. \A c \in Calls : Answer("none") \in Answers
    BY DEF Answer, Answers
  <2> HIDE DEF Calls
  <2>3. answers \in [Calls -> Answers] /\ calls \in Seq(Calls)
    BY <2>2
  <2>4. QED
    BY <2>1, <2>3 DEF DoctorTypes, NoReport
<1>3. Course /\ Pace /\ VerdictIsEarned /\ InspectAgrees
  BY <1>1 DEF Course, Pace, VerdictIsEarned, InspectAgrees
<1>4. Dialogue
  BY NothingListed DEF Dialogue, PlanOf, Planned
<1>5. QED
  BY <1>1, <1>2, <1>3, <1>4, DoctorParts

(* doctor reports: nothing else changes, and the report has to be right.   *)
LEMMA ReportKeeps ==
    ASSUME DoctorIInv, phase \notin {"done", "end"}, NEW status \in {"ok", "failed"},
           Report(status),
           UNCHANGED <<harnessVars, subject, calls, answers, poisoned, seen>>,
           status = "ok" <=> SoundFiles /\ WellAnswered
    PROVE  DoctorIInv'
<1> USE DoctorParts DEF Report
<1>1. HarnessSound' /\ UNCHANGED grant
  BY HarnessRests DEF harnessVars
<1>2. DoctorTypes'
  BY <1>1 DEF DoctorTypes
<1>3. Course' /\ Dialogue' /\ Pace'
  BY DEF Course, Dialogue, Pace
<1>4. VerdictIsEarned'
  BY FilesStay, AnswersStay DEF VerdictIsEarned
<1>5. InspectAgrees'
  <2>1. seen'.exit = "none"
    BY DEF Course, NoReport
  <2>2. QED
    BY <2>1 DEF InspectAgrees
<1>6. QED
  BY <1>1, <1>2, <1>3, <1>4, <1>5 DEF DoctorIInv, DoctorTypeOK, HarnessTypeOK, HarnessSound,
                                      DoctorTypes

(* doctor enters a phase with a plan.                                      *)
LEMMA ProceedKeeps ==
    ASSUME DoctorIInv, phase \notin {"done", "end"},
           NEW place \in {"load", "exports", "apply", "node"}, phase' = place,
           calls' = PlanOf(place), UNCHANGED <<harnessVars, subject, answers, poisoned, verdict, seen>>,
           Resolvable, place \in {"exports", "apply"} => Readable /\ ~NodeOnly,
           place = "node" => Readable /\ NodeOnly /\ ManifestRead # "none",
           place \in {"load", "node"} => step = 0,
           IF place = "apply"
           THEN /\ answers[Once("describe")].is = "good"
                /\ \A c \in RangeOf(DescriptorCalls) : answers[c] \in Possible(c)
                /\ \A c \in Calls \ RangeOf(DescriptorCalls) : answers[c] = Answer("none")
           ELSE \A c \in Calls : answers[c] = Answer("none")
    PROVE  DoctorIInv'
<1> USE DoctorParts
<1>1. HarnessSound' /\ UNCHANGED <<grant, step>>
  BY HarnessRests DEF harnessVars
<1>2. PlanOf(place) \in Seq(Calls)
  <2>1. <<>> \in Seq(Calls)
    OBVIOUS
  <2>2. subject \in Subjects
    BY DEF DoctorTypes
  <2>3. QED
    BY <2>1, <2>2, DescriptorPlan, ApplyPlan, NodePlan DEF PlanOf
<1>a. UNCHANGED Calls
  BY DEF Calls, DescriptorCalls, Each, Once, RangeOf
<1>3. DoctorTypes'
  BY <1>1, <1>2, <1>a DEF DoctorTypes
<1>4. PlanOf(place)' = PlanOf(place)
  BY FilesStay DEF PlanOf
<1>5. Course'
  BY FilesStay DEF Course
<1>6. Dialogue'
  <2>1. Planned' = RangeOf(PlanOf(place)) \cup (IF place = "apply" THEN RangeOf(DescriptorCalls) ELSE {})
    BY <1>4 DEF Planned
  <2>2. RangeOf(calls') \subseteq RangeOf(PlanOf(phase)')
    BY <1>4
  <2>3. \A c \in Planned' \ RangeOf(calls') : answers[c] \in Possible(c)
    BY <2>1
  <2>4. \A c \in Calls \ Planned' : answers[c] = Answer("none")
    BY <2>1
  <2>5. \A c : Possible(c)' = Possible(c)
    BY PossibleStays
  <2>6. QED
    BY <1>a, <2>2, <2>3, <2>4, <2>5 DEF Dialogue
<1>7. Pace'
  <2>1. subject \in Subjects
    BY DEF DoctorTypes
  <2>2. QED
    BY <1>1, <2>1, NodePlan, FilesStay DEF Pace, PlanOf
<1>8. VerdictIsEarned' /\ InspectAgrees'
  <2>1. verdict' = "none" /\ seen'.exit = "none"
    BY DEF Course, NoReport
  <2>2. QED
    BY <2>1 DEF VerdictIsEarned, InspectAgrees
<1>9. QED
  BY <1>1, <1>3, <1>5, <1>6, <1>7, <1>8 DEF DoctorIInv, DoctorTypeOK, HarnessTypeOK, HarnessSound,
                                      DoctorTypes

(* A step of the harness alone: what doctor knows stays.                   *)
LEMMA DoctorRests ==
    ASSUME DoctorIInv, UNCHANGED doctorVars, HarnessSound', UNCHANGED grant, Pace'
    PROVE  DoctorIInv'
<1> USE DoctorParts DEF doctorVars
<1>1. UNCHANGED Calls
  BY DEF Calls, DescriptorCalls, Each, Once, RangeOf
<1>2. DoctorTypes'
  BY <1>1 DEF DoctorTypes
<1>3. Course'
  BY FilesStay DEF Course
<1>4. Dialogue'
  BY <1>1, PossibleStays, PlanStays DEF Dialogue
<1>5. VerdictIsEarned' /\ InspectAgrees'
  BY FilesStay, AnswersStay DEF VerdictIsEarned, InspectAgrees, Overridden
<1>6. QED
  BY <1>2, <1>3, <1>4, <1>5 DEF DoctorIInv, DoctorTypeOK, HarnessTypeOK, HarnessSound,
                                DoctorTypes

LEMMA PaceStays ==
    ASSUME DoctorIInv, UNCHANGED doctorVars, UNCHANGED step
    PROVE  Pace'
<1>1. NodeCalls' = NodeCalls
  BY FilesStay DEF doctorVars
<1>2. QED
  BY <1>1, DoctorParts DEF Pace, doctorVars

(* An answer comes in: the plan goes on, and it is one that call may have. *)
LEMMA AnswerKeeps ==
    ASSUME DoctorIInv, phase \in {"exports", "apply", "node"}, calls # <<>>,
           calls' = Tail(calls), NEW reply \in Possible(Head(calls)),
           answers' = [answers EXCEPT ![Head(calls)] = reply], poisoned' \in BOOLEAN,
           UNCHANGED <<harnessVars, subject, phase, verdict, seen>>, Pace'
    PROVE  DoctorIInv'
<1> USE DoctorParts
<1> DEFINE c == Head(calls)
<1>1. HarnessSound' /\ UNCHANGED <<grant, step>>
  BY HarnessRests DEF harnessVars
<1>2. /\ calls \in Seq(RangeOf(calls)) /\ RangeOf(calls) \subseteq Calls /\ calls \in Seq(Calls)
      /\ answers \in [Calls -> Answers] /\ subject \in Subjects
  BY CallsListed DEF DoctorTypes
<1>3. c \in RangeOf(calls) /\ RangeOf(calls) = {c} \cup RangeOf(Tail(calls))
  BY <1>2, RangeOfTail
<1>4. c \in Calls /\ reply \in Answers
  BY <1>2, <1>3, PossibleFits
<1>5. UNCHANGED Calls
  BY DEF Calls, DescriptorCalls, Each, Once, RangeOf
<1> HIDE DEF c
<1>6. answers' = [answers EXCEPT ![c] = reply] /\ reply \in Possible(c)
  BY DEF c
<1>7. DoctorTypes'
  <2>1. calls' \in Seq(Calls)
    BY <1>2
  <2>2. answers' \in [Calls -> Answers]
    BY <1>2, <1>4, <1>6
  <2>3. QED
    BY <1>1, <1>5, <2>1, <2>2 DEF DoctorTypes
<1>8. RangeOf(calls) \subseteq RangeOf(PlanOf(phase)) /\ RangeOf(PlanOf(phase)) \subseteq Planned
  BY DEF Dialogue, Planned
<1>9. phase = "apply" => c # Once("describe")
  <2>1. phase = "apply" => c \in PerMode("apply-answers")
    BY <1>3, <1>8, ApplyPlan DEF PlanOf
  <2>2. (c \in PerMode("apply-answers") => c[1] = "apply-answers") /\ Once("describe")[1] = "describe"
    BY CallNames
  <2>3. QED
    BY <2>1, <2>2
<1>10. Course'
  <2>1. phase = "apply" => answers'[Once("describe")].is = answers[Once("describe")].is
    BY <1>2, <1>4, <1>6, <1>9
  <2>2. QED
    BY <2>1, FilesStay DEF Course
<1>11. Dialogue'
  <2>1. RangeOf(calls') \subseteq RangeOf(PlanOf(phase)')
    BY <1>3, <1>8, PlanStays
  <2>2. \A d \in Planned \ RangeOf(calls') : answers'[d] \in Possible(d)
    <3>1. TAKE d \in Planned \ RangeOf(calls')
    <3>2. CASE d = c
      BY <1>2, <1>4, <1>6, <3>2
    <3>3. CASE d # c
      <4>1. answers'[d] = answers[d]
        BY <1>2, <1>4, <1>6, <3>3
      <4>2. d \notin RangeOf(calls)
        BY <1>3, <3>1, <3>3
      <4>3. QED
        BY <3>1, <4>1, <4>2 DEF Dialogue
    <3>4. QED
      BY <3>2, <3>3
  <2>3. \A d \in Calls \ Planned : answers'[d] = Answer("none")
    <3>1. TAKE d \in Calls \ Planned
    <3>2. d # c
      BY <1>3, <1>8
    <3>3. answers'[d] = answers[d]
      BY <1>2, <1>6, <3>2
    <3>4. QED
      BY <3>1, <3>3 DEF Dialogue
  <2>4. \A d : Possible(d)' = Possible(d)
    BY PossibleStays
  <2>5. QED
    BY <1>5, <2>1, <2>2, <2>3, <2>4, PlanStays DEF Dialogue
<1>12. VerdictIsEarned' /\ InspectAgrees'
  <2>1. verdict' = "none" /\ seen'.exit = "none"
    BY DEF Course, NoReport
  <2>2. QED
    BY <2>1 DEF VerdictIsEarned, InspectAgrees
<1>13. QED
  BY <1>1, <1>7, <1>10, <1>11, <1>12 DEF DoctorIInv, DoctorTypeOK, HarnessTypeOK, HarnessSound,
                                         DoctorTypes

(* Where all calls of a phase were made, what is known of the answers.     *)
LEMMA AllAnswered ==
    ASSUME DoctorIInv, phase \notin {"done", "end"}, calls = <<>>
    PROVE  /\ \A c \in Planned : answers[c] \in Possible(c)
           /\ \A c \in Calls \ Planned : answers[c] = Answer("none")
  BY DoctorParts, NothingListed DEF Dialogue

LEMMA ResolveKeeps == ASSUME DoctorIInv, Resolve PROVE DoctorIInv'
<1> USE DoctorParts DEF Resolve
<1>1. subject \in Subjects
  BY DEF DoctorTypes
<1>2. CASE Resolvable
  <2>1. RangeOf(calls) \subseteq {} /\ Planned = {}
    BY NothingListed DEF Dialogue, PlanOf, Planned
  <2>2. calls = <<>> /\ \A c \in Calls : answers[c] = Answer("none")
    <3>1. \A c \in Calls : answers[c] = Answer("none")
      BY <2>1 DEF Dialogue
    <3>2. calls = <<>>
      BY <2>1, CallsListed, RangeOfTail
    <3>3. QED
      BY <3>1, <3>2
  <2>3. phase' = "load" /\ calls' = PlanOf("load") /\ step = 0
    BY <1>2, <2>2 DEF PlanOf, Pace
  <2>4. UNCHANGED <<harnessVars, subject, answers, poisoned, verdict, seen>>
    BY <1>2
  <2>5. QED
    BY <1>2, <2>2, <2>3, <2>4, ProceedKeeps
<1>3. CASE ~Resolvable
  <2>1. Report("failed")
    BY <1>3
  <2>2. ~(SoundFiles /\ WellAnswered)
    BY <1>1, <1>3, GivenUpRightly
  <2>3. QED
    BY <2>1, <2>2, ReportKeeps
<1>4. QED
  BY <1>2, <1>3

LEMMA LoadKeeps == ASSUME DoctorIInv, Load PROVE DoctorIInv'
<1> USE DoctorParts DEF Load
<1>1. subject \in Subjects /\ Resolvable
  BY DEF DoctorTypes, Course
<1>2. step = 0 /\ \A c \in Calls : answers[c] = Answer("none")
  <2>1. Planned = {}
    BY NothingListed DEF PlanOf, Planned
  <2>2. QED
    BY <2>1 DEF Dialogue, Pace
<1>3. CASE ~Readable \/ (NodeOnly /\ ManifestRead = "none")
  <2>1. ~(SoundFiles /\ WellAnswered)
    BY <1>1, <1>3, GivenUpRightly
  <2>2. Report("failed") /\ UNCHANGED <<harnessVars, subject, calls, answers, poisoned, seen>>
    BY <1>3
  <2>3. QED
    BY <2>1, <2>2, ReportKeeps
<1>4. CASE Readable /\ NodeOnly /\ ManifestRead # "none"
  <2>1. /\ phase' = "node" /\ calls' = PlanOf("node")
        /\ UNCHANGED <<harnessVars, subject, answers, poisoned, verdict, seen>>
    BY <1>4 DEF Proceed, PlanOf
  <2>2. QED
    BY <1>1, <1>2, <1>4, <2>1, ProceedKeeps
<1>5. CASE Readable /\ ~NodeOnly
  <2>1. /\ phase' = "exports" /\ calls' = PlanOf("exports")
        /\ UNCHANGED <<harnessVars, subject, answers, poisoned, verdict, seen>>
    BY <1>5 DEF Proceed, PlanOf
  <2>2. QED
    BY <1>1, <1>2, <1>5, <2>1, ProceedKeeps
<1>6. QED
  BY <1>3, <1>4, <1>5

(* A call into doctor's own store returns something its plan foresees.     *)
LEMMA CallExportKeeps == ASSUME DoctorIInv, CallExport PROVE DoctorIInv'
<1> USE DoctorParts
<1> DEFINE c == Head(calls)
           reached == InterfaceOf(c) \in Examined.interfaces /\ ~poisoned
           replies == IF c = Once("describe") THEN {Described}
                      ELSE {Answer("failed")}
                             \cup (IF phase = "apply" THEN Configuration ELSE Returned(c))
<1>1. PICK reply \in (IF reached THEN replies ELSE {Answer("failed")}) :
        /\ answers' = [answers EXCEPT ![c] = reply]
        /\ poisoned' = (poisoned \/ (reached /\ reply.is = "failed"))
  BY DEF CallExport
<1>2. /\ phase \in {"exports", "apply"} /\ calls # <<>> /\ calls' = Tail(calls) /\ ~NodeOnly
      /\ UNCHANGED <<harnessVars, subject, phase, verdict, seen>>
  BY DEF CallExport, Course
<1>3. c \in RangeOf(PlanOf(phase))
  BY <1>2, CallsListed, RangeOfTail DEF Dialogue
<1>4. reply \in Possible(c)
  <2>1. CASE ~reached
    BY <1>1, <2>1 DEF Possible
  <2>2. CASE reached /\ c = Once("describe")
    <3>1. Once("describe")[1] = "describe"
      BY CallNames
    <3>2. InterfaceOf(Once("describe")) = "component-descriptor"
      BY <3>1 DEF InterfaceOf
    <3>3. QED
      BY <1>1, <2>2, <3>2 DEF Possible
  <2>3. CASE reached /\ c # Once("describe") /\ phase = "apply"
    <3>1. c[1] = "apply-answers"
      BY <1>3, <2>3, ApplyPlan, CallNames DEF PlanOf
    <3>2. QED
      BY <1>1, <1>2, <2>3, <3>1 DEF Possible
  <2>4. CASE reached /\ c # Once("describe") /\ phase = "exports"
    <3>1. c[1] # "apply-answers"
      BY <1>3, <2>4, DescriptorPlan, CallNames DEF PlanOf
    <3>2. QED
      BY <1>1, <2>4, <3>1 DEF Possible
  <2>5. QED
    BY <1>2, <2>1, <2>2, <2>3, <2>4
<1>5. poisoned' \in BOOLEAN
  BY <1>1 DEF DoctorTypes
<1>6. Pace'
  BY <1>2 DEF Pace
<1>7. answers' = [answers EXCEPT ![Head(calls)] = reply] /\ reply \in Possible(Head(calls))
  BY <1>1, <1>4
<1> HIDE DEF c, reached, replies
<1>8. QED
  BY <1>2, <1>5, <1>6, <1>7, AnswerKeeps

LEMMA ExportsCalledKeeps == ASSUME DoctorIInv, ExportsCalled PROVE DoctorIInv'
<1> USE DoctorParts DEF ExportsCalled
<1>1. subject \in Subjects /\ Resolvable /\ Readable /\ ~NodeOnly
  BY DEF DoctorTypes, Course
<1>2. Planned = RangeOf(DescriptorCalls) /\ calls = <<>> /\ phase = "exports"
  BY DEF PlanOf, Planned
<1>3. /\ \A c \in RangeOf(DescriptorCalls) : answers[c] \in Possible(c)
      /\ \A c \in Calls \ RangeOf(DescriptorCalls) : answers[c] = Answer("none")
  BY <1>2, AllAnswered
<1>4. CASE answers[Once("describe")].is = "good"
  <2>1. /\ phase' = "apply" /\ calls' = PlanOf("apply")
        /\ UNCHANGED <<harnessVars, subject, answers, poisoned, verdict, seen>>
    BY <1>4 DEF Proceed, PlanOf
  <2>2. QED
    BY <1>1, <1>2, <1>3, <1>4, <2>1, ProceedKeeps
<1>5. CASE answers[Once("describe")].is # "good"
  <2>1. ~(SoundFiles /\ WellAnswered)
    BY <1>1, <1>5, GivenUpRightly
  <2>2. DescriptorErrors # {}
    BY <1>5 DEF DescriptorErrors
  <2>3. Report("failed")
    BY <1>5, <2>2 DEF Judge
  <2>4. UNCHANGED <<harnessVars, subject, calls, answers, poisoned, seen>>
    BY <1>5
  <2>5. QED
    BY <1>2, <2>1, <2>3, <2>4, ReportKeeps
<1>6. QED
  BY <1>4, <1>5

LEMMA AnswersAppliedKeeps == ASSUME DoctorIInv, AnswersApplied PROVE DoctorIInv'
<1> USE DoctorParts DEF AnswersApplied
<1>1. /\ subject \in Subjects /\ Resolvable /\ Readable /\ ~NodeOnly
      /\ answers[Once("describe")].is = "good"
  BY DEF DoctorTypes, Course
<1>2. Planned = RangeOf(DescriptorCalls) \cup PerMode("apply-answers")
  BY ApplyPlan DEF PlanOf, Planned
<1>3. /\ \A c \in Planned : answers[c] \in Possible(c)
      /\ \A c \in Calls \ Planned : answers[c] = Answer("none")
  BY AllAnswered
<1>4. answers[Once("operation")] = Answer("none")
  <2>1. Once("operation") \in Calls
    BY AllCalls
  <2>2. Once("operation") \notin Planned
    <3>1. Once("operation")[1] = "operation"
      BY CallNames
    <3>2. \A c \in PerMode("apply-answers") \cup PerMode("qa-spec") :
            c[1] \in {"apply-answers", "qa-spec"}
      BY CallNames
    <3>3. Once("operation") \notin {Once("get-component-info"), Once("describe"),
                                    Once("i18n-keys"), Once("run")}
      BY DEF Once
    <3>4. QED
      BY <1>2, <3>1, <3>2, <3>3, DescriptorPlan
  <2>3. QED
    BY <1>3, <2>1, <2>2
<1>5. DescriptorErrors = {} <=> SoundFiles /\ WellAnswered
  BY <1>1, <1>2, <1>3, <1>4, DescriptorJudged
<1>6. PICK status \in {"ok", "failed"} :
        Report(status) /\ (status = "ok" <=> DescriptorErrors = {})
  BY DEF Judge
<1>7. QED
  BY <1>5, <1>6, ReportKeeps

(* The node path.  The harness has a step for every call of the plan.      *)
LEMMA InvokeNodeKeeps == ASSUME DoctorIInv, InvokeNode PROVE DoctorIInv'
<1> USE DoctorParts DEF InvokeNode
<1>1. subject \in Subjects /\ calls \in Seq(RangeOf(calls)) /\ Len(calls) \in Nat
  BY CallsListed DEF DoctorTypes
<1>2. Len(calls) > 0
  BY <1>1, RangeOfTail
<1>3. Len(NodeCalls) \in Nat /\ Len(NodeCalls) <= Cardinality(Steps) /\ Cardinality(Steps) \in Nat
  BY <1>1, NodePlan, StepsAreNumbers
<1>4. step \in Nat /\ step + Len(calls) = Len(NodeCalls)
  BY <1>1, <1>3, StepsAreNumbers DEF HarnessSound, HarnessTypes
<1>5. step + 1 \in Steps
  BY <1>1, <1>2, <1>3, <1>4
<1>6. HarnessSound' /\ step' = step + 1 /\ UNCHANGED grant
  BY <1>5, InvokeSound DEF Invoke
<1>7. Pace'
  <2>1. NodeCalls' = NodeCalls
    BY FilesStay DEF doctorVars
  <2>2. step' + Len(calls) = Len(NodeCalls) + 1
    BY <1>1, <1>3, <1>4, <1>6
  <2>3. QED
    BY <2>1, <2>2 DEF doctorVars, Pace
<1>8. QED
  BY <1>6, <1>7, DoctorRests

(* What came of the invocation is the answer to the call it was made for.  *)
LEMMA JudgeNodeKeeps == ASSUME DoctorIInv, JudgeNode PROVE DoctorIInv'
<1> USE DoctorParts DEF JudgeNode
<1>1. subject \in Subjects /\ calls \in Seq(RangeOf(calls)) /\ Len(calls) \in Nat
  BY CallsListed DEF DoctorTypes
<1>2. Len(NodeCalls) \in Nat /\ step \in Nat /\ NodeOnly /\ phase = "node"
  BY <1>1, NodePlan, StepsAreNumbers DEF HarnessSound, HarnessTypes, Course
<1>3. calls # <<>> /\ step + Len(calls) = Len(NodeCalls) + 1
  BY <1>1, <1>2 DEF Pace
<1>4. Head(calls) \in RangeOf(NodeCalls) /\ Len(Tail(calls)) + 1 = Len(calls) /\ Len(Tail(calls)) \in Nat
  BY <1>1, <1>2, <1>3, RangeOfTail DEF Dialogue, PlanOf
<1>5. Head(calls) # Once("describe")
  <2>1. /\ Once("describe") # Once("i18n-keys") /\ Once("describe") # Once("operation")
        /\ Once("describe")[1] = "describe"
    BY DEF Once
  <2>2. \A c \in PerMode("qa-spec") \cup PerMode("apply-answers") :
          c[1] \in {"qa-spec", "apply-answers"}
    BY CallNames
  <2>3. RangeOf(NodeCalls) \subseteq
          {Once("i18n-keys"), Once("operation")} \cup PerMode("qa-spec") \cup PerMode("apply-answers")
    BY <1>1, NodePlan
  <2>4. QED
    BY <1>4, <2>1, <2>2, <2>3
<1>6. PICK reply \in (IF code[step] = "ok" THEN Returned(Head(calls)) ELSE {Answer("failed")}) :
        answers' = [answers EXCEPT ![Head(calls)] = reply]
  OBVIOUS
<1>7. reply \in Possible(Head(calls))
  BY <1>2, <1>5, <1>6 DEF Possible
<1>8. Pace'
  <2>1. NodeCalls' = NodeCalls
    BY FilesStay
  <2>2. step' + Len(calls') = Len(NodeCalls)
    BY <1>1, <1>2, <1>3, <1>4 DEF harnessVars
  <2>3. QED
    BY <1>2, <2>1, <2>2 DEF Pace
<1>9. poisoned' \in BOOLEAN
  BY DEF DoctorTypes
<1>10. QED
  BY <1>2, <1>3, <1>6, <1>7, <1>8, <1>9, AnswerKeeps

LEMMA NodeJudgedKeeps == ASSUME DoctorIInv, NodeJudged PROVE DoctorIInv'
<1> USE DoctorParts DEF NodeJudged
<1>1. /\ subject \in Subjects /\ Resolvable /\ Readable /\ NodeOnly /\ ManifestRead # "none"
      /\ Planned = RangeOf(NodeCalls)
  BY DEF DoctorTypes, Course, PlanOf, Planned
<1>2. /\ \A c \in RangeOf(NodeCalls) : answers[c] \in Possible(c)
      /\ \A c \in Calls \ RangeOf(NodeCalls) : answers[c] = Answer("none")
  BY <1>1, AllAnswered
<1>3. NodeErrors = {} <=> SoundFiles /\ WellAnswered
  BY <1>1, <1>2, NodeAnswersJudged
<1>4. PICK status \in {"ok", "failed"} :
        Report(status) /\ (status = "ok" <=> NodeErrors = {})
  BY DEF Judge
<1>5. QED
  BY <1>3, <1>4, ReportKeeps

(* The threads and the guest of the harness, while doctor waits.           *)
LEMMA HarnessWorksKeeps ==
    ASSUME DoctorIInv, Watchdogs \/ Guest, UNCHANGED doctorVars
    PROVE  DoctorIInv'
<1> USE DoctorParts
<1>1. CASE Watchdogs
  BY <1>1, WatchdogsSound, WatchdogsLeave, PaceStays, DoctorRests
<1>2. CASE HostCalls
  <2>1. UNCHANGED <<grant, step>>
    BY <1>2, HostCallEffects
  <2>2. QED
    BY <1>2, <2>1, HostCallsSound, PaceStays, DoctorRests
<1>3. CASE Endings
  BY <1>3, EndingsSound, EndingsLeave, PaceStays, DoctorRests
<1>4. QED
  BY <1>1, <1>2, <1>3, GuestParts

-----------------------------------------------------------------------------
(* inspect.  Its own search comes to the same as doctor's, but for a       *)
(* directory written as a URL.                                             *)
LEMMA SeenKeeps ==
    ASSUME DoctorIInv, phase = "done", phase' = "end",
           UNCHANGED <<harnessVars, subject, calls, answers, poisoned, verdict>>,
           seen'.exit \in {"none", "ok", "failed"}, seen'.warned \in BOOLEAN,
           seen'.by \in {"none", "artifact", "describe"}, InspectAgrees'
    PROVE  DoctorIInv'
<1> USE DoctorParts
<1>1. HarnessSound' /\ UNCHANGED grant
  BY HarnessRests DEF harnessVars
<1>2. UNCHANGED Calls
  BY DEF Calls, DescriptorCalls, Each, Once, RangeOf
<1>3. DoctorTypes'
  BY <1>1, <1>2 DEF DoctorTypes
<1>4. Course' /\ Dialogue' /\ Pace'
  BY DEF Course, Dialogue, Pace
<1>5. VerdictIsEarned'
  BY FilesStay, AnswersStay DEF VerdictIsEarned
<1>6. QED
  BY <1>1, <1>3, <1>4, <1>5 DEF DoctorIInv, DoctorTypeOK, HarnessTypeOK, HarnessSound,
                                DoctorTypes

(* What doctor accepted has sound files.                                   *)
LEMMA AcceptedIsSound ==
    ASSUME DoctorIInv, verdict = "ok"
    PROVE  SoundFiles /\ Examined.loads /\ Examined.embedded = "intact"
  BY DoctorParts DEF VerdictIsEarned, SoundFiles

LEMMA InspectArtifactKeeps == ASSUME DoctorIInv, InspectArtifact PROVE DoctorIInv'
<1> USE DoctorParts
<1> DEFINE a == subject.own
           described == IF a.embedded = "intact" THEN InspectDescribe(a)
                        ELSE [warned |-> FALSE, describe |-> "none"]
           beside == InspectManifestRead
           failed == ~InspectResolvable \/ a.embedded = "damaged" \/ beside = "broken"
           manifestSeen == IF beside = "none" \/ a.embedded = "missing" THEN "none"
                           ELSE IF beside = "ok" THEN "match" ELSE "mismatch"
           same == ~(subject.scheme /\ subject.target = "dir")
<1>1. /\ phase = "done" /\ phase' = "end" /\ subject.target # "json"
      /\ UNCHANGED <<harnessVars, subject, calls, answers, poisoned, verdict>>
      /\ seen' = IF failed THEN [NoReport EXCEPT !.exit = "failed", !.by = "artifact"]
                 ELSE [exit |-> "ok", by |-> "artifact", warned |-> described.warned,
                       describe |-> described.describe, manifest |-> manifestSeen]
  BY DEF InspectArtifact
<1>2. described.warned \in BOOLEAN
  BY DEF InspectDescribe
<1>3. ASSUME verdict = "ok", ~Overridden
      PROVE  /\ ~described.warned /\ described.describe # "mismatch"
             /\ same => /\ ~failed
                        /\ manifestSeen = IF ManifestRead = "none" THEN "none" ELSE "match"
  <2>1. Examined = a /\ SoundFiles
    BY <1>1, <1>3, AcceptedIsSound DEF Examined, Given
  <2>2. ASSUME same
        PROVE  /\ ~failed
               /\ manifestSeen = IF ManifestRead = "none" THEN "none" ELSE "match"
    <3>1. subject \in Subject
      BY DoctorAssumption DEF DoctorTypes
    <3>2. beside = ManifestRead
      BY <1>3, <2>2, <3>1 DEF InspectManifestRead, ManifestRead, Subject
    <3>3. a.embedded = "intact" /\ ManifestRead \in {"none", "ok"} /\ InspectResolvable
      BY <1>1, <1>3, <2>1 DEF SoundFiles, InspectResolvable, Given
    <3>4. QED
      BY <3>2, <3>3
  <2>3. a.loads /\ ("component-descriptor" \notin a.interfaces \/ a.describe = {})
    BY <2>1 DEF SoundFiles, NodeOnly
  <2>4. ~described.warned /\ described.describe # "mismatch"
    <3>1. CASE "component-descriptor" \notin a.interfaces
      <4>1. InspectDescribe(a) = [warned |-> FALSE, describe |-> "none"]
        BY <2>3, <3>1 DEF InspectDescribe
      <4>2. QED
        BY <4>1
    <3>2. CASE "component-descriptor" \in a.interfaces
      <4>1. InspectDescribe(a) = [warned |-> FALSE, describe |-> "match"]
        BY <2>3, <3>2 DEF InspectDescribe
      <4>2. QED
        BY <4>1
    <3>3. QED
      BY <3>1, <3>2
  <2>5. QED
    BY <2>2, <2>4
<1> HIDE DEF a, described, beside, failed, manifestSeen, same
<1>4. InspectAgrees'
  <2>1. ASSUME verdict = "ok", ~Overridden
        PROVE  /\ ~seen'.warned /\ seen'.describe # "mismatch"
               /\ same => /\ seen'.exit = "ok"
                          /\ seen'.manifest = IF ManifestRead = "none" THEN "none" ELSE "match"
    BY <1>1, <1>3, <2>1 DEF NoReport
  <2>2. ManifestRead' = ManifestRead
    BY <1>1, FilesStay
  <2>3. QED
    BY <1>1, <2>1, <2>2 DEF InspectAgrees, Overridden, same
<1>5. /\ seen'.exit \in {"none", "ok", "failed"} /\ seen'.warned \in BOOLEAN
      /\ seen'.by \in {"none", "artifact", "describe"}
  BY <1>1, <1>2 DEF NoReport
<1>6. QED
  BY <1>1, <1>4, <1>5, SeenKeeps

LEMMA InspectDescribeFileKeeps == ASSUME DoctorIInv, InspectDescribeFile PROVE DoctorIInv'
<1> USE DoctorParts
<1> DEFINE bad == {"undecodable", "hash"} \cap Examined.describe # {}
           odd == "noncanonical" \in Examined.describe
<1>1. /\ phase = "done" /\ phase' = "end" /\ "component-descriptor" \in Examined.interfaces
      /\ UNCHANGED <<harnessVars, subject, calls, answers, poisoned, verdict>>
      /\ seen' = [NoReport EXCEPT !.by = "describe", !.exit = IF bad THEN "failed" ELSE "ok",
                                  !.warned = odd]
  BY DEF InspectDescribeFile
<1>2. ASSUME verdict = "ok" PROVE ~bad /\ ~odd
  BY <1>1, <1>2, AcceptedIsSound DEF SoundFiles, NodeOnly
<1>3. odd \in BOOLEAN
  OBVIOUS
<1> HIDE DEF bad, odd
<1>4. /\ seen'.exit = (IF bad THEN "failed" ELSE "ok") /\ seen'.warned = odd
      /\ seen'.by = "describe" /\ seen'.describe = "none"
  BY <1>1 DEF NoReport
<1>5. InspectAgrees'
  BY <1>1, <1>2, <1>4 DEF InspectAgrees
<1>6. QED
  BY <1>1, <1>3, <1>4, <1>5, SeenKeeps

LEMMA DoctorStutters == ASSUME DoctorIInv, UNCHANGED checkVars PROVE DoctorIInv'
<1> USE DoctorParts DEF checkVars
<1>1. HarnessSound' /\ UNCHANGED <<grant, step>>
  BY HarnessRests DEF harnessVars
<1>2. QED
  BY <1>1, PaceStays, DoctorRests

LEMMA StepDoctor == DoctorIInv /\ [DoctorNext]_checkVars => DoctorIInv'
<1> SUFFICES ASSUME DoctorIInv, [DoctorNext]_checkVars PROVE DoctorIInv'
  OBVIOUS
<1>1. CASE Resolve \/ Load
  BY <1>1, ResolveKeeps, LoadKeeps
<1>2. CASE CallExport \/ ExportsCalled \/ AnswersApplied
  BY <1>2, CallExportKeeps, ExportsCalledKeeps, AnswersAppliedKeeps
<1>3. CASE NodeStep
  BY <1>3, InvokeNodeKeeps, JudgeNodeKeeps, NodeJudgedKeeps DEF NodeStep
<1>4. CASE InspectArtifact \/ InspectDescribeFile
  BY <1>4, InspectArtifactKeeps, InspectDescribeFileKeeps
<1>5. CASE (Watchdogs \/ Guest) /\ phase = "node" /\ UNCHANGED doctorVars
  BY <1>5, HarnessWorksKeeps
<1>6. CASE UNCHANGED checkVars
  BY <1>6, DoctorStutters
<1>7. QED
  BY <1>1, <1>2, <1>3, <1>4, <1>5, <1>6 DEF DoctorNext

(* doctor's inductive invariant: types, what it knows in each phase, that  *)
(* each call of its plan and no other was answered or is still to be made, *)
(* that the harness keeps step, and the verdict.                           *)
THEOREM DoctorInvariance == DoctorSpec => []DoctorIInv
<1>1. DoctorInit => DoctorIInv
  BY InitDoctor
<1>2. DoctorIInv /\ [DoctorNext]_checkVars => DoctorIInv'
  BY StepDoctor
<1>3. QED
  BY <1>1, <1>2, PTL DEF DoctorSpec

(* The verdict of doctor, with the types: an "ok" is earned by files that  *)
(* are sound as far as doctor looks (SoundFiles says how far) and by every *)
(* call of the component's path made and answered well, whichever of them  *)
(* failed before; and who earned it gets it.                               *)
THEOREM VerdictsAreEarned == DoctorSpec => []DoctorInv
<1>1. DoctorIInv => DoctorInv
  BY DEF DoctorIInv, DoctorInv
<1>2. QED
  BY <1>1, DoctorInvariance, PTL

(* What doctor accepts, inspect --strict passes with the manifest doctor   *)
(* compared, although it finds and reads both with code of its own; for a  *)
(* directory written as a URL only the description is sure to agree.       *)
THEOREM ProgramsAgree == DoctorSpec => []InspectAgrees
<1>1. DoctorIInv => InspectAgrees
  BY DEF DoctorIInv
<1>2. QED
  BY <1>1, DoctorInvariance, PTL

(* In doctor, which goes on after a failed invocation, an interrupt still  *)
(* has a late invocation behind it and a memory limit is blamed on the     *)
(* invocation that reached it.                                             *)
THEOREM DoctorHarness == DoctorSpec => [](InterruptNeedsLateStep /\ MemoryBlameIsOwn)
<1>1. DoctorIInv => InterruptNeedsLateStep /\ MemoryBlameIsOwn
  BY DEF DoctorIInv
<1>2. QED
  BY <1>1, DoctorInvariance, PTL
=============================================================================
