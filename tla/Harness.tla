------------------------------- MODULE Harness -------------------------------
(***************************************************************************)
(* TestHarness of crates/greentic-component/src/test_harness: one wasmtime *)
(* engine, one state store and one secrets store, and a thread that        *)
(* invokes operations of a component one after another.  Every invocation  *)
(* starts a watchdog thread that outlives it: it sleeps for the timeout    *)
(* and then, if the invocation's done flag is not set, advances the epoch  *)
(* of the engine, which all invocations share.  Guest code that runs at or *)
(* past its epoch deadline is interrupted, but the epoch is looked at in   *)
(* guest code only: a guest that waits in a host call is beyond reach of   *)
(* the watchdogs until the call returns.                                   *)
(*                                                                         *)
(* The guest may make any host call, wait in one for ever, grow its        *)
(* memory, return, trap or loop for ever.  Reads (state, config, the time) *)
(* change nothing and are left out.                                        *)
(***************************************************************************)
EXTENDS Naturals, FiniteSets

CONSTANTS
    Steps,       \* 1..n: the invocations of one harness
    Keys,        \* keys of the state store
    SecretKeys

ASSUME HarnessAssumption ==
    /\ IsFiniteSet(Steps) /\ Steps = 1..Cardinality(Steps)
    /\ SecretKeys \cap {"http", "file"} = {}

VARIABLES
    grant,       \* what HarnessConfig allows; never changes after new
    store,       \* the entries of the state store
    epoch,       \* of the engine
    deadline,    \* epoch deadline of the invocation that runs
    running,     \* whether an invocation runs
    waiting,     \* whether its guest is in a host call that has not returned
    step,        \* the last invocation begun, 0 before the first
    watchdog,    \* watchdog[s]: the thread invocation s started
    done,        \* done[s]: the flag it shares with that thread
    hit,         \* memory_limit_hit of the invocation that runs
    code,        \* code[s]: how invocation s ended, as test reports it
    cause,       \* history: why it ended
    late,        \* history: its watchdog woke before it ended
    exceeded,    \* history: it asked for more memory than allowed
    effects      \* history: http requests, file writes, secrets handed out

engine == <<epoch, deadline, watchdog, done>>
harnessVars == <<grant, store, epoch, deadline, running, waiting, step, watchdog, done,
                 hit, code, cause, late, exceeded, effects>>

(* StateScope: a guest's context can replace tenant and environment, never *)
(* the prefix.                                                             *)
Contexts == {"none", "empty", "foreign"}
Scopes == {"base", "foreign"}
ScopeForCtx(ctx) == IF ctx \in {"none", "empty"} THEN "base" ELSE ctx

Grant == [write : BOOLEAN, delete : BOOLEAN, secrets : BOOLEAN,
          declared : SUBSET SecretKeys, http : BOOLEAN, mount : {"none", "ro", "rw"},
          given : SUBSET SecretKeys]
Codes == {"none", "ok", "component", "test.timeout", "test.memory_limit",
          "test.output.limit", "test.failure"}
Causes == {"none", "return", "trap", "memory", "interrupt", "setup"}

HarnessTypes ==
    /\ store \subseteq Scopes \X Keys
    /\ epoch \in 0..Cardinality(Steps)
    /\ deadline \in 0..Cardinality(Steps) + 1
    /\ running \in BOOLEAN
    /\ waiting \in BOOLEAN
    /\ step \in Steps \cup {0}
    /\ watchdog \in [Steps -> {"none", "asleep", "woken", "gone"}]
    /\ done \in [Steps -> BOOLEAN]
    /\ hit \in BOOLEAN
    /\ code \in [Steps -> Codes]
    /\ cause \in [Steps -> Causes]
    /\ late \in [Steps -> BOOLEAN]
    /\ exceeded \in [Steps -> BOOLEAN]
    /\ effects \subseteq ({"http", "file"} \cup SecretKeys)
HarnessTypeOK == grant \in Grant /\ HarnessTypes

HarnessInit ==
    /\ store = {}
    /\ epoch = 0
    /\ deadline = 0
    /\ running = FALSE
    /\ waiting = FALSE
    /\ step = 0
    /\ watchdog = [s \in Steps |-> "none"]
    /\ done = [s \in Steps |-> FALSE]
    /\ hit = FALSE
    /\ code = [s \in Steps |-> "none"]
    /\ cause = [s \in Steps |-> "none"]
    /\ late = [s \in Steps |-> FALSE]
    /\ exceeded = [s \in Steps |-> FALSE]
    /\ effects = {}

-----------------------------------------------------------------------------
(* invoke wraps what wasmtime reports in a message made of its text, which *)
(* leaves nothing of the trap it came from.                                *)
Wrapped(why) == [text |-> why, trap |-> "none"]
IsTimeoutError(err) == err.trap = "interrupt"

(* map_invoke_error, and what error_payload_from_anyhow makes of it.       *)
MapInvokeError(err, limitHit) ==
    IF IsTimeoutError(err) THEN "test.timeout"
    ELSE IF limitHit THEN "test.memory_limit"
    ELSE "test.failure"

(* The invocation returns: the guard sets the done flag on every way out.  *)
End(why, status) ==
    /\ running' = FALSE
    /\ done' = [done EXCEPT ![step] = TRUE]
    /\ code' = [code EXCEPT ![step] = status]
    /\ cause' = [cause EXCEPT ![step] = why]

EndInError(why, limitHit) == End(why, MapInvokeError(Wrapped(why), limitHit))

(* Mutant: the memory flag belongs to the harness and is never cleared.    *)
InvokeFlagKept(s) ==
    /\ ~running
    /\ step' = s
    /\ running' = TRUE
    /\ deadline' = epoch + 1
    /\ watchdog' = [watchdog EXCEPT ![s] = "asleep"]
    /\ UNCHANGED <<grant, store, epoch, waiting, done, hit, code, cause, late, exceeded,
                   effects>>

(* Mutant: the guard is bound to nothing and dropped at once.              *)
InvokeGuardDropped(s) ==
    /\ ~running
    /\ step' = s
    /\ running' = TRUE
    /\ hit' = FALSE
    /\ deadline' = epoch + 1
    /\ done' = [done EXCEPT ![s] = TRUE]
    /\ watchdog' = [watchdog EXCEPT ![s] = "asleep"]
    /\ UNCHANGED <<grant, store, epoch, waiting, code, cause, late, exceeded, effects>>

(* invoke: a fresh host state, a deadline one epoch ahead, a watchdog.     *)
Invoke(s) ==
    /\ ~running
    /\ step' = s
    /\ running' = TRUE
    /\ hit' = FALSE
    /\ deadline' = epoch + 1
    /\ watchdog' = [watchdog EXCEPT ![s] = "asleep"]
    /\ UNCHANGED <<grant, store, epoch, waiting, done, code, cause, late, exceeded, effects>>

(* The directory to mount cannot be opened: no watchdog was started yet.   *)
InvokeFails(s) ==
    /\ ~running
    /\ grant.mount # "none"
    /\ step' = s
    /\ code' = [code EXCEPT ![s] = "test.failure"]
    /\ cause' = [cause EXCEPT ![s] = "setup"]
    /\ UNCHANGED <<grant, store, engine, running, waiting, hit, late, exceeded, effects>>

-----------------------------------------------------------------------------
(* Mutant: the watchdog does not look at the done flag.                    *)
WatchdogWakesBlindly(s) ==
    /\ watchdog[s] = "asleep"
    /\ watchdog' = [watchdog EXCEPT ![s] = "woken"]
    /\ late' = [late EXCEPT ![s] = ~done[s]]
    /\ UNCHANGED <<grant, store, epoch, deadline, running, waiting, step, done, hit, code,
                   cause, exceeded, effects>>

(* The watchdog's sleep is over and it reads the done flag; between this   *)
(* and the next step the invocation may end and another one begin.         *)
WatchdogWakes(s) ==
    /\ watchdog[s] = "asleep"
    /\ watchdog' = [watchdog EXCEPT ![s] = IF done[s] THEN "gone" ELSE "woken"]
    /\ late' = [late EXCEPT ![s] = ~done[s]]
    /\ UNCHANGED <<grant, store, epoch, deadline, running, waiting, step, done, hit, code,
                   cause, exceeded, effects>>

WatchdogFires(s) ==
    /\ watchdog[s] = "woken"
    /\ watchdog' = [watchdog EXCEPT ![s] = "gone"]
    /\ epoch' = epoch + 1
    /\ UNCHANGED <<grant, store, deadline, running, waiting, step, done, hit, code, cause,
                   late, exceeded, effects>>

(* Guest code runs, and so gets to a place where the epoch is checked.     *)
Computes == running /\ ~waiting

Interrupted ==
    /\ Computes
    /\ epoch >= deadline
    /\ EndInError("interrupt", hit)
    /\ UNCHANGED <<grant, store, epoch, deadline, waiting, step, watchdog, hit, late,
                   exceeded, effects>>

-----------------------------------------------------------------------------
HostCall == Computes /\ UNCHANGED <<grant, engine, running, step, hit, code, cause, late,
                                    exceeded>>

(* Denied calls return an error to the guest and leave the store alone.    *)
StateWrite(ctx, key) ==
    /\ HostCall
    /\ store' = IF grant.write THEN store \cup {<<ScopeForCtx(ctx), key>>} ELSE store
    /\ UNCHANGED <<waiting, effects>>

StateDelete(ctx, key) ==
    /\ HostCall
    /\ store' = IF grant.delete THEN store \ {<<ScopeForCtx(ctx), key>>} ELSE store
    /\ UNCHANGED <<waiting, effects>>

(* InMemorySecretsStore::get.                                              *)
SecretGet(key) ==
    /\ HostCall
    /\ effects' = IF grant.secrets /\ key \in grant.declared \cap grant.given
                  THEN effects \cup {key} ELSE effects
    /\ UNCHANGED <<waiting, store>>

(* Sent from the thread of the guest, which waits for the answer.          *)
HttpRequest ==
    /\ HostCall
    /\ IF grant.http THEN effects' = effects \cup {"http"} /\ waiting' = TRUE
       ELSE UNCHANGED <<waiting, effects>>
    /\ UNCHANGED store

(* A write to a file below a mounted directory.                            *)
FileWrite ==
    /\ HostCall
    /\ effects' = IF grant.mount = "rw" THEN effects \cup {"file"} ELSE effects
    /\ UNCHANGED <<waiting, store>>

(* A poll or a sleep of WASI, which every guest can call.                  *)
WaitInHost ==
    /\ HostCall
    /\ waiting' = TRUE
    /\ UNCHANGED <<store, effects>>

(* The answer is there, the time is over; it need never come to that.      *)
HostReturns ==
    /\ waiting
    /\ waiting' = FALSE
    /\ UNCHANGED <<grant, store, engine, running, step, hit, code, cause, late, exceeded,
                   effects>>

(* memory_growing: beyond the limit the guest is trapped and the flag set. *)
GrowTooFar ==
    /\ Computes
    /\ hit' = TRUE
    /\ exceeded' = [exceeded EXCEPT ![step] = TRUE]
    /\ EndInError("memory", TRUE)
    /\ UNCHANGED <<grant, store, epoch, deadline, waiting, step, watchdog, late, effects>>

(* Instantiation fails, the guest traps, or its output cannot be decoded.  *)
GuestFails ==
    /\ Computes
    /\ EndInError("trap", hit)
    /\ UNCHANGED <<grant, store, epoch, deadline, waiting, step, watchdog, hit, late,
                   exceeded, effects>>

GuestReturns ==
    /\ Computes
    /\ \E status \in {"ok", "component"} : End("return", status)
    /\ UNCHANGED <<grant, store, epoch, deadline, waiting, step, watchdog, hit, late,
                   exceeded, effects>>

Watchdogs == \E s \in Steps : WatchdogWakes(s) \/ WatchdogFires(s)
Guest ==
    \/ \E ctx \in Contexts, key \in Keys : StateWrite(ctx, key) \/ StateDelete(ctx, key)
    \/ \E key \in SecretKeys : SecretGet(key)
    \/ HttpRequest \/ FileWrite \/ WaitInHost \/ HostReturns
    \/ GrowTooFar \/ GuestFails \/ GuestReturns \/ Interrupted

(* The watchdogs are threads that the system schedules.  Guest code that   *)
(* runs on keeps coming to a place where the epoch is checked, also when   *)
(* host calls come between: what calls for ever does so from a loop or a   *)
(* recursion, and both are such places.  Nothing makes the guest return,   *)
(* nor the host call in which it waits.                                    *)
HarnessFairness ==
    /\ \A s \in Steps : WF_harnessVars(WatchdogWakes(s)) /\ WF_harnessVars(WatchdogFires(s))
    /\ SF_harnessVars(Interrupted)

-----------------------------------------------------------------------------
(* The invariant of the engine.  The epoch is the number of watchdogs that *)
(* advanced it, each after it found its own invocation still running, and  *)
(* an invocation that runs has a deadline past an epoch it started in.     *)
Fired == {s \in Steps : watchdog[s] = "gone" /\ late[s]}
EpochCounts ==
    /\ epoch = Cardinality(Fired)
    /\ deadline <= epoch + 1
    /\ running => deadline > 0
    /\ \A s \in Steps :
         /\ watchdog[s] # "none" => s <= step
         /\ late[s] => watchdog[s] \in {"woken", "gone"}
         /\ watchdog[s] = "woken" => late[s]

(* Nothing is known yet of an invocation that runs or has not begun.       *)
OutcomesOpen ==
    /\ waiting => running
    /\ running => /\ step > 0 /\ ~hit
                  /\ code[step] = "none" /\ ~exceeded[step]
    /\ \A s \in Steps :
         s > step => code[s] = "none" /\ cause[s] = "none" /\ ~exceeded[s]

(* An invocation is interrupted only after a watchdog, its own or that of  *)
(* an earlier invocation, found its invocation still running after the     *)
(* timeout: components that answer in time are never interrupted, although *)
(* epoch and engine are shared and the watchdogs of finished invocations   *)
(* live on.                                                                *)
InterruptNeedsLateStep ==
    \A s \in Steps : cause[s] = "interrupt" => \E t \in Steps : t <= s /\ late[t]

(* A step is reported to have hit the memory limit exactly if that very    *)
(* step asked for more, whatever earlier steps did.                        *)
MemoryBlameIsOwn ==
    \A s \in Steps : code[s] = "test.memory_limit" <=> exceeded[s]

(* "execution exceeded timeout of {timeout_ms}ms" (test_harness/mod.rs:51, *)
(* code test.timeout in cmd/test.rs:876): a step that ran past its timeout *)
(* and was interrupted for it is reported as timed out.                    *)
TimeoutReported ==
    \A s \in Steps : cause[s] = "interrupt" /\ late[s] => code[s] = "test.timeout"
=============================================================================
