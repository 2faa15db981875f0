---------------------------- MODULE RuntimeHost ----------------------------
(***************************************************************************)
(* The runtime (crates/greentic-component-runtime): threads load           *)
(* components, bind a tenant's config to a handle and invoke operations.   *)
(* The bindings of a handle are behind one mutex, the state store that all *)
(* handles share behind another.  Guests run without fuel, epochs or a     *)
(* timeout, so one may never return; while a component is loaded its       *)
(* describe runs with the same host imports as an invocation.              *)
(*                                                                         *)
(* HTTP requests, clocks and control calls touch none of this and are left *)
(* out; so is the resolution of secrets, which is never reached: the       *)
(* loader leaves the list of declared secrets empty.                       *)
(***************************************************************************)
CONSTANTS
    Threads,
    Handles,      \* what load can make
    Contexts,     \* TenantCtx: records with env and tenant
    Configs,
    Valid,        \* Valid[h]: the configs the schema of h accepts
    Rights,       \* Rights[h]: what HostPolicy lets the guest of h do to state
    Keys, Values,
    Payload,      \* Payload[c]: the values guests of tenant c write
    Stored,       \* Stored[v]: v as canonical CBOR, or as it is
    Text,         \* the values that are UTF-8, all that kv_put is ever given
    Absent, Unbound, NoTenant, Free, Nothing

(* Mutant: the environment is no part of the key.                          *)
BindingKeyOfTenant(c) == <<c.tenant>>

(* "env::tenant"                                                           *)
BindingKey(c) == <<c.env, c.tenant>>
BindingKeys == {BindingKey(c) : c \in Contexts}

VARIABLES
    loaded,        \* handles there are
    bindings,      \* bindings[h]: config by binding key, or Unbound
    bindingsLock,  \* bindingsLock[h]: the thread that holds the mutex, or Free
    store,         \* the entries of the state store
    storeLock,
    pc, task,      \* per thread: its place in load, bind or invoke, and which
    request,       \* the host call its guest makes
    answer,        \* what that call will return
    outcome,       \* how its last load, bind or invoke ended
    accepted       \* history: the <<handle, context, config>> bind accepted

registry == <<loaded, bindings, bindingsLock, accepted>>
state == <<store, storeLock>>
thread == <<pc, task, request, answer, outcome>>
vars == <<registry, state, thread>>

Operations == {"read", "kvGet", "write", "writeIfAbsent", "kvPut", "delete"}
Tenants == Contexts \cup {NoTenant}
Tasks == [kind : {"load", "bind", "invoke"}, handle : Handles, ctx : Tenants,
          config : Configs \cup {Unbound}]
Requests == [op : Operations, key : Keys, value : Values \cup {Nothing},
             rights : SUBSET {"read", "write", "delete"}]
Answers == Values \cup {"denied", "miss", "none", "done", "created", "existed", "trap"}
Calling == {"call", "locked", "absent"}
Places == {"idle", "bind", "inserting", "lookup", "cloning", "guest", "return"} \cup Calling

ASSUME RuntimeAssumption ==
    /\ \A c, d \in Contexts : c.env = d.env /\ c.tenant = d.tenant => c = d
    /\ Valid \in [Handles -> SUBSET Configs]
    /\ Rights \in [Handles -> SUBSET {"read", "write", "delete"}]
    /\ Payload \in [Tenants -> SUBSET Values]
    /\ Stored \in [Values -> Values]
    /\ Text \subseteq Values
    /\ Absent \notin Values
    /\ Unbound \notin Configs
    /\ NoTenant \notin Contexts
    /\ Free \notin Threads
    /\ Nothing \notin Requests /\ Nothing \notin Tasks /\ Nothing \notin Answers

RuntimeTypeOK ==
    /\ loaded \subseteq Handles
    /\ bindings \in [Handles -> [BindingKeys -> Configs \cup {Unbound}]]
    /\ \A h \in Handles, k \in BindingKeys : bindings[h][k] \in Valid[h] \cup {Unbound}
    /\ bindingsLock \in [Handles -> Threads \cup {Free}]
    /\ store \in [Keys -> Values \cup {Absent}]
    /\ storeLock \in Threads \cup {Free}
    /\ pc \in [Threads -> Places]
    /\ task \in [Threads -> Tasks \cup {Nothing}]
    /\ request \in [Threads -> Requests \cup {Nothing}]
    /\ answer \in [Threads -> Answers \cup {Nothing}]
    /\ outcome \in [Threads -> {"none", "ok", "failed", "invalid", "secret", "notFound",
                                "unbound"}]
    /\ accepted \subseteq Handles \X Contexts \X Configs

Init ==
    /\ loaded = {}
    /\ bindings = [h \in Handles |-> [k \in BindingKeys |-> Unbound]]
    /\ bindingsLock = [h \in Handles |-> Free]
    /\ store = [k \in Keys |-> Absent]
    /\ storeLock = Free
    /\ pc = [t \in Threads |-> "idle"]
    /\ task = [t \in Threads |-> Nothing]
    /\ request = [t \in Threads |-> Nothing]
    /\ answer = [t \in Threads |-> Nothing]
    /\ outcome = [t \in Threads |-> "none"]
    /\ accepted = {}

At(t, p) == pc[t] = p
Goto(t, p) == pc' = [pc EXCEPT ![t] = p]

Start(t, p, job) ==
    /\ Goto(t, p)
    /\ task' = [task EXCEPT ![t] = job]
    /\ outcome' = [outcome EXCEPT ![t] = "none"]
    /\ UNCHANGED <<registry, state, request, answer>>
(* An early return before anything was begun.                              *)
Refuse(t, why) ==
    /\ outcome' = [outcome EXCEPT ![t] = why]
    /\ UNCHANGED <<registry, state, pc, task, request, answer>>

(* A guard the thread holds is dropped where its scope ends.               *)
DropBindingsGuard(t) ==
    bindingsLock' = [h \in Handles |-> IF bindingsLock[h] = t THEN Free ELSE bindingsLock[h]]
End(t, how) ==
    /\ DropBindingsGuard(t)
    /\ Goto(t, "idle")
    /\ task' = [task EXCEPT ![t] = Nothing]
    /\ outcome' = [outcome EXCEPT ![t] = how]

-----------------------------------------------------------------------------
(* Loader::load up to the call of the guest's describe: fetching, compiling *)
(* or instantiating may fail.                                              *)
Load(t, h) ==
    /\ At(t, "idle")
    /\ h \notin loaded
    /\ \A u \in Threads : task[u] # Nothing => task[u].handle # h
    /\ \/ Start(t, "guest", [kind |-> "load", handle |-> h, ctx |-> NoTenant,
                             config |-> Unbound])
       \/ Refuse(t, "failed")

(* Mutant: the config is not validated.                                    *)
BindUnvalidated(t, h, c, config, secrets) ==
    /\ At(t, "idle")
    /\ h \in loaded
    /\ IF secrets
       THEN Refuse(t, "secret")
       ELSE Start(t, "bind", [kind |-> "bind", handle |-> h, ctx |-> c, config |-> config])

(* Binder::bind validates the config, then looks every secret up in the    *)
(* declared ones, of which there are none.                                 *)
Bind(t, h, c, config, secrets) ==
    /\ At(t, "idle")
    /\ h \in loaded
    /\ IF config \notin Valid[h] THEN Refuse(t, "invalid")
       ELSE IF secrets THEN Refuse(t, "secret")
       ELSE Start(t, "bind", [kind |-> "bind", handle |-> h, ctx |-> c, config |-> config])

Invoke(t, h, c, exported) ==
    /\ At(t, "idle")
    /\ h \in loaded
    /\ IF ~exported
       THEN Refuse(t, "notFound")
       ELSE Start(t, "lookup", [kind |-> "invoke", handle |-> h, ctx |-> c,
                                config |-> Unbound])

LockBindings(t) ==
    LET h == task[t].handle IN
    /\ pc[t] \in {"bind", "lookup"}
    /\ bindingsLock[h] = Free
    /\ bindingsLock' = [bindingsLock EXCEPT ![h] = t]
    /\ Goto(t, IF At(t, "bind") THEN "inserting" ELSE "cloning")
    /\ UNCHANGED <<loaded, bindings, accepted, state, task, request, answer, outcome>>

InsertBinding(t) ==
    LET h == task[t].handle
        c == task[t].ctx
    IN
    /\ At(t, "inserting")
    /\ bindings' = [bindings EXCEPT ![h] = [@ EXCEPT ![BindingKey(c)] = task[t].config]]
    /\ accepted' = accepted \cup {<<h, c, task[t].config>>}
    /\ End(t, "ok")
    /\ UNCHANGED <<loaded, state, request, answer>>

(* Mutant: the guard lives as long as the invocation.                      *)
CloneBindingAndKeepLock(t) ==
    LET h == task[t].handle
        config == bindings[h][BindingKey(task[t].ctx)]
    IN
    /\ At(t, "cloning")
    /\ IF config = Unbound
       THEN End(t, "unbound")
       ELSE /\ Goto(t, "guest")
            /\ task' = [task EXCEPT ![t].config = config]
            /\ UNCHANGED <<bindingsLock, outcome>>
    /\ UNCHANGED <<loaded, bindings, accepted, state, request, answer>>

(* The binding is copied and the mutex let go before the guest runs; the   *)
(* instance made for the call may fail to come up.                         *)
CloneBinding(t) ==
    LET h == task[t].handle
        config == bindings[h][BindingKey(task[t].ctx)]
    IN
    /\ At(t, "cloning")
    /\ IF config = Unbound
       THEN End(t, "unbound")
       ELSE \/ End(t, "failed")
            \/ /\ Goto(t, "guest")
               /\ DropBindingsGuard(t)
               /\ task' = [task EXCEPT ![t].config = config]
               /\ UNCHANGED outcome
    /\ UNCHANGED <<loaded, bindings, accepted, state, request, answer>>

-----------------------------------------------------------------------------
(* The guest.  A describe that succeeds makes the handle.                  *)
GuestReturns(t) ==
    /\ At(t, "guest")
    /\ End(t, "ok")
    /\ loaded' = IF task[t].kind = "load" THEN loaded \cup {task[t].handle} ELSE loaded
    /\ UNCHANGED <<bindings, accepted, state, request, answer>>

(* It traps, reports an error, or what it returns cannot be decoded.       *)
GuestFails(t) ==
    /\ At(t, "guest")
    /\ End(t, "failed")
    /\ UNCHANGED <<loaded, bindings, accepted, state, request, answer>>

Reads(r) == r.op \in {"read", "kvGet"}
Writes(r) == r.op \in {"write", "writeIfAbsent", "kvPut"}
HostCall(t, op, k, v) ==
    /\ At(t, "guest")
    /\ LET r == [op |-> op, key |-> k, value |-> v, rights |-> Rights[task[t].handle]] IN
         /\ IF Writes(r) THEN v \in Payload[task[t].ctx] ELSE v = Nothing
         /\ op = "kvPut" => v \in Text
         /\ request' = [request EXCEPT ![t] = r]
    /\ Goto(t, "call")
    /\ UNCHANGED <<registry, state, task, answer, outcome>>

(* allow_state_read, allow_state_write, allow_state_delete                 *)
Allowed(r) ==
    \/ Reads(r) /\ "read" \in r.rights
    \/ Writes(r) /\ "write" \in r.rights
    \/ r.op = "delete" /\ "delete" \in r.rights

Answer(t, a) ==
    /\ answer' = [answer EXCEPT ![t] = a]
    /\ Goto(t, "return")
    /\ UNCHANGED <<registry, storeLock, task, request, outcome>>

(* Denied before the store is touched: the state-store interface reports   *)
(* it, the legacy calls pretend.                                           *)
Deny(t) ==
    LET op == request[t].op IN
    /\ At(t, "call")
    /\ ~Allowed(request[t])
    /\ \/ op = "kvGet" /\ Answer(t, "none")
       \/ op = "kvPut" /\ Answer(t, "done")
       \/ op \notin {"kvGet", "kvPut"} /\ Answer(t, "denied")
    /\ UNCHANGED store

(* Mutant: the store is not locked for the whole call.                     *)
LockStoreShared(t) ==
    /\ At(t, "call")
    /\ Allowed(request[t])
    /\ storeLock' = t
    /\ Goto(t, "locked")
    /\ UNCHANGED <<registry, store, task, request, answer, outcome>>

LockStore(t) ==
    /\ At(t, "call")
    /\ Allowed(request[t])
    /\ storeLock = Free
    /\ storeLock' = t
    /\ Goto(t, "locked")
    /\ UNCHANGED <<registry, store, task, request, answer, outcome>>

Locked(t, ops) == At(t, "locked") /\ request[t].op \in ops
Entry(t) == store[request[t].key]
Put(t) == store' = [store EXCEPT ![request[t].key] = Stored[request[t].value]]

ReadState(t) ==
    /\ Locked(t, {"read"})
    /\ Answer(t, IF Entry(t) = Absent THEN "miss" ELSE Entry(t))
    /\ UNCHANGED store

(* Bytes that are no UTF-8 are an error of the host, which traps the guest. *)
KvGet(t) ==
    /\ Locked(t, {"kvGet"})
    /\ Answer(t, IF Entry(t) = Absent THEN "none"
                 ELSE IF Entry(t) \in Text THEN Entry(t) ELSE "trap")
    /\ UNCHANGED store

WriteState(t) == Locked(t, {"write", "kvPut"}) /\ Put(t) /\ Answer(t, "done")

DeleteState(t) ==
    /\ Locked(t, {"delete"})
    /\ store' = [store EXCEPT ![request[t].key] = Absent]
    /\ Answer(t, "done")

(* write_if_absent: contains_key, then insert, under one guard.            *)
FindState(t) ==
    /\ Locked(t, {"writeIfAbsent"})
    /\ IF Entry(t) # Absent
       THEN Answer(t, "existed")
       ELSE /\ Goto(t, "absent")
            /\ UNCHANGED <<registry, storeLock, task, request, answer, outcome>>
    /\ UNCHANGED store
InsertAbsent(t) == At(t, "absent") /\ Put(t) /\ Answer(t, "created")

(* The guard, if one was taken, is dropped with the call.                  *)
Return(t) ==
    /\ At(t, "return")
    /\ storeLock' = IF storeLock = t THEN Free ELSE storeLock
    /\ request' = [request EXCEPT ![t] = Nothing]
    /\ answer' = [answer EXCEPT ![t] = Nothing]
    /\ IF answer[t] = "trap"
       THEN End(t, "failed")
       ELSE Goto(t, "guest") /\ UNCHANGED <<bindingsLock, task, outcome>>
    /\ UNCHANGED <<loaded, bindings, accepted, store>>

-----------------------------------------------------------------------------
Request(t) ==
    \E h \in Handles :
        \/ Load(t, h)
        \/ \E c \in Contexts :
             \/ \E config \in Configs, secrets \in BOOLEAN : Bind(t, h, c, config, secrets)
             \/ \E exported \in BOOLEAN : Invoke(t, h, c, exported)

Guest(t) ==
    \/ GuestReturns(t) \/ GuestFails(t)
    \/ \E op \in Operations, k \in Keys, v \in Values \cup {Nothing} : HostCall(t, op, k, v)

HostStep(t) ==
    \/ LockBindings(t) \/ InsertBinding(t) \/ CloneBinding(t)
    \/ Deny(t) \/ LockStore(t)
    \/ ReadState(t) \/ KvGet(t) \/ WriteState(t) \/ DeleteState(t)
    \/ FindState(t) \/ InsertAbsent(t) \/ Return(t)

Next == \E t \in Threads : Request(t) \/ Guest(t) \/ HostStep(t)

(* The host's own code goes on whenever it does not wait for a mutex.      *)
(* Guests need not, and nobody need call.                                  *)
Fairness == \A t \in Threads : WF_vars(HostStep(t))

Spec == Init /\ [][Next]_vars /\ Fairness

-----------------------------------------------------------------------------
(* What the places of a thread mean, the part of the inductive invariant   *)
(* that the properties rest on: the store is changed only by the thread    *)
(* that holds its mutex, for a call that is allowed, and an entry found    *)
(* absent stays absent until the call inserts it.                          *)
TaskShape ==
    \A t \in Threads :
        /\ At(t, "idle") <=> task[t] = Nothing
        /\ pc[t] \in {"bind", "inserting"} =>
             /\ task[t].kind = "bind"
             /\ task[t].ctx \in Contexts
             /\ task[t].config \in Valid[task[t].handle]
        /\ pc[t] \in {"lookup", "cloning"} =>
             task[t].kind = "invoke" /\ task[t].ctx \in Contexts
CallShape ==
    \A t \in Threads :
        /\ request[t] # Nothing <=> pc[t] \in Calling \cup {"return"}
        /\ answer[t] # Nothing <=> At(t, "return")
        /\ request[t] # Nothing /\ Writes(request[t]) => request[t].value \in Values
StoreGuarded ==
    \A t \in Threads :
        /\ pc[t] \in {"locked", "absent"} => storeLock = t /\ Allowed(request[t])
        /\ At(t, "absent") =>
             request[t].op = "writeIfAbsent" /\ store[request[t].key] = Absent

(* A binding that an invocation works with, and any it could find, was     *)
(* accepted by a bind for the same environment and tenant on the same      *)
(* handle, whatever other threads bind and invoke; and once accepted there *)
(* is one to be found, also after later binds that were refused.           *)
BindingsAreOwn ==
    /\ \A t \in Threads :
         task[t] # Nothing /\ task[t].kind = "invoke" /\ task[t].config # Unbound =>
            <<task[t].handle, task[t].ctx, task[t].config>> \in accepted
    /\ \A h \in Handles, c \in Contexts :
         IF \E g \in Configs : <<h, c, g>> \in accepted
         THEN <<h, c, bindings[h][BindingKey(c)]>> \in accepted
         ELSE bindings[h][BindingKey(c)] = Unbound

IInv == RuntimeTypeOK /\ TaskShape /\ CallShape /\ StoreGuarded /\ BindingsAreOwn

(* "State is **tenant-scoped** (env + tenant, optional team/user)."        *)
(* (docs/component-developer-guide.md:138): what an invocation reads was   *)
(* written for its own tenant.                                             *)
StateIsTenantScoped ==
    \A t \in Threads :
        /\ At(t, "return") /\ Reads(request[t])
        /\ task[t].kind = "invoke" /\ answer[t] \in Values
        => answer[t] \in {Stored[v] : v \in Payload[task[t].ctx]}

(* Nobody keeps a mutex for ever, although guests may run for ever.        *)
LocksAreReleased ==
    /\ []<>(storeLock = Free)
    /\ \A h \in Handles : []<>(bindingsLock[h] = Free)

(* The calls of all guests on the shared store, write_if_absent with its   *)
(* two steps among them, take effect atomically and only with the right    *)
(* to.                                                                     *)
Atomic == INSTANCE SharedState WITH
    table <- store,
    asked <- request
ImplementsSharedState == Atomic!Spec
=============================================================================
