------------------------- MODULE RuntimeHostProofs -------------------------
(* Proofs about RuntimeHost for every set of threads, handles, contexts,   *)
(* configs, keys and values, every policy and every guest.                 *)
EXTENDS RuntimeHost, TLAPS

USE RuntimeAssumption

LEMMA InitIInv == Init => IInv
<1> SUFFICES ASSUME Init PROVE IInv
  OBVIOUS
<1>1. RuntimeTypeOK
  BY DEF Init, RuntimeTypeOK, Places
<1>2. TaskShape
  BY DEF Init, TaskShape, At
<1>3. CallShape /\ StoreGuarded
  BY DEF Init, CallShape, StoreGuarded, At, Calling
<1>4. BindingsAreOwn
  BY DEF Init, BindingsAreOwn, BindingKeys
<1>5. QED
  BY <1>1, <1>2, <1>3, <1>4 DEF IInv

-----------------------------------------------------------------------------
(* Two contexts have one key only if they are the same.                    *)
LEMMA KeysDiffer ==
    ASSUME NEW c \in Contexts, NEW d \in Contexts, BindingKey(c) = BindingKey(d)
    PROVE  c = d
  BY DEF BindingKey

(* A load, bind or invoke is begun, or returns at once.                    *)
LEMMA StartKeeps ==
    ASSUME IInv, NEW t \in Threads, At(t, "idle"),
           NEW p \in {"bind", "lookup", "guest"}, NEW job \in Tasks, Start(t, p, job),
           p = "bind" => /\ job.kind = "bind" /\ job.ctx \in Contexts
                         /\ job.config \in Valid[job.handle],
           p = "lookup" => job.kind = "invoke" /\ job.ctx \in Contexts,
           job.kind = "invoke" => job.config = Unbound
    PROVE  IInv'
<1> USE DEF Start, Goto, registry, state
<1>1. RuntimeTypeOK'
  BY DEF IInv, RuntimeTypeOK, Places
<1>2. TaskShape'
  BY DEF IInv, RuntimeTypeOK, TaskShape, At
<1>3. CallShape'
  BY DEF IInv, RuntimeTypeOK, CallShape, At, Calling
<1>4. StoreGuarded'
  BY DEF IInv, RuntimeTypeOK, StoreGuarded, At
<1>5. BindingsAreOwn'
  BY DEF IInv, RuntimeTypeOK, BindingsAreOwn
<1>6. QED
  BY <1>1, <1>2, <1>3, <1>4, <1>5 DEF IInv

LEMMA RefuseKeeps ==
    ASSUME IInv, NEW t \in Threads, Refuse(t, "failed") \/ Refuse(t, "invalid")
             \/ Refuse(t, "secret") \/ Refuse(t, "notFound")
    PROVE  IInv'
<1> USE DEF Refuse, registry, state
<1>1. RuntimeTypeOK'
  BY DEF IInv, RuntimeTypeOK
<1>2. TaskShape' /\ CallShape'
  BY DEF IInv, RuntimeTypeOK, TaskShape, CallShape, At, Calling
<1>3. StoreGuarded' /\ BindingsAreOwn'
  BY DEF IInv, RuntimeTypeOK, StoreGuarded, BindingsAreOwn, At
<1>4. QED
  BY <1>1, <1>2, <1>3 DEF IInv

LEMMA RequestKeeps ==
    ASSUME IInv, NEW t \in Threads, Request(t)
    PROVE  IInv'
<1>1. CASE \E h \in Handles : Load(t, h)
  BY <1>1, StartKeeps, RefuseKeeps DEF Load, Tasks, Tenants
<1>2. ASSUME NEW h \in Handles, NEW c \in Contexts, NEW config \in Configs,
             NEW secrets \in BOOLEAN, Bind(t, h, c, config, secrets)
      PROVE  IInv'
  BY <1>2, StartKeeps, RefuseKeeps DEF Bind, Tasks, Tenants
<1>3. ASSUME NEW h \in Handles, NEW c \in Contexts, NEW exported \in BOOLEAN,
             Invoke(t, h, c, exported)
      PROVE  IInv'
  BY <1>3, StartKeeps, RefuseKeeps DEF Invoke, Tasks, Tenants
<1>4. QED
  BY <1>1, <1>2, <1>3 DEF Request

-----------------------------------------------------------------------------
(* A load, bind or invoke that ends and leaves the bindings alone.         *)
LEMMA EndKeeps ==
    ASSUME IInv, NEW t \in Threads, NEW how \in {"ok", "failed", "unbound"}, End(t, how),
           loaded' \subseteq Handles,
           \/ pc[t] \in {"guest", "cloning"} /\ UNCHANGED <<storeLock, request, answer>>
           \/ /\ At(t, "return")
              /\ storeLock' = IF storeLock = t THEN Free ELSE storeLock
              /\ request' = [request EXCEPT ![t] = Nothing]
              /\ answer' = [answer EXCEPT ![t] = Nothing],
           UNCHANGED <<bindings, accepted, store>>
    PROVE  IInv'
<1> USE DEF End, Goto, DropBindingsGuard
<1>1. RuntimeTypeOK'
  BY DEF IInv, RuntimeTypeOK, Places
<1>2. TaskShape'
  BY DEF IInv, RuntimeTypeOK, TaskShape, At
<1>3. CallShape'
  BY DEF IInv, RuntimeTypeOK, CallShape, At, Calling, Writes
<1>4. StoreGuarded'
  BY DEF IInv, RuntimeTypeOK, StoreGuarded, At, Allowed, Reads, Writes
<1>5. BindingsAreOwn'
  BY DEF IInv, RuntimeTypeOK, BindingsAreOwn, BindingKey
<1>6. QED
  BY <1>1, <1>2, <1>3, <1>4, <1>5 DEF IInv

LEMMA GuestKeeps ==
    ASSUME IInv, NEW t \in Threads, Guest(t)
    PROVE  IInv'
<1> USE DEF registry, state
<1>1. CASE GuestReturns(t)
  <2>1. task[t] \in Tasks
    BY <1>1 DEF GuestReturns, IInv, RuntimeTypeOK, TaskShape, At
  <2>2. loaded' \subseteq Handles
    BY <1>1, <2>1 DEF GuestReturns, IInv, RuntimeTypeOK, Tasks
  <2>3. QED
    BY <1>1, <2>2, EndKeeps DEF GuestReturns, At
<1>2. CASE GuestFails(t)
  <2>1. loaded' \subseteq Handles
    BY <1>2 DEF GuestFails, IInv, RuntimeTypeOK
  <2>2. QED
    BY <1>2, <2>1, EndKeeps DEF GuestFails, At
<1>3. ASSUME NEW op \in Operations, NEW k \in Keys, NEW v \in Values \cup {Nothing},
             HostCall(t, op, k, v)
      PROVE  IInv'
  <2> DEFINE r == [op |-> op, key |-> k, value |-> v, rights |-> Rights[task[t].handle]]
  <2>1. task[t] \in Tasks
    BY <1>3 DEF HostCall, IInv, RuntimeTypeOK, TaskShape, At
  <2>2. r \in Requests
    BY <2>1 DEF Tasks, Requests
  <2>3. Writes(r) => r.value \in Values
    BY <1>3, <2>1 DEF HostCall, Tasks, Writes
  <2>4. /\ request' = [request EXCEPT ![t] = r]
        /\ pc[t] = "guest" /\ pc' = [pc EXCEPT ![t] = "call"]
        /\ UNCHANGED <<registry, state, task, answer, outcome>>
    BY <1>3 DEF HostCall, At, Goto
  <2> HIDE DEF r
  <2>5. RuntimeTypeOK'
    BY <2>2, <2>4 DEF IInv, RuntimeTypeOK, Places, Calling
  <2>6. TaskShape'
    BY <2>4 DEF IInv, RuntimeTypeOK, TaskShape, At
  <2>7. CallShape'
    <3>1. request'[t] = r /\ r # Nothing
      BY <2>2, <2>4 DEF IInv, RuntimeTypeOK
    <3>2. QED
      BY <2>3, <2>4, <3>1 DEF IInv, RuntimeTypeOK, CallShape, At, Calling, Writes
  <2>8. StoreGuarded'
    BY <2>4 DEF IInv, RuntimeTypeOK, StoreGuarded, At, Allowed, Reads, Writes
  <2>9. BindingsAreOwn'
    BY <2>4 DEF IInv, BindingsAreOwn, BindingKey
  <2>10. QED
    BY <2>5, <2>6, <2>7, <2>8, <2>9 DEF IInv
<1>4. QED
  BY <1>1, <1>2, <1>3 DEF Guest

-----------------------------------------------------------------------------
LEMMA LockBindingsKeeps ==
    ASSUME IInv, NEW t \in Threads, LockBindings(t)
    PROVE  IInv'
<1> USE DEF LockBindings, Goto, At, state
<1>1. task[t] \in Tasks
  BY DEF IInv, RuntimeTypeOK, TaskShape
<1>2. RuntimeTypeOK'
  BY <1>1 DEF IInv, RuntimeTypeOK, Places, Tasks
<1>3. TaskShape'
  BY DEF IInv, RuntimeTypeOK, TaskShape
<1>4. CallShape'
  BY DEF IInv, RuntimeTypeOK, CallShape, Calling, Writes
<1>5. StoreGuarded'
  BY DEF IInv, RuntimeTypeOK, StoreGuarded, Allowed, Reads, Writes
<1>6. BindingsAreOwn'
  BY DEF IInv, BindingsAreOwn, BindingKey
<1>7. QED
  BY <1>2, <1>3, <1>4, <1>5, <1>6 DEF IInv

LEMMA InsertBindingKeeps ==
    ASSUME IInv, NEW t \in Threads, InsertBinding(t)
    PROVE  IInv'
<1> DEFINE h == task[t].handle
           c == task[t].ctx
           g == task[t].config
<1> USE DEF state
<1>1. /\ task[t] \in Tasks /\ h \in Handles /\ c \in Contexts
      /\ g \in Valid[h] /\ g \in Configs
  BY DEF IInv, RuntimeTypeOK, TaskShape, At, Tasks, InsertBinding
<1>2. /\ pc[t] = "inserting"
      /\ bindings' = [bindings EXCEPT ![h] = [@ EXCEPT ![BindingKey(c)] = g]]
      /\ accepted' = accepted \cup {<<h, c, g>>}
      /\ End(t, "ok")
      /\ UNCHANGED <<loaded, state, request, answer>>
  BY DEF InsertBinding, At
<1> HIDE DEF h, c, g
<1>3. RuntimeTypeOK'
  <2>1. BindingKey(c) \in BindingKeys
    BY <1>1 DEF BindingKeys
  <2>2. \A i \in Handles, k \in BindingKeys :
            bindings'[i][k] = IF i = h /\ k = BindingKey(c) THEN g ELSE bindings[i][k]
    BY <1>1, <1>2, <2>1 DEF IInv, RuntimeTypeOK
  <2>3. bindings' \in [Handles -> [BindingKeys -> Configs \cup {Unbound}]]
    BY <1>1, <1>2, <2>1 DEF IInv, RuntimeTypeOK
  <2>4. \A i \in Handles, k \in BindingKeys : bindings'[i][k] \in Valid[i] \cup {Unbound}
    <3>1. \A i \in Handles, k \in BindingKeys : bindings[i][k] \in Valid[i] \cup {Unbound}
      BY DEF IInv, RuntimeTypeOK
    <3>2. QED
      BY <1>1, <2>2, <3>1
  <2>5. accepted' \subseteq Handles \X Contexts \X Configs
    BY <1>1, <1>2 DEF IInv, RuntimeTypeOK
  <2>6. QED
    BY <1>2, <2>3, <2>4, <2>5 DEF IInv, RuntimeTypeOK, End, Goto, DropBindingsGuard, Places
<1>4. TaskShape'
  BY <1>2 DEF IInv, RuntimeTypeOK, TaskShape, At, End, Goto
<1>5. CallShape'
  BY <1>2 DEF IInv, RuntimeTypeOK, CallShape, At, End, Goto, Calling, Writes
<1>6. StoreGuarded'
  BY <1>2 DEF IInv, RuntimeTypeOK, StoreGuarded, At, End, Goto, Allowed, Reads, Writes
<1>7. BindingsAreOwn'
  <2>1. ASSUME NEW i \in Handles, NEW d \in Contexts
        PROVE  IF \E f \in Configs : <<i, d, f>> \in accepted'
               THEN <<i, d, bindings'[i][BindingKey(d)]>> \in accepted'
               ELSE bindings'[i][BindingKey(d)] = Unbound
    <3>1. BindingKey(c) \in BindingKeys /\ BindingKey(d) \in BindingKeys
      BY <1>1 DEF BindingKeys
    <3>2. CASE i = h /\ d = c
      <4>1. bindings'[i][BindingKey(d)] = g
        BY <1>1, <1>2, <3>1, <3>2 DEF IInv, RuntimeTypeOK
      <4>2. QED
        BY <1>1, <1>2, <3>2, <4>1
    <3>3. CASE ~(i = h /\ d = c)
      <4>1. i # h \/ BindingKey(d) # BindingKey(c)
        BY <1>1, <3>3, KeysDiffer
      <4>2. bindings'[i][BindingKey(d)] = bindings[i][BindingKey(d)]
        BY <1>1, <1>2, <3>1, <4>1 DEF IInv, RuntimeTypeOK
      <4>3. \A f : <<i, d, f>> \in accepted' <=> <<i, d, f>> \in accepted
        BY <1>2, <3>3
      <4>4. QED
        BY <4>2, <4>3 DEF IInv, BindingsAreOwn
    <3>4. QED
      BY <3>2, <3>3
  <2>2. ASSUME NEW u \in Threads, task'[u] # Nothing, task'[u].kind = "invoke",
               task'[u].config # Unbound
        PROVE  <<task'[u].handle, task'[u].ctx, task'[u].config>> \in accepted'
    <3>1. u # t /\ task'[u] = task[u]
      BY <1>2, <2>2 DEF End, IInv, RuntimeTypeOK
    <3>2. QED
      BY <1>2, <2>2, <3>1 DEF IInv, BindingsAreOwn
  <2>3. QED
    BY <2>1, <2>2 DEF BindingsAreOwn, BindingKey
<1>8. QED
  BY <1>3, <1>4, <1>5, <1>6, <1>7 DEF IInv

LEMMA CloneBindingKeeps ==
    ASSUME IInv, NEW t \in Threads, CloneBinding(t)
    PROVE  IInv'
<1> DEFINE h == task[t].handle
           c == task[t].ctx
           g == bindings[h][BindingKey(c)]
<1> USE DEF state
<1>1. /\ task[t] \in Tasks /\ task[t].kind = "invoke"
      /\ h \in Handles /\ c \in Contexts
  BY DEF IInv, RuntimeTypeOK, TaskShape, At, Tasks, CloneBinding
<1>2. g \in Configs \cup {Unbound}
  BY <1>1 DEF IInv, RuntimeTypeOK, BindingKeys
<1>3. CASE \E how \in {"unbound", "failed"} : End(t, how)
  <2>1. loaded' \subseteq Handles
    BY DEF CloneBinding, IInv, RuntimeTypeOK
  <2>2. QED
    BY <1>3, <2>1, EndKeeps DEF CloneBinding, At
<1>4. CASE /\ Goto(t, "guest") /\ DropBindingsGuard(t)
           /\ task' = [task EXCEPT ![t].config = g]
           /\ g # Unbound /\ UNCHANGED outcome
  <2>1. /\ pc[t] = "cloning"
        /\ UNCHANGED <<loaded, bindings, accepted, state, request, answer>>
    BY DEF CloneBinding, At
  <2>2. /\ task'[t] \in Tasks /\ task'[t].kind = "invoke" /\ task'[t].config = g
        /\ task'[t].handle = h /\ task'[t].ctx = c
        /\ \A u \in Threads : u # t => task'[u] = task[u]
    BY <1>1, <1>2, <1>4 DEF IInv, RuntimeTypeOK, Tasks
  <2>3. task' \in [Threads -> Tasks \cup {Nothing}]
    BY <1>4, <2>2 DEF IInv, RuntimeTypeOK
  <2> HIDE DEF h, c, g
  <2>4. RuntimeTypeOK'
    BY <1>4, <2>1, <2>3 DEF IInv, RuntimeTypeOK, Places, Goto, DropBindingsGuard
  <2>5. TaskShape'
    <3>1. /\ pc[t] = "cloning" /\ pc' \in [Threads -> Places]
          /\ \A u \in Threads : u # t => pc'[u] = pc[u] /\ task'[u] = task[u]
      BY <1>4, <2>1, <2>2, <2>4 DEF IInv, RuntimeTypeOK, Goto
    <3>2. QED
      BY <1>4, <2>1, <2>2, <3>1 DEF IInv, TaskShape, At, Goto
  <2>6. CallShape'
    BY <1>4, <2>1 DEF IInv, RuntimeTypeOK, CallShape, At, Goto, Calling, Writes
  <2>7. StoreGuarded'
    BY <1>4, <2>1 DEF IInv, RuntimeTypeOK, StoreGuarded, At, Goto, Allowed, Reads, Writes
  <2>8. BindingsAreOwn'
    <3>1. <<h, c, g>> \in accepted
      BY <1>1, <1>4 DEF IInv, BindingsAreOwn, g
    <3>2. QED
      BY <2>1, <2>2, <3>1 DEF IInv, BindingsAreOwn, BindingKey
  <2>9. QED
    BY <2>4, <2>5, <2>6, <2>7, <2>8 DEF IInv
<1>5. QED
  BY <1>3, <1>4 DEF CloneBinding

-----------------------------------------------------------------------------
(* A host call, from the locking of the store to its answer: the effects   *)
(* on IInv of an action that moves t on within its call.                   *)
LEMMA CallTypes ==
    ASSUME IInv, NEW t \in Threads, pc[t] \in Calling
    PROVE  /\ request[t] \in Requests /\ task[t] \in Tasks
           /\ request[t].key \in Keys
           /\ Writes(request[t]) => request[t].value \in Values
           /\ answer[t] = Nothing
  BY DEF IInv, RuntimeTypeOK, CallShape, TaskShape, At, Calling, Requests

LEMMA AnswerKeeps ==
    ASSUME IInv, NEW t \in Threads, pc[t] \in Calling,
           NEW a \in Answers, Answer(t, a),
           UNCHANGED store \/ (/\ pc[t] \in {"locked", "absent"}
                               /\ store' \in [Keys -> Values \cup {Absent}])
    PROVE  IInv'
<1>1. /\ answer' = [answer EXCEPT ![t] = a]
      /\ pc' = [pc EXCEPT ![t] = "return"]
      /\ UNCHANGED <<registry, storeLock, task, request, outcome>>
  BY DEF Answer, Goto
<1> USE DEF registry
<1>2. RuntimeTypeOK'
  BY <1>1 DEF IInv, RuntimeTypeOK, Places
<1>3. TaskShape'
  BY <1>1 DEF IInv, RuntimeTypeOK, TaskShape, At, Calling
<1>4. CallShape'
  BY <1>1 DEF IInv, RuntimeTypeOK, CallShape, At, Calling, Writes
<1>5. StoreGuarded'
  <2>1. ASSUME NEW u \in Threads, pc'[u] \in {"locked", "absent"}
        PROVE  /\ u # t /\ pc[u] = pc'[u] /\ UNCHANGED store
    BY <1>1, <2>1 DEF IInv, RuntimeTypeOK, StoreGuarded
  <2>2. QED
    BY <1>1, <2>1 DEF IInv, RuntimeTypeOK, StoreGuarded, At, Allowed, Reads, Writes
<1>6. BindingsAreOwn'
  BY <1>1 DEF IInv, BindingsAreOwn, BindingKey
<1>7. QED
  BY <1>2, <1>3, <1>4, <1>5, <1>6 DEF IInv

LEMMA PutType ==
    ASSUME IInv, NEW t \in Threads, pc[t] \in Calling, Writes(request[t]), Put(t)
    PROVE  store' \in [Keys -> Values \cup {Absent}]
  BY CallTypes DEF Put, IInv, RuntimeTypeOK

(* A step within the call that answers nothing yet.                        *)
LEMMA ProceedKeeps ==
    ASSUME IInv, NEW t \in Threads, LockStore(t) \/ (/\ Locked(t, {"writeIfAbsent"})
                                                     /\ Entry(t) = Absent
                                                     /\ Goto(t, "absent")
                                                     /\ UNCHANGED <<registry, state, task,
                                                            request, answer, outcome>>)
    PROVE  IInv'
<1> USE DEF LockStore, Locked, Entry, Goto, At, registry, state
<1>1. RuntimeTypeOK'
  BY DEF IInv, RuntimeTypeOK, Places, Calling
<1>2. TaskShape'
  BY DEF IInv, RuntimeTypeOK, TaskShape
<1>3. CallShape'
  BY DEF IInv, RuntimeTypeOK, CallShape, Calling, Writes
<1>4. StoreGuarded'
  BY DEF IInv, RuntimeTypeOK, StoreGuarded, Allowed, Reads, Writes
<1>5. BindingsAreOwn'
  BY DEF IInv, BindingsAreOwn, BindingKey
<1>6. QED
  BY <1>1, <1>2, <1>3, <1>4, <1>5 DEF IInv

LEMMA CallKeeps ==
    ASSUME IInv, NEW t \in Threads,
           \/ Deny(t) \/ LockStore(t) \/ ReadState(t) \/ KvGet(t) \/ WriteState(t)
           \/ DeleteState(t) \/ FindState(t) \/ InsertAbsent(t)
    PROVE  IInv'
<1>1. CASE Deny(t)
  BY <1>1, AnswerKeeps DEF Deny, At, Calling, Answers
<1>2. CASE LockStore(t)
  BY <1>2, ProceedKeeps
<1>3. CASE ReadState(t) \/ KvGet(t)
  <2>1. pc[t] = "locked"
    BY <1>3 DEF ReadState, KvGet, Locked, At
  <2>2. Entry(t) \in Values \cup {Absent}
    BY <2>1, CallTypes DEF Entry, IInv, RuntimeTypeOK, Calling
  <2>3. QED
    BY <1>3, <2>1, <2>2, AnswerKeeps DEF ReadState, KvGet, Answers, Calling
<1>4. CASE WriteState(t)
  <2>1. pc[t] = "locked" /\ Writes(request[t])
    BY <1>4 DEF WriteState, Locked, At, Writes
  <2>2. store' \in [Keys -> Values \cup {Absent}]
    BY <1>4, <2>1, PutType DEF WriteState, Calling
  <2>3. QED
    BY <1>4, <2>1, <2>2, AnswerKeeps DEF WriteState, Answers, Calling
<1>5. CASE DeleteState(t)
  <2>1. pc[t] = "locked"
    BY <1>5 DEF DeleteState, Locked, At
  <2>2. store' \in [Keys -> Values \cup {Absent}]
    BY <1>5, <2>1, CallTypes DEF DeleteState, Calling, IInv, RuntimeTypeOK
  <2>3. QED
    BY <1>5, <2>1, <2>2, AnswerKeeps DEF DeleteState, Answers, Calling
<1>6. CASE FindState(t)
  <2>1. CASE Entry(t) # Absent
    BY <1>6, <2>1, AnswerKeeps DEF FindState, Locked, At, Answers, Calling
  <2>2. CASE Entry(t) = Absent
    BY <1>6, <2>2, ProceedKeeps DEF FindState, state
  <2>3. QED
    BY <2>1, <2>2
<1>7. CASE InsertAbsent(t)
  <2>1. pc[t] = "absent" /\ Writes(request[t])
    BY <1>7 DEF InsertAbsent, At, Writes, IInv, StoreGuarded
  <2>2. store' \in [Keys -> Values \cup {Absent}]
    BY <1>7, <2>1, PutType DEF InsertAbsent, Calling
  <2>3. QED
    BY <1>7, <2>1, <2>2, AnswerKeeps DEF InsertAbsent, Answers, Calling
<1>8. QED
  BY <1>1, <1>2, <1>3, <1>4, <1>5, <1>6, <1>7

LEMMA ReturnKeeps ==
    ASSUME IInv, NEW t \in Threads, Return(t)
    PROVE  IInv'
<1> USE DEF Return
<1>1. CASE answer[t] = "trap"
  <2>1. loaded' \subseteq Handles
    BY <1>1 DEF IInv, RuntimeTypeOK
  <2>2. QED
    BY <1>1, <2>1, EndKeeps
<1>2. CASE answer[t] # "trap"
  <2> USE <1>2 DEF Goto, At, registry
  <2>1. RuntimeTypeOK'
    BY DEF IInv, RuntimeTypeOK, Places
  <2>2. TaskShape'
    BY DEF IInv, RuntimeTypeOK, TaskShape
  <2>3. CallShape'
    BY DEF IInv, RuntimeTypeOK, CallShape, Calling, Writes
  <2>4. StoreGuarded'
    BY DEF IInv, RuntimeTypeOK, StoreGuarded, Allowed, Reads, Writes
  <2>5. BindingsAreOwn'
    BY DEF IInv, BindingsAreOwn, BindingKey
  <2>6. QED
    BY <2>1, <2>2, <2>3, <2>4, <2>5 DEF IInv
<1>3. QED
  BY <1>1, <1>2

-----------------------------------------------------------------------------
LEMMA StepIInv == IInv /\ [Next]_vars => IInv'
<1> SUFFICES ASSUME IInv, [Next]_vars PROVE IInv'
  OBVIOUS
<1>1. ASSUME NEW t \in Threads, Request(t) PROVE IInv'
  BY <1>1, RequestKeeps
<1>2. ASSUME NEW t \in Threads, Guest(t) PROVE IInv'
  BY <1>2, GuestKeeps
<1>3. ASSUME NEW t \in Threads, HostStep(t) PROVE IInv'
  BY <1>3, LockBindingsKeeps, InsertBindingKeeps, CloneBindingKeeps, CallKeeps, ReturnKeeps
     DEF HostStep
<1>4. CASE UNCHANGED vars
  <2> USE <1>4 DEF vars, registry, state, thread
  <2>1. RuntimeTypeOK'
    BY DEF IInv, RuntimeTypeOK
  <2>2. (TaskShape /\ CallShape /\ StoreGuarded)'
    BY DEF IInv, TaskShape, CallShape, StoreGuarded, At, Calling, Writes, Reads, Allowed
  <2>3. BindingsAreOwn'
    BY DEF IInv, BindingsAreOwn, BindingKey
  <2>4. QED
    BY <2>1, <2>2, <2>3 DEF IInv
<1>5. QED
  BY <1>1, <1>2, <1>3, <1>4 DEF Next

(* The inductive invariant holds in every behaviour.                       *)
THEOREM Invariance == Spec => []IInv
  BY InitIInv, StepIInv, PTL DEF Spec

(* Types, for any number of threads and handles.                           *)
THEOREM TypeCorrect == Spec => []RuntimeTypeOK
<1>1. IInv => RuntimeTypeOK
  BY DEF IInv
<1>2. QED
  BY <1>1, Invariance, PTL

(* An invocation works with a config that a bind for its own environment   *)
(* and tenant was given and the component's schema accepted, however many  *)
(* threads bind and invoke the handle at the same time.                    *)
THEOREM OwnBindings == Spec => []BindingsAreOwn
<1>1. IInv => BindingsAreOwn
  BY DEF IInv
<1>2. QED
  BY <1>1, Invariance, PTL

-----------------------------------------------------------------------------
(* The refinement.  A host call is asked for when the guest makes it,      *)
(* settled when it is denied or when its last step under the mutex runs,   *)
(* and returned from when it returns; all else leaves the shared state     *)
(* alone.                                                                  *)
LEMMA InitAtomic == Init => Atomic!Init
  BY DEF Init, Atomic!Init

LEMMA RightsAgree ==
    ASSUME NEW r \in Requests
    PROVE  Allowed(r) <=> Atomic!RightFor(r.op) \in r.rights
  BY DEF Requests, Operations, Allowed, Reads, Writes, Atomic!RightFor, Atomic!Reads,
         Atomic!Writes

LEMMA AskStep ==
    ASSUME IInv, NEW t \in Threads, NEW op \in Operations, NEW k \in Keys,
           NEW v \in Values \cup {Nothing}, HostCall(t, op, k, v)
    PROVE  Atomic!Ask(t)
<1> DEFINE r == [op |-> op, key |-> k, value |-> v, rights |-> Rights[task[t].handle]]
<1>1. task[t] \in Tasks
  BY DEF HostCall, IInv, RuntimeTypeOK, TaskShape, At
<1>2. r \in Atomic!Requests
  BY <1>1 DEF Tasks, Operations, Atomic!Requests, Atomic!Reads, Atomic!Writes
<1>3. request' = [request EXCEPT ![t] = r] /\ UNCHANGED <<store, answer>>
  BY DEF HostCall, state
<1>4. request[t] = Nothing
  BY DEF HostCall, At, IInv, CallShape, Calling
<1>5. request'[t] = r
  BY <1>3 DEF IInv, RuntimeTypeOK
<1>6. QED
  BY <1>2, <1>3, <1>4, <1>5 DEF Atomic!Ask

(* What the steps under the mutex do is what the table does at once.       *)
LEMMA SettleStep ==
    ASSUME IInv, NEW t \in Threads, pc[t] \in {"locked", "absent"},
           \/ ReadState(t) \/ KvGet(t) \/ WriteState(t) \/ DeleteState(t)
           \/ FindState(t) /\ Entry(t) # Absent
           \/ InsertAbsent(t)
    PROVE  Atomic!Settle(t)
<1> DEFINE r == request[t]
<1>1. /\ r \in Requests /\ r.key \in Keys /\ answer[t] = Nothing
      /\ Writes(r) => r.value \in Values
  BY CallTypes DEF Calling
<1>2. r # Nothing
  BY DEF IInv, CallShape, Calling
<1>3. Atomic!RightFor(r.op) \in r.rights
  BY <1>1, RightsAgree DEF IInv, StoreGuarded
<1>4. request' = request
  BY DEF ReadState, KvGet, WriteState, DeleteState, FindState, InsertAbsent, Answer
<1>5. /\ store' = [store EXCEPT ![r.key] = Atomic!After(r, @)]
      /\ answer' = [answer EXCEPT ![t] = Atomic!Reply(r, store[r.key])]
  <2> USE DEF Atomic!After, Atomic!Reply, Answer
  <2>0. store \in [Keys -> Values \cup {Absent}]
    BY DEF IInv, RuntimeTypeOK
  <2>1. CASE ReadState(t) \/ KvGet(t)
    <3>1. r.op \in {"read", "kvGet"} /\ store' = store
      BY <2>1 DEF ReadState, KvGet, Locked
    <3>2. Atomic!After(r, store[r.key]) = store[r.key]
      BY <3>1
    <3>3. QED
      BY <2>0, <2>1, <3>1, <3>2 DEF ReadState, KvGet, Locked, Entry
  <2>2. CASE WriteState(t)
    BY <2>2 DEF WriteState, Locked, Put
  <2>3. CASE DeleteState(t)
    BY <2>3 DEF DeleteState, Locked
  <2>4. CASE FindState(t) /\ Entry(t) # Absent
    <3>1. r.op = "writeIfAbsent" /\ store' = store /\ store[r.key] # Absent
      BY <2>4 DEF FindState, Locked, Entry
    <3>2. Atomic!After(r, store[r.key]) = store[r.key]
      BY <3>1
    <3>3. QED
      BY <2>0, <2>4, <3>1, <3>2 DEF FindState
  <2>5. CASE InsertAbsent(t)
    <3>1. r.op = "writeIfAbsent" /\ store[r.key] = Absent
      BY <2>5 DEF InsertAbsent, IInv, StoreGuarded
    <3>2. QED
      BY <2>5, <3>1 DEF InsertAbsent, Put
  <2>6. QED
    BY <2>1, <2>2, <2>3, <2>4, <2>5
<1>6. QED
  BY <1>1, <1>2, <1>3, <1>4, <1>5 DEF Atomic!Settle

LEMMA DenyStep ==
    ASSUME IInv, NEW t \in Threads, Deny(t)
    PROVE  Atomic!Settle(t)
<1>1. /\ request[t] \in Requests /\ request[t] # Nothing /\ answer[t] = Nothing
  BY CallTypes DEF Deny, At, IInv, CallShape, Calling
<1>2. Atomic!RightFor(request[t].op) \notin request[t].rights
  BY <1>1, RightsAgree DEF Deny
<1>3. /\ answer' = [answer EXCEPT ![t] = Atomic!Denial(request[t].op)]
      /\ UNCHANGED <<store, request>>
  BY DEF Deny, Answer, Atomic!Denial
<1>4. QED
  BY <1>1, <1>2, <1>3 DEF Atomic!Settle

LEMMA StepAtomic == IInv /\ [Next]_vars => [Atomic!Next]_(Atomic!vars)
<1> SUFFICES ASSUME IInv, [Next]_vars PROVE [Atomic!Next]_(Atomic!vars)
  OBVIOUS
<1> USE DEF Atomic!vars
<1>1. ASSUME NEW t \in Threads, Request(t) PROVE UNCHANGED Atomic!vars
  BY <1>1 DEF Request, Load, Bind, Invoke, Start, Refuse, state
<1>2. ASSUME NEW t \in Threads, Guest(t) PROVE [Atomic!Next]_(Atomic!vars)
  <2>1. CASE GuestReturns(t) \/ GuestFails(t)
    BY <2>1 DEF GuestReturns, GuestFails, state
  <2>2. QED
    BY <1>2, <2>1, AskStep DEF Guest, Atomic!Next
<1>3. ASSUME NEW t \in Threads, HostStep(t) PROVE [Atomic!Next]_(Atomic!vars)
  <2>1. CASE LockBindings(t) \/ InsertBinding(t) \/ CloneBinding(t)
    BY <2>1 DEF LockBindings, InsertBinding, CloneBinding, state
  <2>2. CASE LockStore(t) \/ (FindState(t) /\ Entry(t) = Absent)
    BY <2>2 DEF LockStore, FindState
  <2>3. CASE Deny(t)
    BY <2>3, DenyStep DEF Atomic!Next
  <2>4. CASE \/ ReadState(t) \/ KvGet(t) \/ WriteState(t) \/ DeleteState(t)
             \/ FindState(t) /\ Entry(t) # Absent
             \/ InsertAbsent(t)
    BY <2>4, SettleStep
       DEF Atomic!Next, ReadState, KvGet, WriteState, DeleteState, FindState, InsertAbsent,
           Locked, At
  <2>5. CASE Return(t)
    <3>1. answer[t] # Nothing
      BY <2>5 DEF Return, IInv, CallShape
    <3>2. QED
      BY <2>5, <3>1 DEF Return, Atomic!Next, Atomic!Return
  <2>6. QED
    BY <1>3, <2>1, <2>2, <2>3, <2>4, <2>5 DEF HostStep
<1>4. CASE UNCHANGED vars
  BY <1>4 DEF vars, state, thread
<1>5. QED
  BY <1>1, <1>2, <1>3, <1>4 DEF Next

(* The calls of any number of guests on the shared store take effect one   *)
(* at a time and only with the right to: of the write_if_absent calls for  *)
(* a key, those answered "created" have a delete between them.             *)
THEOREM StateCallsAtomic == Spec => ImplementsSharedState
  BY InitAtomic, StepAtomic, Invariance, PTL DEF Spec, ImplementsSharedState, Atomic!Spec
=============================================================================
