------------------------- MODULE ArtifactStoreProofs -------------------------
(* Proofs about ArtifactStore for every set of clients, locators, sources  *)
(* and contents, any number of faults and of changes of the sources.       *)
EXTENDS ArtifactStore, TLAPS

USE StoreAssumption

(* What Verify accepts matches the pin and needs no signature.             *)
LEMMA VerifyAccepts ==
    ASSUME NEW p \in Policies, NEW b \in Bytes, Verify(p, b) = "ok"
    PROVE  p.pin \in {NoPin, b} /\ ~p.cosign
  BY DEF Verify, Policy

LEMMA VerifyType ==
    ASSUME NEW p, NEW b
    PROVE  Verify(p, b) \in {"ok"} \cup Errors
  BY DEF Verify, Errors

(* A pin the caller gave names a content.                                  *)
LEMMA PinIsContent ==
    ASSUME NEW p \in Policies, p.pin # NoPin
    PROVE  p.pin \in Bytes
  BY DEF Policy, Bytes

LEMMA ReadableType ==
    ASSUME NEW b \in Bytes, NEW w
    PROVE  Readable(b, w) \subseteq Bytes
  BY DEF Readable, Bytes

LEMMA OverwriteType ==
    ASSUME NEW old \in Bytes \cup {NoFile}, NEW b \in Bytes
    PROVE  Overwrite(old, b) \subseteq Bytes
  BY DEF Overwrite, Bytes

LEMMA CutShortType ==
    ASSUME NEW old \in Bytes \cup {NoFile}
    PROVE  CutShort(old) \subseteq Bytes \cup {NoFile}
  BY DEF CutShort, Bytes

-----------------------------------------------------------------------------
LEMMA InitIInv == Init => IInv
<1> SUFFICES ASSUME Init PROVE IInv
  OBVIOUS
<1>1. \E k \in Call : TRUE
  <2>1. PICK l \in Locators, p \in Policies : TRUE
    OBVIOUS
  <2>2. [locator |-> l, policy |-> p] \in Call
    BY DEF Call
  <2>3. QED
    BY <2>2
<1>2. (CHOOSE k \in Call : TRUE) \in Call
  BY <1>1
<1>3. TypeOK
  BY <1>2 DEF Init, TypeOK, Bytes, Places, Outcome, NoOutcome
<1>4. PinnedCalls /\ HeldVerified /\ ResultsVerified /\ DigestFilesFilled
  BY DEF Init, PinnedCalls, HeldVerified, ResultsVerified, DigestFilesFilled, Persisting, Succeeded, NoOutcome
<1>5. QED
  BY <1>3, <1>4 DEF IInv

-----------------------------------------------------------------------------
(* Type correctness, action by action.                                     *)
LEMMA ReturnType ==
    ASSUME TypeOK, NEW c \in Clients, NEW b \in Bytes, NEW p \in Bytes, Return(c, b, p)
    PROVE  pc' \in [Clients -> Places] /\ held' \in [Clients -> Bytes]
           /\ result' \in [Clients -> Outcome]
  BY DEF Return, Finish, TypeOK, Places, Outcome, Bytes

LEMMA FailType ==
    ASSUME TypeOK, NEW c \in Clients, NEW e \in Errors, Fail(c, e)
    PROVE  pc' \in [Clients -> Places] /\ held' \in [Clients -> Bytes]
           /\ result' \in [Clients -> Outcome]
  BY DEF Fail, Finish, NoOutcome, TypeOK, Places, Outcome, Bytes

LEMMA AcceptType ==
    ASSUME TypeOK, NEW c \in Clients, NEW b \in Bytes, Accept(c, b)
    PROVE  pc' \in [Clients -> Places] /\ held' \in [Clients -> Bytes]
           /\ result' \in [Clients -> Outcome]
<1>1. CASE Verify(call[c].policy, b) = "ok"
  <2>1. /\ pc' = [pc EXCEPT ![c] = "openDigest"] /\ held' = [held EXCEPT ![c] = b]
        /\ result' = result
    BY <1>1 DEF Accept
  <2>2. QED
    BY <2>1 DEF TypeOK, Places
<1>2. CASE Verify(call[c].policy, b) # "ok"
  BY <1>2, VerifyType, FailType DEF Accept
<1>3. QED
  BY <1>1, <1>2

LEMMA TypeStep ==
    ASSUME TypeOK, PinnedCalls, [Next]_vars
    PROVE  TypeOK'
<1> USE DEF files, origin
<1>1. ASSUME NEW c \in Clients, NEW l \in Locators, NEW p \in Policies, Fetch(c, l, p)
      PROVE  TypeOK'
  BY <1>1 DEF TypeOK, Fetch, Places, Call, Outcome, NoOutcome, Bytes
<1>2. ASSUME NEW c \in Clients, PinnedMiss(c) PROVE TypeOK'
  BY <1>2 DEF TypeOK, PinnedMiss, Places
<1>3. ASSUME NEW c \in Clients, PinnedHit(c) PROVE TypeOK'
  <2> DEFINE pin == call[c].policy.pin
             pending == DigestPending(pin)
  <2>1. pin \in Bytes
    BY <1>3, PinIsContent DEF PinnedHit, PinnedCalls, TypeOK, Call
  <2>2. digestFile[pin] \in Bytes
    BY <1>3, <2>1 DEF PinnedHit, TypeOK
  <2> HIDE DEF pin, pending
  <2>3. PICK b \in Bytes :
          IF Verify(call[c].policy, b) = "ok"
          THEN Return(c, b, pin) ELSE Fail(c, Verify(call[c].policy, b))
    <3>1. PICK b \in Readable(digestFile[pin], pending) :
            IF Verify(call[c].policy, b) = "ok"
            THEN Return(c, b, pin) ELSE Fail(c, Verify(call[c].policy, b))
      BY <1>3 DEF PinnedHit, pin, pending
    <3>2. b \in Bytes
      BY <2>2, <3>1, ReadableType
    <3>3. QED
      BY <3>1, <3>2
  <2>4. pc' \in [Clients -> Places] /\ held' \in [Clients -> Bytes]
        /\ result' \in [Clients -> Outcome]
    <3>1. CASE Verify(call[c].policy, b) = "ok"
      BY <2>1, <2>3, <3>1, ReturnType
    <3>2. CASE Verify(call[c].policy, b) # "ok"
      BY <2>3, <3>2, VerifyType, FailType
    <3>3. QED
      BY <3>1, <3>2
  <2>5. QED
    BY <1>3, <2>4 DEF PinnedHit, TypeOK
<1>4. ASSUME NEW c \in Clients, CachedMiss(c) PROVE TypeOK'
  BY <1>4 DEF TypeOK, CachedMiss, Places
<1>5. ASSUME NEW c \in Clients, CachedHit(c) PROVE TypeOK'
  <2> DEFINE l == call[c].locator
             pending == LocatorPending(l)
  <2>1. locatorFile[l] \in Bytes
    BY <1>5 DEF CachedHit, TypeOK, Call
  <2> HIDE DEF l, pending
  <2>2. PICK b \in Readable(locatorFile[l], pending) : Accept(c, b)
    BY <1>5 DEF CachedHit, l, pending
  <2>3. b \in Bytes
    BY <2>1, <2>2, ReadableType
  <2>4. QED
    BY <1>5, <2>2, <2>3, AcceptType DEF CachedHit, TypeOK
<1>6. ASSUME NEW c \in Clients, ReadOrigin(c) PROVE TypeOK'
  <2> DEFINE b == source[Resolve[c][call[c].locator]]
  <2>1. b \in Bytes \cup {NoFile}
    BY DEF TypeOK, Call, Bytes
  <2>2. IF b = NoFile THEN Fail(c, "io") ELSE Accept(c, b)
    BY <1>6 DEF ReadOrigin
  <2> HIDE DEF b
  <2>3. CASE b = NoFile
    BY <1>6, <2>2, <2>3, FailType DEF ReadOrigin, TypeOK, Errors
  <2>4. CASE b # NoFile
    BY <1>6, <2>1, <2>2, <2>4, AcceptType DEF ReadOrigin, TypeOK
  <2>5. QED
    BY <2>3, <2>4
<1>7. ASSUME NEW c \in Clients, OpenDigest(c) PROVE TypeOK'
  BY <1>7 DEF TypeOK, OpenDigest, Places, Bytes
<1>8. ASSUME NEW c \in Clients, WriteDigest(c) PROVE TypeOK'
  BY <1>8, OverwriteType DEF TypeOK, WriteDigest, Places
<1>9. ASSUME NEW c \in Clients, OpenLocator(c) PROVE TypeOK'
  BY <1>9 DEF TypeOK, OpenLocator, Places, Bytes
<1>10. ASSUME NEW c \in Clients, WriteLocator(c) PROVE TypeOK'
  <2>1. locatorFile' \in [Locators -> Bytes \cup {NoFile}]
    BY <1>10, OverwriteType DEF WriteLocator, TypeOK, Call
  <2>2. QED
    BY <1>10, <2>1, ReturnType DEF WriteLocator, TypeOK
<1>11. ASSUME NEW c \in Clients, DigestWriteFails(c) PROVE TypeOK'
  <2>1. digestFile' \in [Bytes -> Bytes \cup {NoFile}]
    BY <1>11, CutShortType DEF DigestWriteFails, TypeOK
  <2>2. QED
    BY <1>11, <2>1, FailType DEF DigestWriteFails, Fault, TypeOK, Errors
<1>12. ASSUME NEW c \in Clients, LocatorWriteFails(c) PROVE TypeOK'
  <2>1. locatorFile' \in [Locators -> Bytes \cup {NoFile}]
    BY <1>12, CutShortType DEF LocatorWriteFails, TypeOK, Call
  <2>2. QED
    BY <1>12, <2>1, ReturnType DEF LocatorWriteFails, Fault, TypeOK
<1>13. ASSUME NEW c \in Clients, Crash(c) PROVE TypeOK'
  <2>1. digestFile' \in [Bytes -> Bytes \cup {NoFile}]
    BY <1>13, CutShortType DEF Crash, TypeOK
  <2>2. locatorFile' \in [Locators -> Bytes \cup {NoFile}]
    <3> DEFINE l == call[c].locator
    <3>1. l \in Locators /\ CutShort(locatorFile[l]) \subseteq Bytes \cup {NoFile}
      BY CutShortType DEF TypeOK, Call
    <3>2. \/ locatorFile' = locatorFile
          \/ \E b \in CutShort(locatorFile[l]) : locatorFile' = [locatorFile EXCEPT ![l] = b]
      BY <1>13 DEF Crash
    <3> HIDE DEF l
    <3>3. QED
      BY <3>1, <3>2 DEF TypeOK
  <2>3. QED
    BY <1>13, <2>1, <2>2 DEF Crash, Fault, TypeOK, Places, Bytes
<1>14. ASSUME NEW s \in Sources, NEW b \in Contents \cup {NoFile}, Publish(s, b)
       PROVE  TypeOK'
  BY <1>14 DEF TypeOK, Publish
<1>15. CASE UNCHANGED vars
  BY <1>15 DEF TypeOK, vars
<1>16. QED
  BY <1>1, <1>2, <1>3, <1>4, <1>5, <1>6, <1>7, <1>8, <1>9, <1>10, <1>11, <1>12, <1>13,
     <1>14, <1>15 DEF Next, Step

-----------------------------------------------------------------------------
(* Only a caller with a pin is at the look-up by digest.                   *)
LEMMA PinnedStep ==
    ASSUME TypeOK, PinnedCalls, [Next]_vars
    PROVE  PinnedCalls'
<1> USE DEF PinnedCalls, TypeOK
<1>1. ASSUME NEW c \in Clients, NEW l \in Locators, NEW p \in Policies, Fetch(c, l, p)
      PROVE  PinnedCalls'
  BY <1>1 DEF Fetch, Call
<1>2. ASSUME NEW c \in Clients, Step(c), call' = call, pc' = [pc EXCEPT ![c] = pc'[c]],
             pc'[c] # "pinned"
      PROVE  PinnedCalls'
  BY <1>2
<1>3. ASSUME NEW c \in Clients, Step(c),
             ~(\E l \in Locators, p \in Policies : Fetch(c, l, p))
      PROVE  call' = call /\ pc' = [pc EXCEPT ![c] = pc'[c]] /\ pc'[c] # "pinned"
  BY <1>3 DEF Step, PinnedMiss, PinnedHit, CachedMiss, CachedHit, ReadOrigin, OpenDigest,
              WriteDigest, OpenLocator, WriteLocator, DigestWriteFails, LocatorWriteFails,
              Crash, Accept, Return, Fail, Finish
<1>4. CASE UNCHANGED <<pc, call>>
  BY <1>4
<1>5. QED
  BY <1>1, <1>2, <1>3, <1>4 DEF Next, Publish, vars

-----------------------------------------------------------------------------
(* Every result comes from bytes the policy of that very call accepted.    *)
VerifiedInv == HeldVerified /\ ResultsVerified

LEMMA ReturnVerified ==
    ASSUME TypeOK, VerifiedInv, NEW c \in Clients, NEW b \in Bytes,
           Verify(call[c].policy, b) = "ok", Return(c, b, b), call' = call
    PROVE  VerifiedInv'
<1>1. call[c].policy.pin \in {NoPin, b} /\ ~call[c].policy.cosign
  BY VerifyAccepts DEF TypeOK, Call
<1>2. HeldVerified'
  BY DEF VerifiedInv, HeldVerified, Persisting, TypeOK, Return, Finish
<1>3. ResultsVerified'
  BY <1>1 DEF VerifiedInv, ResultsVerified, Succeeded, TypeOK, Return, Finish
<1>4. QED
  BY <1>2, <1>3 DEF VerifiedInv

LEMMA FailVerified ==
    ASSUME TypeOK, VerifiedInv, NEW c \in Clients, NEW e, e # "ok", Fail(c, e), call' = call
    PROVE  VerifiedInv'
  BY DEF VerifiedInv, HeldVerified, ResultsVerified, Persisting, Succeeded, TypeOK, Fail, Finish

LEMMA AcceptVerified ==
    ASSUME TypeOK, VerifiedInv, NEW c \in Clients, NEW b \in Bytes, Accept(c, b), call' = call
    PROVE  VerifiedInv'
<1>1. CASE Verify(call[c].policy, b) = "ok"
  <2>1. \A k \in Clients :
          Persisting(k)' => IF k = c THEN held'[k] = b ELSE Persisting(k) /\ held'[k] = held[k]
    BY <1>1 DEF Accept, Persisting, TypeOK
  <2>2. HeldVerified'
    BY <1>1, <2>1 DEF VerifiedInv, HeldVerified
  <2>3. ResultsVerified'
    BY <1>1 DEF Accept, VerifiedInv, ResultsVerified, Succeeded
  <2>4. QED
    BY <2>2, <2>3 DEF VerifiedInv
<1>2. CASE Verify(call[c].policy, b) # "ok"
  BY <1>2, FailVerified DEF Accept
<1>3. QED
  BY <1>1, <1>2

LEMMA VerifiedStep ==
    ASSUME TypeOK, PinnedCalls, VerifiedInv, [Next]_vars
    PROVE  VerifiedInv'
<1>1. ASSUME NEW c \in Clients, NEW l \in Locators, NEW p \in Policies, Fetch(c, l, p)
      PROVE  VerifiedInv'
  BY <1>1 DEF VerifiedInv, HeldVerified, ResultsVerified, Persisting, Succeeded, NoOutcome,
              TypeOK, Fetch
<1>2. ASSUME NEW c \in Clients, PinnedHit(c) PROVE VerifiedInv'
  <2> DEFINE pin == call[c].policy.pin
             pending == DigestPending(pin)
  <2>1. pin # NoPin /\ pin \in Bytes
    BY <1>2, PinIsContent DEF PinnedHit, PinnedCalls, TypeOK, Call
  <2>2. digestFile[pin] \in Bytes
    BY <1>2, <2>1 DEF PinnedHit, TypeOK
  <2> HIDE DEF pending
  <2>3. PICK b \in Readable(digestFile[pin], pending) :
          IF Verify(call[c].policy, b) = "ok"
          THEN Return(c, b, pin) ELSE Fail(c, Verify(call[c].policy, b))
    BY <1>2 DEF PinnedHit, pending
  <2>4. b \in Bytes
    BY <2>2, <2>3, ReadableType
  <2>5. CASE Verify(call[c].policy, b) = "ok"
    <3>1. b = pin
      BY <2>1, <2>4, <2>5, VerifyAccepts DEF TypeOK, Call
    <3>2. QED
      BY <1>2, <2>3, <2>4, <2>5, <3>1, ReturnVerified DEF PinnedHit
  <2>6. CASE Verify(call[c].policy, b) # "ok"
    BY <1>2, <2>3, <2>6, FailVerified DEF PinnedHit
  <2>7. QED
    BY <2>5, <2>6
<1>3. ASSUME NEW c \in Clients, CachedHit(c) PROVE VerifiedInv'
  <2> DEFINE l == call[c].locator
             pending == LocatorPending(l)
  <2>1. locatorFile[l] \in Bytes
    BY <1>3 DEF CachedHit, TypeOK, Call
  <2> HIDE DEF l, pending
  <2>2. PICK b \in Readable(locatorFile[l], pending) : Accept(c, b)
    BY <1>3 DEF CachedHit, l, pending
  <2>3. b \in Bytes
    BY <2>1, <2>2, ReadableType
  <2>4. QED
    BY <1>3, <2>2, <2>3, AcceptVerified DEF CachedHit
<1>4. ASSUME NEW c \in Clients, ReadOrigin(c) PROVE VerifiedInv'
  <2> DEFINE b == source[Resolve[c][call[c].locator]]
  <2>1. b \in Bytes \cup {NoFile}
    BY DEF TypeOK, Call, Bytes
  <2>2. IF b = NoFile THEN Fail(c, "io") ELSE Accept(c, b)
    BY <1>4 DEF ReadOrigin
  <2> HIDE DEF b
  <2>3. QED
    BY <1>4, <2>1, <2>2, AcceptVerified, FailVerified DEF ReadOrigin
<1>5. ASSUME NEW c \in Clients, WriteLocator(c) \/ LocatorWriteFails(c)
      PROVE  VerifiedInv'
  <2>1. Persisting(c) /\ call' = call /\ Return(c, held[c], held[c])
    BY <1>5 DEF WriteLocator, LocatorWriteFails, Persisting
  <2>2. Verify(call[c].policy, held[c]) = "ok" /\ held[c] \in Bytes
    BY <2>1 DEF VerifiedInv, HeldVerified, TypeOK
  <2>3. QED
    BY <2>1, <2>2, ReturnVerified
<1>6. ASSUME NEW c \in Clients, DigestWriteFails(c) PROVE VerifiedInv'
  BY <1>6, FailVerified DEF DigestWriteFails
<1>7. ASSUME NEW c \in Clients,
             PinnedMiss(c) \/ CachedMiss(c) \/ OpenDigest(c) \/ WriteDigest(c)
               \/ OpenLocator(c) \/ Crash(c)
      PROVE  VerifiedInv'
  <2>1. call' = call /\ result' = result
    BY <1>7 DEF PinnedMiss, CachedMiss, OpenDigest, WriteDigest, OpenLocator, Crash
  <2>2. \A k \in Clients : Persisting(k)' => Persisting(k) /\ held'[k] = held[k]
    BY <1>7 DEF PinnedMiss, CachedMiss, OpenDigest, WriteDigest, OpenLocator, Crash,
                Persisting, TypeOK
  <2>3. QED
    BY <2>1, <2>2 DEF VerifiedInv, HeldVerified, ResultsVerified, Succeeded
<1>8. CASE UNCHANGED <<pc, call, held, result>>
  BY <1>8 DEF VerifiedInv, HeldVerified, ResultsVerified, Persisting, Succeeded
<1>9. QED
  BY <1>1, <1>2, <1>3, <1>4, <1>5, <1>6, <1>7, <1>8 DEF Next, Step, Publish, vars

-----------------------------------------------------------------------------
(* Equal contents written by several clients cannot spoil a digest's file. *)
LEMMA DigestFilesStep ==
    ASSUME TypeOK, DigestFilesFilled, [Next]_vars
    PROVE  DigestFilesFilled'
<1> SUFFICES ASSUME faults' = 0, NEW d \in Bytes
             PROVE  \/ digestFile'[d] \in {NoFile, d}
                    \/ digestFile'[d] = Empty /\ \E c \in Clients : WritesDigest(c, d)'
  BY DEF DigestFilesFilled
<1>1. faults = 0 /\ ~(\E c \in Clients :
                        DigestWriteFails(c) \/ LocatorWriteFails(c) \/ Crash(c))
  <2>1. ~Fault
    BY DEF Fault, TypeOK
  <2>2. ~(\E c \in Clients : DigestWriteFails(c) \/ LocatorWriteFails(c) \/ Crash(c))
    BY <2>1 DEF DigestWriteFails, LocatorWriteFails, Crash
  <2>3. faults' = faults
    BY <2>2 DEF Next, Step, Fetch, PinnedMiss, PinnedHit, CachedMiss, CachedHit, ReadOrigin,
                OpenDigest, WriteDigest, OpenLocator, WriteLocator, Publish, vars
  <2>4. QED
    BY <2>2, <2>3
<1>2. \/ digestFile[d] \in {NoFile, d}
      \/ digestFile[d] = Empty /\ \E c \in Clients : WritesDigest(c, d)
  BY <1>1 DEF DigestFilesFilled
<1>3. ASSUME NEW c \in Clients, OpenDigest(c)
      PROVE  \/ digestFile'[d] \in {NoFile, d}
             \/ digestFile'[d] = Empty /\ \E k \in Clients : WritesDigest(k, d)'
  BY <1>2, <1>3 DEF OpenDigest, WritesDigest, TypeOK
<1>4. ASSUME NEW c \in Clients, WriteDigest(c)
      PROVE  \/ digestFile'[d] \in {NoFile, d}
             \/ digestFile'[d] = Empty /\ \E k \in Clients : WritesDigest(k, d)'
  <2>1. CASE held[c] = d
    <3>1. Overwrite(digestFile[d], d) = {d}
      BY <1>2 DEF Overwrite
    <3>2. QED
      BY <1>4, <2>1, <3>1 DEF WriteDigest, TypeOK
  <2>2. CASE held[c] # d
    BY <1>2, <1>4, <2>2 DEF WriteDigest, WritesDigest, TypeOK
  <2>3. QED
    BY <2>1, <2>2
<1>5. ASSUME digestFile' = digestFile,
             \A c \in Clients : WritesDigest(c, d) => WritesDigest(c, d)'
      PROVE  \/ digestFile'[d] \in {NoFile, d}
             \/ digestFile'[d] = Empty /\ \E k \in Clients : WritesDigest(k, d)'
  BY <1>2, <1>5
<1>6. ASSUME NEW c \in Clients,
             \/ \E l \in Locators, p \in Policies : Fetch(c, l, p)
             \/ PinnedMiss(c) \/ PinnedHit(c) \/ CachedMiss(c) \/ CachedHit(c)
             \/ ReadOrigin(c) \/ OpenLocator(c) \/ WriteLocator(c)
      PROVE  /\ digestFile' = digestFile
             /\ \A k \in Clients : WritesDigest(k, d) => WritesDigest(k, d)'
  BY <1>6 DEF Fetch, PinnedMiss, PinnedHit, CachedMiss, CachedHit, ReadOrigin, OpenLocator,
              WriteLocator, Accept, Return, Fail, Finish, WritesDigest, TypeOK, files
<1>7. CASE UNCHANGED <<digestFile, pc, held>>
  BY <1>2, <1>7 DEF WritesDigest
<1>8. QED
  BY <1>1, <1>3, <1>4, <1>5, <1>6, <1>7 DEF Next, Step, Publish, files, vars

-----------------------------------------------------------------------------
LEMMA IInvStep == IInv /\ [Next]_vars => IInv'
  BY TypeStep, PinnedStep, VerifiedStep, DigestFilesStep DEF IInv, VerifiedInv

(* Every behaviour of the store keeps the inductive invariant: what a fetch *)
(* carries to the files its policy has accepted, and without a fault the   *)
(* file of a digest is absent, its own, or empty with a writer about to    *)
(* fill it.                                                                *)
THEOREM Invariance == Spec => []IInv
  BY InitIInv, IInvStep, PTL DEF Spec

(* Every reachable state of the store is well typed.                       *)
THEOREM TypeCorrect == Spec => []TypeOK
<1>1. IInv => TypeOK
  BY DEF IInv
<1>2. QED
  BY <1>1, Invariance, PTL

(* A successful fetch returns bytes its policy accepted, named by digest.  *)
THEOREM OnlyVerifiedResults == Spec => []ResultsVerified
<1>1. IInv => ResultsVerified
  BY DEF IInv
<1>2. QED
  BY <1>1, Invariance, PTL

(* Without faults a digest's file is whole whenever nobody writes it, for  *)
(* any number of clients.                                                  *)
THEOREM ConcurrentPersistsAgree == Spec => []DigestFilesIntact
<1>1. IInv => DigestFilesIntact
  BY DEF IInv, DigestFilesFilled, DigestFilesIntact
<1>2. QED
  BY <1>1, Invariance, PTL

-----------------------------------------------------------------------------
(* A cache that is had by one caller at a time and meets no fault.         *)
For(pub, l) == UNION {pub[Resolve[k][l]] : k \in Clients}
StoreStages == {"openDigest", "writeDigest", "openLocator", "writeLocator"}

LEMMA ForGrows ==
    ASSUME NEW pub, NEW more, \A s \in Sources : pub[s] \subseteq more[s], NEW l \in Locators
    PROVE  For(pub, l) \subseteq For(more, l)
  BY DEF For

(* A fetch starts only when nobody else is at one.                         *)
LEMMA OneAtATimeStep ==
    ASSUME TypeOK, OneAtATime, [Next]_vars
    PROVE  OneAtATime'
<1>1. ASSUME NEW c \in Clients, NEW l \in Locators, NEW p \in Policies, Fetch(c, l, p)
      PROVE  OneAtATime'
  BY <1>1 DEF Fetch, OneAtATime, TypeOK
<1>2. ASSUME NEW c \in Clients, Step(c),
             ~(\E l \in Locators, p \in Policies : Fetch(c, l, p))
      PROVE  OneAtATime'
  <2>1. alone' = alone /\ \A k \in Clients : pc'[k] # "idle" => pc[k] # "idle"
    BY <1>2 DEF Step, PinnedMiss, PinnedHit, CachedMiss, CachedHit, ReadOrigin, OpenDigest,
                WriteDigest, OpenLocator, WriteLocator, DigestWriteFails, LocatorWriteFails,
                Crash, Accept, Return, Fail, Finish, TypeOK
  <2>2. QED
    BY <2>1 DEF OneAtATime
<1>3. CASE UNCHANGED <<pc, alone>>
  BY <1>3 DEF OneAtATime
<1>4. QED
  BY <1>1, <1>2, <1>3 DEF Next, Publish, vars

LEMMA SourcesPublishedStep ==
    ASSUME TypeOK, SourcesPublished, [Next]_vars
    PROVE  SourcesPublished' /\ \A s \in Sources : published[s] \subseteq published'[s]
<1>1. CASE UNCHANGED origin
  BY <1>1 DEF SourcesPublished, origin
<1>2. ASSUME NEW s \in Sources, NEW b \in Contents \cup {NoFile}, Publish(s, b)
      PROVE  SourcesPublished' /\ \A r \in Sources : published[r] \subseteq published'[r]
  BY <1>2 DEF Publish, SourcesPublished, TypeOK
<1>3. QED
  BY <1>1, <1>2 DEF Next, Step, Fetch, PinnedMiss, PinnedHit, CachedMiss, CachedHit, ReadOrigin,
                    OpenDigest, WriteDigest, OpenLocator, WriteLocator, DigestWriteFails,
                    LocatorWriteFails, Crash, origin, vars

(* Without an overlap or a fault so far there was none before; and while   *)
(* one client takes a step the others are not at a fetch.                  *)
LEMMA UndisturbedBefore ==
    ASSUME TypeOK, [Next]_vars, Undisturbed'
    PROVE  /\ Undisturbed
           /\ \A c \in Clients : ~(DigestWriteFails(c) \/ LocatorWriteFails(c) \/ Crash(c))
<1>1. ~Fault
  BY DEF Fault, TypeOK, Undisturbed
<1>2. \A c \in Clients : ~(DigestWriteFails(c) \/ LocatorWriteFails(c) \/ Crash(c))
  BY <1>1 DEF DigestWriteFails, LocatorWriteFails, Crash
<1>3. faults' = faults /\ (alone' => alone)
  <2>1. ASSUME NEW c \in Clients, NEW l \in Locators, NEW p \in Policies, Fetch(c, l, p)
        PROVE  faults' = faults /\ (alone' => alone)
    BY <2>1 DEF Fetch
  <2>2. CASE UNCHANGED <<faults, alone>>
    BY <2>2
  <2>3. QED
    BY <1>2, <2>1, <2>2
       DEF Next, Step, PinnedMiss, PinnedHit, CachedMiss, CachedHit, ReadOrigin, OpenDigest,
           WriteDigest, OpenLocator, WriteLocator, Publish, vars
<1>4. QED
  BY <1>2, <1>3 DEF Undisturbed

LEMMA OthersIdle ==
    ASSUME TypeOK, OneAtATime, NEW c \in Clients, Step(c), Undisturbed, Undisturbed'
    PROVE  \A k \in Clients \ {c} :
             /\ pc[k] = "idle" /\ pc'[k] = "idle" /\ call'[k] = call[k]
             /\ held'[k] = held[k] /\ result'[k] = result[k]
<1>1. \A k \in Clients \ {c} : pc[k] = "idle"
  <2>1. CASE pc[c] # "idle"
    BY <2>1 DEF OneAtATime, Undisturbed
  <2>2. CASE pc[c] = "idle"
    BY <2>2 DEF Step, Fetch, PinnedMiss, PinnedHit, CachedMiss, CachedHit, ReadOrigin,
                OpenDigest, WriteDigest, OpenLocator, WriteLocator, DigestWriteFails,
                LocatorWriteFails, Crash, Undisturbed
  <2>3. QED
    BY <2>1, <2>2
<1>2. \A k \in Clients \ {c} : /\ pc'[k] = pc[k] /\ call'[k] = call[k]
                               /\ held'[k] = held[k] /\ result'[k] = result[k]
  <2>1. CASE \E l \in Locators, p \in Policies : Fetch(c, l, p)
    BY <2>1 DEF Fetch, TypeOK
  <2>2. CASE PinnedMiss(c) \/ CachedMiss(c)
    BY <2>2 DEF PinnedMiss, CachedMiss, Accept, Return, Fail, Finish, TypeOK
  <2>3. CASE PinnedHit(c) \/ CachedHit(c)
    BY <2>3 DEF PinnedHit, CachedHit, Accept, Return, Fail, Finish, TypeOK
  <2>4. CASE ReadOrigin(c)
    BY <2>4 DEF ReadOrigin, Accept, Return, Fail, Finish, TypeOK
  <2>5. CASE OpenDigest(c) \/ WriteDigest(c) \/ OpenLocator(c) \/ WriteLocator(c)
    BY <2>5 DEF OpenDigest, WriteDigest, OpenLocator, WriteLocator, Return, Finish, TypeOK
  <2>6. CASE DigestWriteFails(c) \/ LocatorWriteFails(c) \/ Crash(c)
    BY <2>6 DEF DigestWriteFails, LocatorWriteFails, Crash, Return, Fail, Finish, TypeOK
  <2>7. QED
    BY <2>1, <2>2, <2>3, <2>4, <2>5, <2>6 DEF Step
<1>3. QED
  BY <1>1, <1>2

(* Then nothing is pending where a client reads, and it reads what the     *)
(* file holds: for a digest the bytes with that digest.                    *)
LEMMA ReadsWhole ==
    ASSUME TypeOK, OneAtATime, Undisturbed, NEW c \in Clients, pc[c] \in {"pinned", "cached"}
    PROVE  /\ \A k \in Clients : pc[k] # "idle" => k = c
           /\ \A d, b \in Bytes : b \in Readable(digestFile[d], DigestPending(d)) => b = digestFile[d]
           /\ \A l \in Locators, b \in Bytes :
                b \in Readable(locatorFile[l], LocatorPending(l)) => b = locatorFile[l]
           /\ DigestFilesFilled => \A d \in Bytes : digestFile[d] \in {NoFile, d}
<1>1. \A k \in Clients : pc[k] # "idle" => k = c
  BY DEF OneAtATime, Undisturbed
<1>2. \A d : ~(\E k \in Clients : WritesDigest(k, d))
  BY <1>1 DEF WritesDigest
<1>3. \A l : ~(\E k \in Clients : WritesLocator(k, l))
  BY <1>1 DEF WritesLocator
<1>4. \A d : DigestPending(d) = {}
  BY <1>2 DEF DigestPending
<1>5. \A l : LocatorPending(l) = {}
  BY <1>3 DEF LocatorPending
<1>6. \A b : Readable(b, {}) = {b}
  BY DEF Readable
<1>7. DigestFilesFilled => \A d \in Bytes : digestFile[d] \in {NoFile, d}
  BY <1>2 DEF DigestFilesFilled, Undisturbed
<1>8. \A d, b \in Bytes : b \in Readable(digestFile[d], DigestPending(d)) => b = digestFile[d]
  <2> SUFFICES ASSUME NEW d \in Bytes, NEW b \in Readable(digestFile[d], DigestPending(d))
               PROVE  b = digestFile[d]
    OBVIOUS
  <2>1. Readable(digestFile[d], DigestPending(d)) = Readable(digestFile[d], {})
    BY <1>4
  <2>2. QED
    BY <2>1, <1>6
<1>9. \A l \in Locators, b \in Bytes :
        b \in Readable(locatorFile[l], LocatorPending(l)) => b = locatorFile[l]
  BY <1>5, <1>6
<1>10. QED
  BY <1>1, <1>7, <1>8, <1>9

(* BytesPublished and FilesFollow, said of the values of one client.       *)
BytesOf(pub, p, q, h, r) ==
    /\ p \in StoreStages => h \in For(pub, q.locator)
    /\ r.status = "mismatch" => \E b \in For(pub, q.locator) : b # q.policy.pin
FilesOf(p, q, h, df, lf) ==
    /\ p \in {"writeDigest", "openLocator", "writeLocator"} => df[h] # NoFile
    /\ p = "writeLocator" => lf[q.locator] = Empty
    /\ p \in {"cached", "origin"} /\ q.policy.lower /\ q.policy.pin # NoPin =>
         df[q.policy.pin] = NoFile
    /\ p = "origin" => lf[q.locator] = NoFile
HintOf(pub, p, q, lf, l) ==
    \/ lf[l] \in For(pub, l) \cup {NoFile}
    \/ lf[l] = Empty /\ \E c \in Clients : p[c] = "writeLocator" /\ q[c].locator = l

LEMMA ClientsNow ==
    /\ BytesPublished <=>
         /\ \A c \in Clients : BytesOf(published, pc[c], call[c], held[c], result[c])
         /\ \A l \in Locators : HintOf(published, pc, call, locatorFile, l)
    /\ FilesFollow <=>
         \A c \in Clients : FilesOf(pc[c], call[c], held[c], digestFile, locatorFile)
<1>1. \A l : PublishedFor(l) = For(published, l)
  BY DEF PublishedFor, For
<1>2. \A c : Persisting(c) <=> pc[c] \in StoreStages
  BY DEF Persisting, StoreStages
<1>3. \A c, l : WritesLocator(c, l) <=> pc[c] = "writeLocator" /\ call[c].locator = l
  BY DEF WritesLocator
<1>4. QED
  BY <1>1, <1>2, <1>3 DEF BytesPublished, FilesFollow, BytesOf, FilesOf, HintOf

LEMMA ClientsThen ==
    /\ BytesPublished' <=>
         /\ \A c \in Clients : BytesOf(published', pc'[c], call'[c], held'[c], result'[c])
         /\ \A l \in Locators : HintOf(published', pc', call', locatorFile', l)
    /\ FilesFollow' <=>
         \A c \in Clients : FilesOf(pc'[c], call'[c], held'[c], digestFile', locatorFile')
  BY DEF BytesPublished, FilesFollow, BytesOf, FilesOf, HintOf, PublishedFor, For, Persisting,
         WritesLocator, StoreStages

(* What the step of a client makes of them.                                *)
LEMMA AcceptBytes ==
    ASSUME TypeOK, NEW c \in Clients, NEW b \in For(published, call[c].locator), Accept(c, b),
           BytesOf(published, pc[c], call[c], held[c], result[c]),
           UNCHANGED <<files, origin, call>>
    PROVE  /\ BytesOf(published', pc'[c], call'[c], held'[c], result'[c])
           /\ FilesOf(pc'[c], call'[c], held'[c], digestFile', locatorFile')
<1>1. published' = published /\ call' = call
  BY DEF origin
<1>2. CASE Verify(call[c].policy, b) = "ok"
  <2>1. pc'[c] = "openDigest" /\ held'[c] = b /\ result'[c].status = result[c].status
    BY <1>2 DEF Accept, TypeOK
  <2>2. QED
    BY <1>1, <2>1 DEF BytesOf, FilesOf
<1>3. CASE Verify(call[c].policy, b) # "ok"
  <2>1. pc'[c] = "idle" /\ result'[c].status = Verify(call[c].policy, b)
    BY <1>3 DEF Accept, Fail, Finish, TypeOK
  <2>2. Verify(call[c].policy, b) = "mismatch" => b # call[c].policy.pin
    BY DEF Verify
  <2>3. BytesOf(published, "idle", call[c], held'[c], result'[c])
    BY <2>1, <2>2 DEF BytesOf, StoreStages
  <2>4. QED
    BY <1>1, <2>1, <2>3 DEF FilesOf
<1>4. QED
  BY <1>2, <1>3

LEMMA EndBytes ==
    ASSUME TypeOK, NEW c \in Clients, NEW o, o.status # "mismatch", Finish(c, o)
    PROVE  /\ BytesOf(published', pc'[c], call'[c], held'[c], result'[c])
           /\ FilesOf(pc'[c], call'[c], held'[c], digestFile', locatorFile')
<1>1. pc'[c] = "idle" /\ result'[c] = o
  BY DEF Finish, TypeOK
<1>2. QED
  BY <1>1 DEF BytesOf, FilesOf, StoreStages

(* The values of the client that takes a step.                             *)
LEMMA ClientStep ==
    ASSUME IInv, PrivateInv, Undisturbed, Undisturbed', NEW c \in Clients, Step(c),
           ~(DigestWriteFails(c) \/ LocatorWriteFails(c) \/ Crash(c))
    PROVE  /\ BytesOf(published', pc'[c], call'[c], held'[c], result'[c])
           /\ FilesOf(pc'[c], call'[c], held'[c], digestFile', locatorFile')
<1>1. TypeOK /\ OneAtATime /\ PinnedCalls /\ DigestFilesFilled /\ SourcesPublished
  BY DEF IInv, PrivateInv
<1>2. /\ BytesOf(published, pc[c], call[c], held[c], result[c])
      /\ \A l \in Locators : HintOf(published, pc, call, locatorFile, l)
      /\ FilesOf(pc[c], call[c], held[c], digestFile, locatorFile)
  BY ClientsNow DEF PrivateInv
<1> DEFINE l == call[c].locator
           pin == call[c].policy.pin
<1>3. l \in Locators /\ pin \in Contents \cup {NoPin} /\ call[c].policy \in Policies
  BY <1>1 DEF TypeOK, Call, Policy
<1> DEFINE Goal == /\ BytesOf(published', pc'[c], call'[c], held'[c], result'[c])
                   /\ FilesOf(pc'[c], call'[c], held'[c], digestFile', locatorFile')
<1>4. ASSUME NEW k \in Locators, NEW p \in Policies, Fetch(c, k, p) PROVE Goal
  <2>1. /\ pc'[c] = (IF p.pin # NoPin THEN "pinned" ELSE "cached")
        /\ call'[c] = [locator |-> k, policy |-> p] /\ result'[c] = NoOutcome
    BY <1>1, <1>4 DEF Fetch, TypeOK
  <2>2. QED
    BY <2>1 DEF BytesOf, FilesOf, StoreStages, NoOutcome
<1>5. CASE PinnedMiss(c)
  <2>1. /\ pc'[c] = "cached" /\ result'[c] = result[c] /\ call'[c] = call[c]
        /\ digestFile' = digestFile /\ published' = published
        /\ call[c].policy.lower => digestFile[pin] = NoFile
    BY <1>1, <1>5 DEF PinnedMiss, TypeOK, files, origin
  <2>2. QED
    BY <1>2, <2>1 DEF BytesOf, FilesOf, StoreStages
<1>6. CASE PinnedHit(c)
  <2> DEFINE pending == DigestPending(pin)
  <2>1. pin # NoPin /\ pin \in Bytes /\ digestFile[pin] \in Bytes /\ pc[c] = "pinned"
    BY <1>1, <1>3, <1>6 DEF PinnedHit, PinnedCalls, TypeOK, Bytes
  <2>2. PICK b \in Readable(digestFile[pin], DigestPending(pin)) :
          IF Verify(call[c].policy, b) = "ok"
          THEN Return(c, b, pin) ELSE Fail(c, Verify(call[c].policy, b))
    BY <1>6 DEF PinnedHit
  <2>3. b \in Bytes
    BY <2>1, <2>2, ReadableType
  <2>4. b = digestFile[pin] /\ digestFile[pin] \in {NoFile, pin}
    BY <1>1, <2>1, <2>2, <2>3, ReadsWhole
  <2>5. Verify(call[c].policy, b) # "mismatch"
    BY <2>1, <2>4 DEF Verify, Bytes
  <2> HIDE DEF pin, l
  <2>6. PICK o : Finish(c, o) /\ o.status # "mismatch"
    BY <2>2, <2>5 DEF Return, Fail
  <2>7. QED
    BY <1>1, <2>6, EndBytes
<1>7. CASE CachedMiss(c)
  <2>1. /\ pc[c] = "cached" /\ pc'[c] = "origin" /\ result'[c] = result[c] /\ call'[c] = call[c]
        /\ digestFile' = digestFile /\ published' = published
        /\ locatorFile' = locatorFile /\ locatorFile[l] = NoFile
    BY <1>1, <1>7 DEF CachedMiss, TypeOK, files, origin
  <2>2. QED
    BY <1>2, <2>1 DEF BytesOf, FilesOf, StoreStages
<1>8. CASE CachedHit(c)
  <2>1. pc[c] = "cached" /\ locatorFile[l] # NoFile /\ locatorFile[l] \in Bytes
    BY <1>1, <1>3, <1>8 DEF CachedHit, TypeOK
  <2>2. PICK b \in Readable(locatorFile[l], LocatorPending(l)) : Accept(c, b)
    BY <1>8 DEF CachedHit
  <2>3. b = locatorFile[l]
    <3>1. b \in Bytes
      BY <2>1, <2>2, ReadableType
    <3>2. QED
      BY <1>1, <1>3, <2>1, <2>2, <3>1, ReadsWhole
  <2>4. ~(\E k \in Clients : pc[k] = "writeLocator" /\ call[k].locator = l)
    BY <1>1, <2>1, ReadsWhole
  <2>5. b \in For(published, l)
    BY <1>2, <1>3, <2>1, <2>3, <2>4 DEF HintOf
  <2>6. QED
    BY <1>1, <1>2, <1>8, <2>2, <2>5, AcceptBytes DEF CachedHit
<1>9. CASE ReadOrigin(c)
  <2> DEFINE s == Resolve[c][l]
  <2>1. s \in Sources /\ (IF source[s] = NoFile THEN Fail(c, "io") ELSE Accept(c, source[s]))
    BY <1>3, <1>9 DEF ReadOrigin
  <2>2. source[s] # NoFile => source[s] \in For(published, l)
    BY <1>1, <2>1 DEF SourcesPublished, For
  <2> HIDE DEF s, l
  <2>3. CASE source[s] = NoFile
    <3>1. PICK o : Finish(c, o) /\ o.status # "mismatch"
      BY <2>1, <2>3 DEF Fail
    <3>2. QED
      BY <1>1, <3>1, EndBytes
  <2>4. CASE source[s] # NoFile
    BY <1>1, <1>2, <1>9, <2>1, <2>2, <2>4, AcceptBytes DEF ReadOrigin, l
  <2>5. QED
    BY <2>3, <2>4
<1>10. CASE OpenDigest(c) \/ WriteDigest(c)
  <2>1. /\ pc[c] \in {"openDigest", "writeDigest"} /\ pc'[c] \in {"writeDigest", "openLocator"}
        /\ held'[c] = held[c] /\ result'[c] = result[c] /\ call'[c] = call[c]
        /\ published' = published /\ digestFile'[held[c]] # NoFile
    BY <1>1, <1>10 DEF OpenDigest, WriteDigest, TypeOK, files, origin, Bytes
  <2>2. QED
    BY <1>2, <2>1 DEF BytesOf, FilesOf, StoreStages
<1>11. CASE OpenLocator(c)
  <2>1. /\ pc[c] = "openLocator" /\ pc'[c] = "writeLocator"
        /\ held'[c] = held[c] /\ result'[c] = result[c] /\ call'[c] = call[c]
        /\ published' = published /\ digestFile' = digestFile /\ locatorFile'[l] = Empty
    BY <1>1, <1>3, <1>11 DEF OpenLocator, TypeOK, origin
  <2>2. QED
    BY <1>2, <2>1 DEF BytesOf, FilesOf, StoreStages
<1>12. CASE WriteLocator(c)
  <2>1. PICK o : Finish(c, o) /\ o.status # "mismatch"
    BY <1>12 DEF WriteLocator, Return
  <2>2. QED
    BY <1>1, <2>1, EndBytes
<1>13. QED
  BY <1>4, <1>5, <1>6, <1>7, <1>8, <1>9, <1>10, <1>11, <1>12 DEF Step

(* And of the locators' files.                                             *)
LEMMA HintStep ==
    ASSUME IInv, PrivateInv, Undisturbed, Undisturbed', NEW c \in Clients, Step(c),
           ~(DigestWriteFails(c) \/ LocatorWriteFails(c) \/ Crash(c)), NEW l \in Locators
    PROVE  HintOf(published', pc', call', locatorFile', l)
<1>1. TypeOK /\ OneAtATime
  BY DEF IInv, PrivateInv
<1>2. /\ BytesOf(published, pc[c], call[c], held[c], result[c])
      /\ HintOf(published, pc, call, locatorFile, l)
      /\ FilesOf(pc[c], call[c], held[c], digestFile, locatorFile)
  BY ClientsNow DEF PrivateInv
<1>3. published' = published
  BY DEF Step, Fetch, PinnedMiss, PinnedHit, CachedMiss, CachedHit, ReadOrigin, OpenDigest,
         WriteDigest, OpenLocator, WriteLocator, DigestWriteFails, LocatorWriteFails, Crash, origin
<1>4. CASE OpenLocator(c)
  BY <1>1, <1>2, <1>3, <1>4 DEF OpenLocator, HintOf, TypeOK, Call
<1>5. CASE WriteLocator(c)
  <2> DEFINE k == call[c].locator
  <2>1. k \in Locators /\ locatorFile[k] = Empty /\ held[c] \in For(published, k)
    BY <1>1, <1>2, <1>5 DEF WriteLocator, TypeOK, Call, FilesOf, BytesOf, StoreStages
  <2>2. locatorFile' = [locatorFile EXCEPT ![k] = held[c]]
    BY <1>5, <2>1 DEF WriteLocator, Overwrite
  <2>3. \A j \in Clients \ {c} : pc'[j] = pc[j] /\ call'[j] = call[j]
    BY <1>1, OthersIdle
  <2>4. QED
    BY <1>1, <1>2, <1>3, <2>1, <2>2, <2>3 DEF HintOf, TypeOK
<1>6. CASE locatorFile' = locatorFile /\ ~WriteLocator(c)
  <2>1. CASE locatorFile[l] \in For(published, l) \cup {NoFile}
    BY <1>3, <1>6, <2>1 DEF HintOf
  <2>2. CASE \E j \in Clients : pc[j] = "writeLocator" /\ call[j].locator = l
    <3>1. PICK j \in Clients : pc[j] = "writeLocator"
      BY <2>2
    <3>2. j = c
      BY <1>1, <3>1, OthersIdle
    <3>3. pc[c] = "writeLocator"
      BY <3>1, <3>2
    <3>4. QED
      BY <1>6, <3>3 DEF Step, Fetch, PinnedMiss, PinnedHit, CachedMiss, CachedHit, ReadOrigin,
                        OpenDigest, WriteDigest, OpenLocator
  <2>3. QED
    BY <1>2, <2>1, <2>2 DEF HintOf
<1>7. QED
  BY <1>4, <1>5, <1>6 DEF Step, Fetch, PinnedMiss, PinnedHit, CachedMiss, CachedHit, ReadOrigin,
         OpenDigest, WriteDigest, files

LEMMA PrivateStep ==
    ASSUME IInv, PrivateInv, [Next]_vars
    PROVE  PrivateInv'
<1>1. OneAtATime' /\ SourcesPublished' /\ \A s \in Sources : published[s] \subseteq published'[s]
  BY OneAtATimeStep, SourcesPublishedStep DEF IInv, PrivateInv
<1>2. SUFFICES ASSUME Undisturbed' PROVE BytesPublished' /\ FilesFollow'
  BY <1>1 DEF PrivateInv
<1>3. /\ Undisturbed
      /\ \A c \in Clients : ~(DigestWriteFails(c) \/ LocatorWriteFails(c) \/ Crash(c))
  BY <1>2, UndisturbedBefore DEF IInv
<1>4. /\ \A c \in Clients : BytesOf(published, pc[c], call[c], held[c], result[c])
      /\ \A l \in Locators : HintOf(published, pc, call, locatorFile, l)
      /\ \A c \in Clients : FilesOf(pc[c], call[c], held[c], digestFile, locatorFile)
  BY <1>3, ClientsNow DEF PrivateInv
<1>5. \A l \in Locators : For(published, l) \subseteq For(published', l)
  BY <1>1, ForGrows
<1>6. \A c \in Clients : call[c].locator \in Locators
  BY DEF IInv, TypeOK, Call
<1>7. ASSUME NEW c \in Clients, Step(c)
      PROVE  BytesPublished' /\ FilesFollow'
  <2>1. \A k \in Clients \ {c} :
          /\ pc'[k] = "idle" /\ call'[k] = call[k]
          /\ held'[k] = held[k] /\ result'[k] = result[k]
    BY <1>2, <1>3, <1>7, OthersIdle DEF IInv, PrivateInv
  <2>2. ASSUME NEW k \in Clients \ {c}
        PROVE  /\ BytesOf(published', pc'[k], call'[k], held'[k], result'[k])
               /\ FilesOf(pc'[k], call'[k], held'[k], digestFile', locatorFile')
    <3>1. BytesOf(published', "idle", call[k], held[k], result[k])
      BY <1>4, <1>5, <1>6 DEF BytesOf, StoreStages
    <3>2. FilesOf("idle", call[k], held[k], digestFile', locatorFile')
      BY DEF FilesOf
    <3>3. QED
      BY <2>1, <3>1, <3>2
  <2>3. /\ BytesOf(published', pc'[c], call'[c], held'[c], result'[c])
        /\ FilesOf(pc'[c], call'[c], held'[c], digestFile', locatorFile')
    BY <1>2, <1>3, <1>7, ClientStep
  <2>4. \A l \in Locators : HintOf(published', pc', call', locatorFile', l)
    BY <1>2, <1>3, <1>7, HintStep
  <2>5. \A k \in Clients :
          /\ BytesOf(published', pc'[k], call'[k], held'[k], result'[k])
          /\ FilesOf(pc'[k], call'[k], held'[k], digestFile', locatorFile')
    BY <2>2, <2>3
  <2>6. QED
    BY <2>4, <2>5, ClientsThen
<1>8. CASE UNCHANGED <<files, pc, call, held, result>>
  <2>1. \A c \in Clients : BytesOf(published', pc[c], call[c], held[c], result[c])
    BY <1>4, <1>5, <1>6 DEF BytesOf
  <2>2. \A l \in Locators : HintOf(published', pc, call, locatorFile, l)
    BY <1>4, <1>5 DEF HintOf
  <2>3. QED
    BY <1>4, <1>8, <2>1, <2>2, ClientsThen DEF files
<1>9. QED
  BY <1>7, <1>8 DEF Next, Publish, vars, files

LEMMA InitPrivate == Init => PrivateInv
<1> SUFFICES ASSUME Init PROVE PrivateInv
  OBVIOUS
<1>1. OneAtATime /\ SourcesPublished
  BY DEF Init, OneAtATime, SourcesPublished
<1>2. BytesPublished
  BY DEF Init, BytesPublished, Persisting, NoOutcome
<1>3. FilesFollow
  BY DEF Init, FilesFollow
<1>4. QED
  BY <1>1, <1>2, <1>3 DEF PrivateInv

(* And while one caller at a time uses it without a fault: files and what  *)
(* is on its way to them come from a source of their locator.              *)
THEOREM PrivateInvariance == Spec => [](IInv /\ PrivateInv)
<1>1. Init => IInv /\ PrivateInv
  BY InitIInv, InitPrivate
<1>2. IInv /\ PrivateInv /\ [Next]_vars => (IInv /\ PrivateInv)'
  BY IInvStep, PrivateStep
<1>3. QED
  BY <1>1, <1>2, PTL DEF Spec

(* A pin of the one content an immutable source has is never refused.      *)
THEOREM PinsAreServed == Spec => []ImmutablePinServed
<1>1. IInv /\ PrivateInv => ImmutablePinServed
  <2> SUFFICES ASSUME PrivateInv, Undisturbed, NEW c \in Clients, result[c].status = "mismatch"
               PROVE  \E s \in {Resolve[k][call[c].locator] : k \in Clients} :
                        published[s] # {call[c].policy.pin}
    BY DEF ImmutablePinServed
  <2>1. PICK b \in PublishedFor(call[c].locator) : b # call[c].policy.pin
    BY DEF PrivateInv, BytesPublished
  <2>2. PICK k \in Clients : b \in published[Resolve[k][call[c].locator]]
    BY DEF PublishedFor
  <2>3. QED
    BY <2>1, <2>2
<1>2. QED
  BY PrivateInvariance, <1>1, PTL

-----------------------------------------------------------------------------
(* Had by one caller at a time and without a fault, the store implements   *)
(* ContentStore.  While one client is at a fetch the table is what the     *)
(* files hold and what that client is about to store.                      *)
BoundOf(p, q, h, lf) ==
    [l \in Locators |->
       IF \E c \in Clients : p[c] \in StoreStages /\ q[c].locator = l
       THEN h[CHOOSE c \in Clients : p[c] \in StoreStages /\ q[c].locator = l]
       ELSE lf[l]]
StoredOf(p, h, df) ==
    {d \in Bytes : df[d] # NoFile \/ \E c \in Clients : p[c] \in StoreStages /\ h[c] = d}
BoundBy(p, k, b, lf) == [l \in Locators |-> IF p \in StoreStages /\ l = k THEN b ELSE lf[l]]
StoredBy(p, b, df) == {d \in Bytes : df[d] # NoFile \/ (p \in StoreStages /\ b = d)}

LEMMA TableNow ==
    /\ Bound = BoundOf(pc, call, held, locatorFile) /\ Stored = StoredOf(pc, held, digestFile)
    /\ Bound' = BoundOf(pc', call', held', locatorFile')
    /\ Stored' = StoredOf(pc', held', digestFile')
  BY DEF Bound, Stored, BoundOf, StoredOf, Binds, Persisting, StoreStages

LEMMA OneBinds ==
    ASSUME NEW p, NEW q, NEW h, NEW lf, NEW c \in Clients,
           \A k \in Clients \ {c} : p[k] = "idle"
    PROVE  BoundOf(p, q, h, lf) = BoundBy(p[c], q[c].locator, h[c], lf)
<1>1. \A k \in Clients : p[k] \in StoreStages => k = c
  BY DEF StoreStages
<1>2. ASSUME NEW l \in Locators
      PROVE  BoundOf(p, q, h, lf)[l] = BoundBy(p[c], q[c].locator, h[c], lf)[l]
  <2>1. CASE p[c] \in StoreStages /\ q[c].locator = l
    <3>1. (CHOOSE k \in Clients : p[k] \in StoreStages /\ q[k].locator = l) = c
      BY <1>1, <2>1
    <3>2. QED
      BY <2>1, <3>1 DEF BoundOf, BoundBy
  <2>2. CASE ~(p[c] \in StoreStages /\ q[c].locator = l)
    BY <1>1, <2>2 DEF BoundOf, BoundBy
  <2>3. QED
    BY <2>1, <2>2
<1>3. BoundOf(p, q, h, lf) = BoundBy(p[c], q[c].locator, h[c], lf)
  <2> DEFINE F == BoundOf(p, q, h, lf)
             G == BoundBy(p[c], q[c].locator, h[c], lf)
  <2>1. F = [l \in Locators |-> F[l]] /\ G = [l \in Locators |-> G[l]]
    BY DEF BoundOf, BoundBy
  <2> HIDE DEF F, G
  <2>2. \A l \in Locators : F[l] = G[l]
    BY <1>2 DEF F, G
  <2>3. F = G
    BY <2>1, <2>2
  <2>4. QED
    BY <2>3 DEF F, G
<1>4. QED
  BY <1>3

LEMMA OneStores ==
    ASSUME NEW p, NEW h, NEW df, NEW c \in Clients, \A k \in Clients \ {c} : p[k] = "idle"
    PROVE  StoredOf(p, h, df) = StoredBy(p[c], h[c], df)
<1>1. \A k \in Clients : p[k] \in StoreStages => k = c
  BY DEF StoreStages
<1>2. QED
  BY <1>1 DEF StoredOf, StoredBy

(* The place, the settled content and the answer of the others stay.       *)
StandingOf(p) == CASE p = "idle" -> "idle" [] p \in StoreStages -> "bound" [] OTHER -> "asked"
SettledOf(p, h) == IF p \in StoreStages THEN h ELSE NoFile
AnswerOf(r) == [status |-> r.status, bytes |-> IF r.status = "ok" THEN r.bytes ELSE NoFile]

LEMMA PlacesNow ==
    /\ At = [c \in Clients |-> StandingOf(pc[c])]
    /\ Taken = [c \in Clients |-> SettledOf(pc[c], held[c])]
    /\ Answers = [c \in Clients |-> AnswerOf(result[c])]
    /\ At' = [c \in Clients |-> StandingOf(pc'[c])]
    /\ Taken' = [c \in Clients |-> SettledOf(pc'[c], held'[c])]
    /\ Answers' = [c \in Clients |-> AnswerOf(result'[c])]
<1> USE DEF StandingOf, SettledOf, AnswerOf, Persisting, StoreStages, Succeeded
<1>1. At = [c \in Clients |-> StandingOf(pc[c])] /\ At' = [c \in Clients |-> StandingOf(pc'[c])]
  BY DEF At
<1>2. /\ Taken = [c \in Clients |-> SettledOf(pc[c], held[c])]
      /\ Taken' = [c \in Clients |-> SettledOf(pc'[c], held'[c])]
  BY DEF Taken
<1>3. /\ Answers = [c \in Clients |-> AnswerOf(result[c])]
      /\ Answers' = [c \in Clients |-> AnswerOf(result'[c])]
  BY DEF Answers
<1>4. QED
  BY <1>1, <1>2, <1>3

LEMMA OthersStay ==
    ASSUME NEW c \in Clients,
           \A k \in Clients \ {c} : pc'[k] = pc[k] /\ held'[k] = held[k] /\ result'[k] = result[k]
    PROVE  /\ At' = [At EXCEPT ![c] = StandingOf(pc'[c])]
           /\ Taken' = [Taken EXCEPT ![c] = SettledOf(pc'[c], held'[c])]
           /\ Answers' = [Answers EXCEPT ![c] = AnswerOf(result'[c])]
  BY PlacesNow

LEMMA Unseen ==
    ASSUME NEW c \in Clients,
           \A k \in Clients \ {c} : pc'[k] = pc[k] /\ held'[k] = held[k] /\ result'[k] = result[k],
           StandingOf(pc'[c]) = StandingOf(pc[c]), result'[c] = result[c],
           SettledOf(pc'[c], held'[c]) = SettledOf(pc[c], held[c])
    PROVE  At' = At /\ Taken' = Taken /\ Answers' = Answers
  BY PlacesNow

(* The steps of the table, with what they need.                            *)
LEMMA AskTable ==
    ASSUME NEW c \in Clients, NEW l \in Locators, NEW p \in Policies,
           At[c] = "idle", At' = [At EXCEPT ![c] = "asked"],
           call' = [call EXCEPT ![c] = [locator |-> l, policy |-> p]],
           Answers' = [Answers EXCEPT ![c] = [status |-> "none", bytes |-> NoFile]],
           UNCHANGED <<Bound, Stored, source, Taken>>
    PROVE  Table!Next
<1>1. Table!Ask(c, l, p)
  BY DEF Table!Ask, Table!Answered
<1>2. QED
  BY <1>1 DEF Table!Next

LEMMA ServeTable ==
    ASSUME NEW c \in Clients, NEW b \in Bytes, NEW p \in Policies,
           At[c] = "asked", p = call[c].policy, p.lower, p.pin = b, b \in Stored,
           At' = [At EXCEPT ![c] = "idle"], Taken' = [Taken EXCEPT ![c] = NoFile],
           Answers' = [Answers EXCEPT ![c] =
               [status |-> Verify(p, b), bytes |-> IF Verify(p, b) = "ok" THEN b ELSE NoFile]],
           UNCHANGED <<Bound, Stored, source, call>>
    PROVE  Table!Next
<1>1. b \in (IF p.lower THEN {p.pin} \ {NoPin} ELSE {}) \cap Stored
  OBVIOUS
<1>2. Table!Serve(c)
  BY <1>1 DEF Table!Serve, Table!Reply, Table!Answered
<1>3. QED
  BY <1>2 DEF Table!Next

LEMMA BindTable ==
    ASSUME NEW c \in Clients, NEW b \in Bytes, NEW p \in Policies, NEW l \in Locators,
           At[c] = "asked", p = call[c].policy, l = call[c].locator,
           p.lower /\ p.pin # NoPin => p.pin \notin Stored,
           b = IF Bound[l] # NoFile THEN Bound[l] ELSE source[Resolve[c][l]],
           Verify(p, b) = "ok",
           Bound' = [Bound EXCEPT ![l] = b], Stored' = Stored \cup {b},
           At' = [At EXCEPT ![c] = "bound"], Taken' = [Taken EXCEPT ![c] = b],
           UNCHANGED <<source, call, Answers>>
    PROVE  Table!Next
<1>1. (IF p.lower THEN {p.pin} \ {NoPin} ELSE {}) \cap Stored = {}
  OBVIOUS
<1>2. b # NoFile
  OBVIOUS
<1>3. Table!Candidate(c) = b
  BY DEF Table!Candidate
<1>4. Table!ByLocator(c)
  BY <1>1 DEF Table!ByLocator
<1>5. Table!Bind(c)
  BY <1>2, <1>3, <1>4 DEF Table!Bind
<1>6. QED
  BY <1>5 DEF Table!Next

LEMMA RefuseTable ==
    ASSUME NEW c \in Clients, NEW b \in Bytes \cup {NoFile}, NEW p \in Policies, NEW l \in Locators,
           NEW status, At[c] = "asked", p = call[c].policy, l = call[c].locator,
           p.lower /\ p.pin # NoPin => p.pin \notin Stored,
           b = IF Bound[l] # NoFile THEN Bound[l] ELSE source[Resolve[c][l]],
           IF b = NoFile THEN status = "io" ELSE status = Verify(p, b) /\ status # "ok",
           At' = [At EXCEPT ![c] = "idle"], Taken' = [Taken EXCEPT ![c] = NoFile],
           Answers' = [Answers EXCEPT ![c] = [status |-> status, bytes |-> NoFile]],
           UNCHANGED <<Bound, Stored, source, call>>
    PROVE  Table!Next
<1>1. (IF p.lower THEN {p.pin} \ {NoPin} ELSE {}) \cap Stored = {}
  OBVIOUS
<1>2. Table!Candidate(c) = b
  BY DEF Table!Candidate
<1>3. Table!ByLocator(c)
  BY <1>1 DEF Table!ByLocator
<1>4. Table!Refuse(c)
  BY <1>2, <1>3 DEF Table!Refuse, Table!Reply, Table!Answered
<1>5. QED
  BY <1>4 DEF Table!Next

LEMMA DeliverTable ==
    ASSUME NEW c \in Clients, NEW b, At[c] = "bound", Taken[c] = b,
           At' = [At EXCEPT ![c] = "idle"], Taken' = [Taken EXCEPT ![c] = NoFile],
           Answers' = [Answers EXCEPT ![c] = [status |-> "ok", bytes |-> b]],
           UNCHANGED <<Bound, Stored, source, call>>
    PROVE  Table!Next
<1>1. Table!Deliver(c)
  BY DEF Table!Deliver, Table!Reply, Table!Answered
<1>2. QED
  BY <1>1 DEF Table!Next

LEMMA ChangeTable ==
    ASSUME NEW s \in Sources, NEW b \in Contents \cup {NoFile},
           source' = [source EXCEPT ![s] = b],
           UNCHANGED <<Bound, Stored, At, call, Taken, Answers>>
    PROVE  Table!Next
<1>1. Table!Change(s, b)
  BY DEF Table!Change
<1>2. QED
  BY <1>1 DEF Table!Next

LEMMA BoundOps ==
    ASSUME NEW lf \in [Locators -> Bytes \cup {NoFile}], NEW l \in Locators, NEW b \in Bytes, NEW p
    PROVE  BoundBy(p, l, b, lf) = IF p \in StoreStages THEN [lf EXCEPT ![l] = b] ELSE lf
<1>1. CASE p \in StoreStages
  BY <1>1 DEF BoundBy
<1>2. CASE p \notin StoreStages
  BY <1>2 DEF BoundBy
<1>3. QED
  BY <1>1, <1>2

LEMMA StoredOps ==
    ASSUME NEW df, NEW b \in Bytes, NEW p
    PROVE  StoredBy(p, b, df) = {d \in Bytes : df[d] # NoFile}
                                  \cup (IF p \in StoreStages THEN {b} ELSE {})
  BY DEF StoredBy

(* The table before and after the step of a client.                        *)
LEMMA ViewStep ==
    ASSUME IInv, PrivateInv, Undisturbed, Undisturbed', NEW c \in Clients, Step(c)
    PROVE  /\ Bound = BoundBy(pc[c], call[c].locator, held[c], locatorFile)
           /\ Bound' = BoundBy(pc'[c], call'[c].locator, held'[c], locatorFile')
           /\ Stored = StoredBy(pc[c], held[c], digestFile)
           /\ Stored' = StoredBy(pc'[c], held'[c], digestFile')
           /\ At[c] = StandingOf(pc[c]) /\ Taken[c] = SettledOf(pc[c], held[c])
           /\ At' = [At EXCEPT ![c] = StandingOf(pc'[c])]
           /\ Taken' = [Taken EXCEPT ![c] = SettledOf(pc'[c], held'[c])]
           /\ Answers' = [Answers EXCEPT ![c] = AnswerOf(result'[c])]
           /\ StandingOf(pc'[c]) = StandingOf(pc[c]) /\ result'[c] = result[c]
                /\ SettledOf(pc'[c], held'[c]) = SettledOf(pc[c], held[c])
              => At' = At /\ Taken' = Taken /\ Answers' = Answers
<1>1. \A k \in Clients \ {c} :
        /\ pc[k] = "idle" /\ pc'[k] = "idle"
        /\ held'[k] = held[k] /\ result'[k] = result[k]
  BY OthersIdle DEF IInv, PrivateInv
<1>2. /\ Bound = BoundBy(pc[c], call[c].locator, held[c], locatorFile)
      /\ Stored = StoredBy(pc[c], held[c], digestFile)
  <2>1. /\ BoundOf(pc, call, held, locatorFile) = BoundBy(pc[c], call[c].locator, held[c], locatorFile)
        /\ StoredOf(pc, held, digestFile) = StoredBy(pc[c], held[c], digestFile)
    <3>1. \A k \in Clients \ {c} : pc[k] = "idle"
      BY <1>1
    <3>2. BoundOf(pc, call, held, locatorFile)
            = BoundBy(pc[c], call[c].locator, held[c], locatorFile)
      BY <3>1, OneBinds
    <3>3. StoredOf(pc, held, digestFile) = StoredBy(pc[c], held[c], digestFile)
      BY <3>1, OneStores
    <3>4. QED
      BY <3>2, <3>3
  <2>2. QED
    BY <2>1, TableNow
<1>3. /\ Bound' = BoundBy(pc'[c], call'[c].locator, held'[c], locatorFile')
      /\ Stored' = StoredBy(pc'[c], held'[c], digestFile')
  <2>1. /\ BoundOf(pc', call', held', locatorFile')
             = BoundBy(pc'[c], call'[c].locator, held'[c], locatorFile')
        /\ StoredOf(pc', held', digestFile') = StoredBy(pc'[c], held'[c], digestFile')
    <3>1. \A k \in Clients \ {c} : pc'[k] = "idle"
      BY <1>1
    <3>2. BoundOf(pc', call', held', locatorFile')
            = BoundBy(pc'[c], call'[c].locator, held'[c], locatorFile')
      BY <3>1, OneBinds
    <3>3. StoredOf(pc', held', digestFile') = StoredBy(pc'[c], held'[c], digestFile')
      BY <3>1, OneStores
    <3>4. QED
      BY <3>2, <3>3
  <2>2. QED
    BY <2>1, TableNow
<1>4. /\ At' = [At EXCEPT ![c] = StandingOf(pc'[c])]
      /\ Taken' = [Taken EXCEPT ![c] = SettledOf(pc'[c], held'[c])]
      /\ Answers' = [Answers EXCEPT ![c] = AnswerOf(result'[c])]
  BY <1>1, OthersStay
<1>5. At[c] = StandingOf(pc[c]) /\ Taken[c] = SettledOf(pc[c], held[c])
  BY PlacesNow
<1>6. /\ StandingOf(pc'[c]) = StandingOf(pc[c]) /\ result'[c] = result[c]
      /\ SettledOf(pc'[c], held'[c]) = SettledOf(pc[c], held[c])
      => At' = At /\ Taken' = Taken /\ Answers' = Answers
  BY <1>1, Unseen
<1>7. QED
  BY <1>2, <1>3, <1>4, <1>5, <1>6

(* The policy check decides: the locator is bound, or the fetch refused.   *)
LEMMA AcceptTable ==
    ASSUME IInv, PrivateInv, Undisturbed, Undisturbed', NEW c \in Clients, Step(c),
           pc[c] \in {"cached", "origin"}, NEW b \in Bytes, Accept(c, b),
           b = IF locatorFile[call[c].locator] # NoFile THEN locatorFile[call[c].locator]
               ELSE source[Resolve[c][call[c].locator]],
           UNCHANGED <<files, origin, call>>
    PROVE  Table!Next
<1> DEFINE p == call[c].policy
           l == call[c].locator
<1>1. /\ locatorFile \in [Locators -> Bytes \cup {NoFile}]
      /\ l \in Locators /\ p \in Policies
      /\ pc \in [Clients -> Places] /\ held \in [Clients -> Bytes]
      /\ result \in [Clients -> Outcome]
  BY DEF IInv, TypeOK, Call
<1>2. pc[c] \notin StoreStages /\ StandingOf(pc[c]) = "asked"
  BY DEF StoreStages, StandingOf
<1>3. locatorFile' = locatorFile /\ digestFile' = digestFile /\ source' = source /\ call' = call
  BY DEF files, origin
<1>4. Bound = locatorFile /\ Stored = {d \in Bytes : digestFile[d] # NoFile} /\ At[c] = "asked"
  BY <1>1, <1>2, ViewStep, BoundOps, StoredOps
<1>5. p.lower /\ p.pin # NoPin => p.pin \notin Stored
  BY <1>4, ClientsNow DEF PrivateInv, FilesOf
<1> HIDE DEF p, l
<1>6. b = IF Bound[l] # NoFile THEN Bound[l] ELSE source[Resolve[c][l]]
  BY <1>4 DEF l
<1>7. CASE Verify(p, b) = "ok"
  <2>1. pc'[c] = "openDigest" /\ held'[c] = b /\ result' = result
    BY <1>1, <1>7 DEF Accept, p
  <2>2. pc'[c] \in StoreStages
    BY <2>1 DEF StoreStages
  <2>3. Bound' = [Bound EXCEPT ![l] = b] /\ Stored' = Stored \cup {b}
    <3>1. /\ Bound' = BoundBy(pc'[c], call'[c].locator, held'[c], locatorFile')
          /\ Stored' = StoredBy(pc'[c], held'[c], digestFile')
      BY ViewStep
    <3>2. Bound' = BoundBy(pc'[c], l, b, locatorFile) /\ Stored' = StoredBy(pc'[c], b, digestFile)
      BY <1>3, <2>1, <3>1 DEF l
    <3>3. BoundBy(pc'[c], l, b, locatorFile) = [locatorFile EXCEPT ![l] = b]
      BY <1>1, <2>2 DEF BoundBy, l
    <3>4. StoredBy(pc'[c], b, digestFile) = {d \in Bytes : digestFile[d] # NoFile} \cup {b}
      BY <2>2, StoredOps
    <3>5. QED
      BY <1>4, <3>2, <3>3, <3>4
  <2>4. At' = [At EXCEPT ![c] = "bound"] /\ Taken' = [Taken EXCEPT ![c] = b]
    BY <2>1, <2>2, ViewStep DEF StandingOf, SettledOf
  <2>5. Answers' = Answers
    BY <2>1 DEF Answers, Succeeded
  <2>6. QED
    BY <1>1, <1>3, <1>4, <1>5, <1>6, <1>7, <2>3, <2>4, <2>5, BindTable DEF p, l
<1>8. CASE Verify(p, b) # "ok"
  <2>1. /\ pc'[c] = "idle"
        /\ result'[c] = [status |-> Verify(p, b), bytes |-> Empty, path |-> Empty]
    BY <1>1, <1>8 DEF Accept, Fail, Finish, p
  <2>2. pc'[c] \notin StoreStages
    BY <2>1 DEF StoreStages
  <2>3. Bound' = Bound /\ Stored' = Stored
    <3>1. /\ Bound' = BoundBy(pc'[c], call'[c].locator, held'[c], locatorFile')
          /\ Stored' = StoredBy(pc'[c], held'[c], digestFile')
      BY ViewStep
    <3>2. Bound' = BoundBy(pc'[c], l, Empty, locatorFile) /\ Stored' = StoredBy(pc'[c], Empty, digestFile)
      BY <1>1, <1>3, <1>8, <3>1 DEF Accept, Fail, Finish, l, p
    <3>3. Empty \in Bytes
      BY DEF Bytes
    <3>4. BoundBy(pc'[c], l, Empty, locatorFile) = locatorFile
      BY <1>1, <2>2, <3>3, BoundOps DEF l
    <3>5. StoredBy(pc'[c], Empty, digestFile) = {d \in Bytes : digestFile[d] # NoFile}
      BY <2>2, <3>3, StoredOps
    <3>6. QED
      BY <1>4, <3>2, <3>4, <3>5
  <2>4. /\ At' = [At EXCEPT ![c] = "idle"] /\ Taken' = [Taken EXCEPT ![c] = NoFile]
        /\ Answers' = [Answers EXCEPT ![c] = [status |-> Verify(p, b), bytes |-> NoFile]]
    BY <1>8, <2>1, <2>2, ViewStep DEF StandingOf, SettledOf, AnswerOf
  <2>5. b # NoFile
    OBVIOUS
  <2>6. QED
    BY <1>1, <1>3, <1>4, <1>5, <1>6, <1>8, <2>3, <2>4, <2>5, RefuseTable DEF p, l
<1>9. QED
  BY <1>7, <1>8

(* While nothing is being stored the table is what the files hold.         *)
LEMMA TableIsFiles ==
    ASSUME IInv, PrivateInv, Undisturbed, Undisturbed', NEW c \in Clients, Step(c),
           pc[c] \notin StoreStages, pc'[c] \notin StoreStages, UNCHANGED files
    PROVE  Bound' = Bound /\ Stored' = Stored
<1>1. \A p, q : p \notin StoreStages /\ q \notin StoreStages =>
        \A k, b, l, d, lf : BoundBy(p, k, b, lf) = BoundBy(q, l, d, lf)
  BY DEF BoundBy
<1>2. \A p, q : p \notin StoreStages /\ q \notin StoreStages =>
        \A b, d, df : StoredBy(p, b, df) = StoredBy(q, d, df)
  BY DEF StoredBy
<1>3. locatorFile' = locatorFile /\ digestFile' = digestFile
  BY DEF files
<1>4. /\ Bound = BoundBy(pc[c], call[c].locator, held[c], locatorFile)
      /\ Bound' = BoundBy(pc'[c], call'[c].locator, held'[c], locatorFile)
      /\ Stored = StoredBy(pc[c], held[c], digestFile)
      /\ Stored' = StoredBy(pc'[c], held'[c], digestFile)
  BY <1>3, ViewStep
<1>5. Bound' = Bound
  BY <1>1, <1>4
<1>6. Stored' = Stored
  BY <1>2, <1>4
<1>7. QED
  BY <1>5, <1>6

(* The steps of a client on its way, which change nothing of the table:    *)
(* the files only follow what is already decided.                          *)
LEMMA QuietStep ==
    ASSUME IInv, PrivateInv, Undisturbed, Undisturbed', NEW c \in Clients,
           PinnedMiss(c) \/ CachedMiss(c) \/ OpenDigest(c) \/ WriteDigest(c) \/ OpenLocator(c)
    PROVE  UNCHANGED Table!vars
<1> DEFINE l == call[c].locator
<1>1. /\ locatorFile \in [Locators -> Bytes \cup {NoFile}] /\ l \in Locators
      /\ digestFile \in [Bytes -> Bytes \cup {NoFile}]
      /\ pc \in [Clients -> Places] /\ held[c] \in Bytes
  BY DEF IInv, TypeOK, Call
<1>2. Step(c)
  BY DEF Step
<1>3. /\ held' = held /\ result' = result /\ call' = call /\ source' = source
      /\ \/ pc[c] \notin StoreStages /\ pc'[c] \notin StoreStages
            /\ pc[c] # "idle" /\ pc'[c] # "idle" /\ UNCHANGED files
         \/ pc[c] \in StoreStages /\ pc'[c] \in StoreStages
  BY <1>1 DEF PinnedMiss, CachedMiss, OpenDigest, WriteDigest, OpenLocator, StoreStages, origin
<1>4. At' = At /\ Taken' = Taken /\ Answers' = Answers
  <2>1. StandingOf(pc'[c]) = StandingOf(pc[c]) /\ SettledOf(pc'[c], held'[c]) = SettledOf(pc[c], held[c])
    BY <1>3 DEF StandingOf, SettledOf, StoreStages
  <2>2. QED
    BY <1>2, <1>3, <2>1, ViewStep
<1>5. Bound' = BoundBy(pc'[c], l, held[c], locatorFile') /\ Bound = BoundBy(pc[c], l, held[c], locatorFile)
  BY <1>2, <1>3, ViewStep
<1>6. Stored' = StoredBy(pc'[c], held[c], digestFile') /\ Stored = StoredBy(pc[c], held[c], digestFile)
  BY <1>2, <1>3, ViewStep
<1> HIDE DEF l
<1>7. CASE pc[c] \notin StoreStages
  BY <1>3, <1>4, <1>5, <1>6, <1>7 DEF BoundBy, StoredBy, files, Table!vars
<1>8. CASE pc[c] \in StoreStages
  <2>1. pc'[c] \in StoreStages
    BY <1>3, <1>8
  <2>2. \A k \in Locators \ {l} : locatorFile'[k] = locatorFile[k]
    BY <1>1, <1>8 DEF PinnedMiss, CachedMiss, OpenDigest, WriteDigest, OpenLocator, StoreStages, l
  <2>3. \A d \in Bytes \ {held[c]} : digestFile'[d] = digestFile[d]
    BY <1>1, <1>8 DEF PinnedMiss, CachedMiss, OpenDigest, WriteDigest, OpenLocator, StoreStages
  <2>4. Bound' = Bound
    BY <1>5, <1>8, <2>1, <2>2 DEF BoundBy
  <2>5. Stored' = Stored
    BY <1>6, <1>8, <2>1, <2>3 DEF StoredBy
  <2>6. QED
    BY <1>3, <1>4, <2>4, <2>5 DEF Table!vars
<1>9. QED
  BY <1>7, <1>8

(* A fetch that begins asks the table; one that found its digest is served *)
(* by it; and the last write delivers what was bound.                      *)
LEMMA FetchStep ==
    ASSUME IInv, PrivateInv, Undisturbed, Undisturbed', NEW c \in Clients,
           NEW l \in Locators, NEW p \in Policies, Fetch(c, l, p)
    PROVE  Table!Next
<1>1. Step(c)
  BY DEF Step
<1>2. /\ pc[c] = "idle" /\ pc'[c] \in {"pinned", "cached"} /\ held' = held /\ source' = source
      /\ call' = [call EXCEPT ![c] = [locator |-> l, policy |-> p]]
      /\ result'[c] = NoOutcome /\ UNCHANGED files
  BY DEF Fetch, IInv, TypeOK, origin
<1>3. pc[c] \notin StoreStages /\ pc'[c] \notin StoreStages
  BY <1>2 DEF StoreStages
<1>4. Bound' = Bound /\ Stored' = Stored
  BY <1>1, <1>2, <1>3, TableIsFiles
<1>5. At[c] = "idle" /\ At' = [At EXCEPT ![c] = "asked"]
  BY <1>1, <1>2, <1>3, ViewStep DEF StandingOf
<1>6. Answers' = [Answers EXCEPT ![c] = [status |-> "none", bytes |-> NoFile]]
  BY <1>1, <1>2, ViewStep DEF AnswerOf, NoOutcome
<1>7. Taken' = Taken
  <2>1. SettledOf(pc'[c], held'[c]) = NoFile /\ Taken[c] = NoFile
    BY <1>1, <1>3, ViewStep DEF SettledOf
  <2>2. Taken' = [Taken EXCEPT ![c] = NoFile]
    BY <1>1, <2>1, ViewStep
  <2>3. QED
    BY <2>1, <2>2 DEF Taken
<1>8. QED
  BY <1>2, <1>4, <1>5, <1>6, <1>7, AskTable

LEMMA PinnedHitStep ==
    ASSUME IInv, PrivateInv, Undisturbed, Undisturbed', NEW c \in Clients, PinnedHit(c)
    PROVE  Table!Next
<1> DEFINE p == call[c].policy
           pin == p.pin
<1>1. Step(c)
  BY DEF Step
<1>2. /\ TypeOK /\ OneAtATime /\ DigestFilesFilled
      /\ p \in Policies /\ p.lower /\ pin # NoPin /\ pin \in Bytes
      /\ pc[c] = "pinned" /\ digestFile[pin] \in Bytes
      /\ call' = call /\ source' = source /\ UNCHANGED files
  BY PinIsContent DEF PinnedHit, IInv, PrivateInv, PinnedCalls, TypeOK, Call, origin
<1>3. PICK b \in Readable(digestFile[pin], DigestPending(pin)) :
        IF Verify(p, b) = "ok" THEN Return(c, b, pin) ELSE Fail(c, Verify(p, b))
  BY DEF PinnedHit
<1>4. b = pin
  <2>1. b \in Bytes
    BY <1>2, <1>3, ReadableType
  <2>2. QED
    BY <1>2, <1>3, <2>1, ReadsWhole
<1>5. pc[c] \notin StoreStages
  BY <1>2 DEF StoreStages
<1>6. At[c] = "asked" /\ pin \in Stored
  BY <1>1, <1>2, <1>5, ViewStep DEF StandingOf, StoredBy
<1> HIDE DEF p, pin
<1>7. /\ pc'[c] = "idle" /\ result'[c].status = Verify(p, pin)
      /\ Verify(p, pin) = "ok" => result'[c].bytes = pin
  BY <1>2, <1>3, <1>4 DEF Return, Fail, Finish, TypeOK
<1>8. pc'[c] \notin StoreStages
  BY <1>7 DEF StoreStages
<1>9. Bound' = Bound /\ Stored' = Stored
  BY <1>1, <1>2, <1>5, <1>8, TableIsFiles
<1>10. At' = [At EXCEPT ![c] = "idle"] /\ Taken' = [Taken EXCEPT ![c] = NoFile]
  BY <1>1, <1>7, <1>8, ViewStep DEF StandingOf, SettledOf
<1>11. Answers' = [Answers EXCEPT ![c] =
         [status |-> Verify(p, pin), bytes |-> IF Verify(p, pin) = "ok" THEN pin ELSE NoFile]]
  BY <1>1, <1>7, ViewStep DEF AnswerOf
<1>12. QED
  BY <1>2, <1>6, <1>9, <1>10, <1>11, ServeTable DEF p, pin

LEMMA CachedHitStep ==
    ASSUME IInv, PrivateInv, Undisturbed, Undisturbed', NEW c \in Clients, CachedHit(c)
    PROVE  Table!Next
<1> DEFINE l == call[c].locator
<1>1. Step(c)
  BY DEF Step
<1>2. TypeOK /\ OneAtATime /\ l \in Locators /\ pc[c] = "cached" /\ locatorFile[l] # NoFile
      /\ locatorFile[l] \in Bytes
  BY DEF CachedHit, IInv, PrivateInv, TypeOK, Call
<1>3. PICK b \in Readable(locatorFile[l], LocatorPending(l)) : Accept(c, b)
  BY DEF CachedHit
<1>4. b \in Bytes
  BY <1>2, <1>3, ReadableType
<1>5. b = locatorFile[l]
  BY <1>2, <1>3, <1>4, ReadsWhole
<1>6. QED
  BY <1>1, <1>2, <1>3, <1>4, <1>5, AcceptTable DEF CachedHit

LEMMA ReadOriginStep ==
    ASSUME IInv, PrivateInv, Undisturbed, Undisturbed', NEW c \in Clients, ReadOrigin(c)
    PROVE  Table!Next
<1> DEFINE l == call[c].locator
           p == call[c].policy
           b == source[Resolve[c][l]]
<1>1. Step(c)
  BY DEF Step
<1>2. /\ l \in Locators /\ p \in Policies /\ b \in Bytes \cup {NoFile}
      /\ locatorFile \in [Locators -> Bytes \cup {NoFile}]
      /\ pc \in [Clients -> Places] /\ held \in [Clients -> Bytes] /\ result \in [Clients -> Outcome]
  BY DEF IInv, TypeOK, Call, Bytes
<1>3. /\ pc[c] = "origin" /\ locatorFile[l] = NoFile
      /\ p.lower /\ p.pin # NoPin => digestFile[p.pin] = NoFile
  BY ClientsNow DEF ReadOrigin, PrivateInv, FilesOf
<1>4. IF b = NoFile THEN Fail(c, "io") ELSE Accept(c, b)
  BY DEF ReadOrigin
<1>5. call' = call /\ source' = source /\ UNCHANGED files
  BY DEF ReadOrigin, origin
<1> HIDE DEF b, p, l
<1>6. CASE b # NoFile
  BY <1>1, <1>2, <1>3, <1>4, <1>6, AcceptTable DEF ReadOrigin, b, l
<1>7. CASE b = NoFile
  <2>1. /\ pc'[c] = "idle" /\ held'[c] = Empty
        /\ result'[c] = [status |-> "io", bytes |-> Empty, path |-> Empty]
    BY <1>2, <1>4, <1>7 DEF Fail, Finish
  <2>2. pc[c] \notin StoreStages /\ pc'[c] \notin StoreStages
    BY <1>3, <2>1 DEF StoreStages
  <2>3. Bound' = Bound /\ Stored' = Stored
    BY <1>1, <1>5, <2>2, TableIsFiles
  <2>4. Bound[l] = NoFile
    <3>1. Bound = BoundBy(pc[c], l, held[c], locatorFile)
      BY <1>1, ViewStep DEF l
    <3>2. QED
      BY <1>2, <1>3, <2>2, <3>1 DEF BoundBy
  <2>5. p.lower /\ p.pin # NoPin => p.pin \notin Stored
    <3>1. Stored = StoredBy(pc[c], held[c], digestFile)
      BY <1>1, ViewStep
    <3>2. QED
      BY <1>3, <2>2, <3>1 DEF StoredBy
  <2>6. At[c] = "asked" /\ At' = [At EXCEPT ![c] = "idle"] /\ Taken' = [Taken EXCEPT ![c] = NoFile]
    BY <1>1, <1>3, <2>1, <2>2, ViewStep DEF StandingOf, SettledOf
  <2>7. Answers' = [Answers EXCEPT ![c] = [status |-> "io", bytes |-> NoFile]]
    BY <1>1, <2>1, ViewStep DEF AnswerOf
  <2>8. QED
    BY <1>2, <1>5, <1>7, <2>3, <2>4, <2>5, <2>6, <2>7, RefuseTable DEF p, l, b
<1>8. QED
  BY <1>6, <1>7

LEMMA WriteLocatorStep ==
    ASSUME IInv, PrivateInv, Undisturbed, Undisturbed', NEW c \in Clients, WriteLocator(c)
    PROVE  Table!Next
<1> DEFINE l == call[c].locator
           b == held[c]
<1>1. Step(c)
  BY DEF Step
<1>2. /\ l \in Locators /\ b \in Bytes
      /\ locatorFile \in [Locators -> Bytes \cup {NoFile}]
      /\ pc \in [Clients -> Places] /\ held \in [Clients -> Bytes] /\ result \in [Clients -> Outcome]
  BY DEF IInv, TypeOK, Call
<1>3. pc[c] = "writeLocator" /\ locatorFile[l] = Empty /\ digestFile[b] # NoFile
  BY ClientsNow DEF WriteLocator, PrivateInv, FilesOf
<1>4. /\ locatorFile' = [locatorFile EXCEPT ![l] = b]
      /\ digestFile' = digestFile /\ call' = call /\ source' = source
  BY <1>3 DEF WriteLocator, Overwrite, origin
<1>5. /\ pc'[c] = "idle" /\ held'[c] = Empty
      /\ result'[c] = [status |-> "ok", bytes |-> b, path |-> b]
  BY <1>2 DEF WriteLocator, Return, Finish
<1>6. pc[c] \in StoreStages /\ pc'[c] \notin StoreStages
  BY <1>3, <1>5 DEF StoreStages
<1>7. /\ Bound = BoundBy(pc[c], l, b, locatorFile)
      /\ Bound' = BoundBy(pc'[c], l, Empty, locatorFile')
      /\ Stored = StoredBy(pc[c], b, digestFile)
      /\ Stored' = StoredBy(pc'[c], Empty, digestFile)
  BY <1>1, <1>4, <1>5, ViewStep
<1>8. /\ At[c] = "bound" /\ At' = [At EXCEPT ![c] = "idle"]
      /\ Taken[c] = b /\ Taken' = [Taken EXCEPT ![c] = NoFile]
  BY <1>1, <1>5, <1>6, ViewStep DEF StandingOf, SettledOf, StoreStages
<1>9. Answers' = [Answers EXCEPT ![c] = [status |-> "ok", bytes |-> b]]
  BY <1>1, <1>5, ViewStep DEF AnswerOf
<1> HIDE DEF b, l
<1>10. Bound' = Bound
  BY <1>2, <1>4, <1>6, <1>7 DEF BoundBy
<1>11. Stored' = Stored
  BY <1>2, <1>3, <1>6, <1>7 DEF StoredBy
<1>12. QED
  BY <1>4, <1>8, <1>9, <1>10, <1>11, DeliverTable

LEMMA SameTable ==
    ASSUME UNCHANGED <<files, pc, call, held, result>>
    PROVE  UNCHANGED <<Bound, Stored, At, call, Taken, Answers>>
<1>1. Bound' = Bound /\ Stored' = Stored
  BY TableNow DEF files
<1>2. At' = At /\ Taken' = Taken /\ Answers' = Answers
  BY PlacesNow
<1>3. QED
  BY <1>1, <1>2

LEMMA StepTable ==
    ASSUME IInv, PrivateInv, [Next]_vars, Undisturbed'
    PROVE  [Table!Next]_(Table!vars)
<1>1. /\ Undisturbed
      /\ \A c \in Clients : ~(DigestWriteFails(c) \/ LocatorWriteFails(c) \/ Crash(c))
  BY UndisturbedBefore DEF IInv
<1>2. ASSUME NEW c \in Clients, Step(c) PROVE [Table!Next]_(Table!vars)
  <2>1. CASE \E l \in Locators, p \in Policies : Fetch(c, l, p)
    BY <1>1, <2>1, FetchStep
  <2>2. CASE PinnedHit(c)
    BY <1>1, <2>2, PinnedHitStep
  <2>3. CASE CachedHit(c)
    BY <1>1, <2>3, CachedHitStep
  <2>4. CASE ReadOrigin(c)
    BY <1>1, <2>4, ReadOriginStep
  <2>5. CASE WriteLocator(c)
    BY <1>1, <2>5, WriteLocatorStep
  <2>6. CASE PinnedMiss(c) \/ CachedMiss(c) \/ OpenDigest(c) \/ WriteDigest(c) \/ OpenLocator(c)
    BY <1>1, <2>6, QuietStep
  <2>7. QED
    BY <1>1, <1>2, <2>1, <2>2, <2>3, <2>4, <2>5, <2>6 DEF Step
<1>3. ASSUME NEW s \in Sources, NEW b \in Contents \cup {NoFile}, Publish(s, b)
      PROVE  Table!Next
  <2>1. source' = [source EXCEPT ![s] = b] /\ UNCHANGED <<files, pc, call, held, result>>
    BY <1>3 DEF Publish
  <2>2. UNCHANGED <<Bound, Stored, At, call, Taken, Answers>>
    BY <2>1, SameTable
  <2>3. QED
    BY <2>1, <2>2, ChangeTable
<1>4. CASE UNCHANGED vars
  <2>1. source' = source /\ UNCHANGED <<files, pc, call, held, result>>
    BY <1>4 DEF vars, files
  <2>2. UNCHANGED <<Bound, Stored, At, call, Taken, Answers>>
    BY <2>1, SameTable
  <2>3. QED
    BY <2>1, <2>2 DEF Table!vars
<1>5. QED
  BY <1>2, <1>3, <1>4 DEF Next

LEMMA InitTable == Init => Table!Init
<1> SUFFICES ASSUME Init PROVE Table!Init
  OBVIOUS
<1>1. IInv
  BY InitIInv
<1>2. \A c \in Clients : pc[c] = "idle" /\ pc[c] \notin StoreStages
  BY DEF Init, StoreStages
<1>3. Bound = [l \in Locators |-> NoFile]
  BY <1>2, TableNow DEF Init, BoundOf
<1>4. Stored = {}
  BY <1>2, TableNow DEF Init, StoredOf
<1>5. At = [c \in Clients |-> "idle"] /\ Taken = [c \in Clients |-> NoFile]
  BY <1>2, PlacesNow DEF StandingOf, SettledOf
<1>6. Answers = [c \in Clients |-> [status |-> "none", bytes |-> NoFile]]
  BY PlacesNow DEF Init, AnswerOf, NoOutcome
<1>7. call \in [Clients -> [locator : Locators, policy : Policies]]
  BY <1>1 DEF IInv, TypeOK, Call
<1>8. source \in [Sources -> Contents \cup {NoFile}]
  BY DEF Init
<1>9. QED
  BY <1>3, <1>4, <1>5, <1>6, <1>7, <1>8 DEF Table!Init, Table!Answered

(* One caller at a time sees a table: a locator keeps the content it was   *)
(* first fetched with, however the files are truncated, filled and read.   *)
THEOREM StoreIsTable == Spec => ImplementsTable
<1>1. IInv /\ PrivateInv /\ [Next]_vars => [Undisturbed' => [Table!Next]_(Table!vars)]_vars
  BY StepTable
<1>2. QED
  BY PrivateInvariance, InitTable, <1>1, PTL DEF Spec, ImplementsTable
=============================================================================
