---------------------------- MODULE ArtifactStore ----------------------------
(***************************************************************************)
(* The artifact cache of crates/greentic-component-store.  One directory   *)
(* (by default a directory of the system's temp dir, so shared by every    *)
(* process of the machine) holds two kinds of files: <digest>.wasm, the    *)
(* bytes with that SHA-256, and <hash of locator>.wasm, the bytes last     *)
(* fetched for a locator.  Clients are threads or processes that call      *)
(* ComponentStore::fetch; nothing orders their file operations.            *)
(*                                                                         *)
(* Bytes are abstract: a content some source publishes, the empty file a   *)
(* truncation leaves, or Garbled, which stands for every byte string that  *)
(* is none of these (a prefix, or a short file over a longer one).  The    *)
(* digest of bytes is the bytes themselves: no collisions.                 *)
(***************************************************************************)
EXTENDS Naturals

CONSTANTS
    Clients,      \* threads and processes that share the cache directory
    Locators,     \* texts of locators (StoreLocator::as_cache_key)
    Sources,      \* the files and URLs locators lead to
    Contents,     \* what sources publish
    Policies,     \* the verification policies callers use
    Resolve,      \* Resolve[c][l]: the source l names for client c
    NoPin, NoFile, Empty, Garbled,
    MaxFaults,    \* bound: crashes and failed writes
    MaxPublishes  \* bound: changes of a source

Bytes == Contents \cup {Empty, Garbled}

(* DigestPolicy and SignaturePolicy.  pin = NoPin with required = FALSE is *)
(* also the policy without a digest part; lower says the caller wrote the  *)
(* expected digest in the lower-case hex the cache uses for file names;    *)
(* cosign is the signature policy that demands a cosign signature.         *)
Policy ==
    [pin : Contents \cup {NoPin}, lower : BOOLEAN, required : BOOLEAN, cosign : BOOLEAN]

ASSUME StoreAssumption ==
    /\ Policies \subseteq Policy
    /\ Policies # {} /\ Locators # {}
    /\ Resolve \in [Clients -> [Locators -> Sources]]
    /\ NoPin \notin Bytes
    /\ NoFile \notin Bytes
    /\ Empty \notin Contents
    /\ Garbled \notin Contents \cup {Empty}
    /\ MaxFaults \in Nat
    /\ MaxPublishes \in Nat

VARIABLES
    digestFile,   \* digestFile[d]: what <d>.wasm holds, or NoFile
    locatorFile,  \* locatorFile[l]: what the locator's file holds, or NoFile
    source,       \* source[s]: what a read of s yields, NoFile if it fails
    published,    \* history: all contents s ever had
    pc, call, held,
                  \* a client's place in fetch, its arguments, its bytes
    result,       \* the last outcome of each client
    faults,       \* bound counter: crashes and failed writes so far
    publishes,    \* bound counter: source changes so far
    alone         \* history: no two fetches ever overlapped

files == <<digestFile, locatorFile>>
origin == <<source, published, publishes>>
vars == <<digestFile, locatorFile, source, published, pc, call, held, result,
          faults, publishes, alone>>

Places == {"idle", "pinned", "cached", "origin", "openDigest", "writeDigest",
           "openLocator", "writeLocator"}
Errors == {"mismatch", "missing", "signature", "io"}
Call == [locator : Locators, policy : Policies]
Outcome == [status : Errors \cup {"ok", "none"}, bytes : Bytes, path : Bytes]
NoOutcome == [status |-> "none", bytes |-> Empty, path |-> Empty]

TypeOK ==
    /\ digestFile \in [Bytes -> Bytes \cup {NoFile}]
    /\ locatorFile \in [Locators -> Bytes \cup {NoFile}]
    /\ source \in [Sources -> Contents \cup {NoFile}]
    /\ published \in [Sources -> SUBSET Contents]
    /\ pc \in [Clients -> Places]
    /\ call \in [Clients -> Call]
    /\ held \in [Clients -> Bytes]
    /\ result \in [Clients -> Outcome]
    /\ faults \in Nat
    /\ publishes \in Nat
    /\ alone \in BOOLEAN

Init ==
    /\ digestFile = [d \in Bytes |-> NoFile]
    /\ locatorFile = [l \in Locators |-> NoFile]
    /\ source \in [Sources -> Contents \cup {NoFile}]
    /\ published = [s \in Sources |-> {source[s]} \ {NoFile}]
    /\ pc = [c \in Clients |-> "idle"]
    /\ call \in [Clients -> {CHOOSE k \in Call : TRUE}]
    /\ held = [c \in Clients |-> Empty]
    /\ result = [c \in Clients |-> NoOutcome]
    /\ faults = 0
    /\ publishes = 0
    /\ alone = TRUE

-----------------------------------------------------------------------------
(* Mutant: digests are compared without ignoring case.                    *)
VerifyCaseSensitive(policy, bytes) ==
    IF policy.pin # NoPin /\ (policy.pin # bytes \/ ~policy.lower) THEN "mismatch"
    ELSE IF policy.pin = NoPin /\ policy.required THEN "missing"
    ELSE IF policy.cosign THEN "signature" ELSE "ok"

(* VerificationPolicy::verify: the digest part first, then the signature.  *)
Verify(policy, bytes) ==
    IF policy.pin \notin {NoPin, bytes} THEN "mismatch"
    ELSE IF policy.pin = NoPin /\ policy.required THEN "missing"
    ELSE IF policy.cosign THEN "signature" ELSE "ok"

(* What a read of a file returns: what it holds or, while another client   *)
(* is about to fill it with something else, a part of that.                *)
Readable(bytes, pending) ==
    {bytes} \cup (IF pending \subseteq {bytes} THEN {} ELSE {Garbled})

(* What a file holds after b is written from its start: b, unless somebody *)
(* filled the file after our truncation and a longer tail of it stays.     *)
Overwrite(old, b) ==
    {b} \cup (IF old \in {Empty, b, NoFile} THEN {} ELSE {Garbled})

Persisting(c) == pc[c] \in {"openDigest", "writeDigest", "openLocator", "writeLocator"}
WritesDigest(c, d) == pc[c] = "writeDigest" /\ held[c] = d
WritesLocator(c, l) == pc[c] = "writeLocator" /\ call[c].locator = l
DigestPending(d) == {held[c] : c \in {k \in Clients : WritesDigest(k, d)}}
LocatorPending(l) == {held[c] : c \in {k \in Clients : WritesLocator(k, l)}}

Finish(c, outcome) ==
    /\ pc' = [pc EXCEPT ![c] = "idle"]
    /\ held' = [held EXCEPT ![c] = Empty]
    /\ result' = [result EXCEPT ![c] = outcome]

Return(c, b, path) == Finish(c, [status |-> "ok", bytes |-> b, path |-> path])
Fail(c, error) == Finish(c, [status |-> error, bytes |-> Empty, path |-> Empty])

(* Bytes that were read go on to persist if the policy accepts them; a     *)
(* refusal ends the fetch, also when the bytes came from the cache.        *)
Accept(c, b) ==
    LET verdict == Verify(call[c].policy, b) IN
    IF verdict = "ok"
    THEN /\ pc' = [pc EXCEPT ![c] = "openDigest"]
         /\ held' = [held EXCEPT ![c] = b]
         /\ UNCHANGED result
    ELSE Fail(c, verdict)

-----------------------------------------------------------------------------
(* A client calls fetch: a pinned digest is looked up first.               *)
Fetch(c, l, p) ==
    /\ pc[c] = "idle"
    /\ pc' = [pc EXCEPT ![c] = IF p.pin # NoPin THEN "pinned" ELSE "cached"]
    /\ call' = [call EXCEPT ![c] = [locator |-> l, policy |-> p]]
    /\ result' = [result EXCEPT ![c] = NoOutcome]
    /\ alone' = (alone /\ \A other \in Clients : pc[other] = "idle")
    /\ UNCHANGED <<files, origin, held, faults>>

(* The file named by the expected digest, as the caller spelled it.  Files *)
(* are never removed, so the test that it exists and the read are one step. *)
PinnedMiss(c) ==
    /\ pc[c] = "pinned"
    /\ \/ ~call[c].policy.lower
       \/ digestFile[call[c].policy.pin] = NoFile
    /\ pc' = [pc EXCEPT ![c] = "cached"]
    /\ UNCHANGED <<files, origin, call, held, result, faults, alone>>

(* Mutant: the file name is trusted and the bytes are not verified.        *)
PinnedHitUnverified(c) ==
    LET pin == call[c].policy.pin IN
    /\ pc[c] = "pinned"
    /\ call[c].policy.lower
    /\ digestFile[pin] # NoFile
    /\ \E b \in Readable(digestFile[pin], DigestPending(pin)) :
         Return(c, b, pin)
    /\ UNCHANGED <<files, origin, call, faults, alone>>

PinnedHit(c) ==
    LET pin == call[c].policy.pin IN
    /\ pc[c] = "pinned"
    /\ call[c].policy.lower
    /\ digestFile[pin] # NoFile
    /\ \E b \in Readable(digestFile[pin], DigestPending(pin)) :
         LET verdict == Verify(call[c].policy, b) IN
         IF verdict = "ok" THEN Return(c, b, pin) ELSE Fail(c, verdict)
    /\ UNCHANGED <<files, origin, call, faults, alone>>

(* try_fetch_cached: the locator's file, if there is one, settles it.      *)
CachedMiss(c) ==
    /\ pc[c] = "cached"
    /\ locatorFile[call[c].locator] = NoFile
    /\ pc' = [pc EXCEPT ![c] = "origin"]
    /\ UNCHANGED <<files, origin, call, held, result, faults, alone>>

CachedHit(c) ==
    LET l == call[c].locator IN
    /\ pc[c] = "cached"
    /\ locatorFile[l] # NoFile
    /\ \E b \in Readable(locatorFile[l], LocatorPending(l)) : Accept(c, b)
    /\ UNCHANGED <<files, origin, call, faults, alone>>

(* Mutant: a failed read of the source is not reported.                    *)
ReadOriginUnchecked(c) ==
    /\ pc[c] = "origin"
    /\ Accept(c, source[Resolve[c][call[c].locator]])
    /\ UNCHANGED <<files, origin, call, faults, alone>>

(* fetch_bytes: only now is the source read.                               *)
ReadOrigin(c) ==
    LET b == source[Resolve[c][call[c].locator]] IN
    /\ pc[c] = "origin"
    /\ IF b = NoFile THEN Fail(c, "io") ELSE Accept(c, b)
    /\ UNCHANGED <<files, origin, call, faults, alone>>

-----------------------------------------------------------------------------
(* persist: std::fs::write of the digest's file, then of the locator's.    *)
(* Each write truncates the file first and fills it afterwards.            *)
OpenDigest(c) ==
    /\ pc[c] = "openDigest"
    /\ digestFile' = [digestFile EXCEPT ![held[c]] = Empty]
    /\ pc' = [pc EXCEPT ![c] = "writeDigest"]
    /\ UNCHANGED <<locatorFile, origin, call, held, result, faults, alone>>

(* Mutant: the source is copied again instead of the verified bytes.       *)
WriteDigestFromSource(c) ==
    LET b == source[Resolve[c][call[c].locator]] IN
    /\ pc[c] = "writeDigest"
    /\ digestFile' = [digestFile EXCEPT ![held[c]] = IF b = NoFile THEN held[c] ELSE b]
    /\ pc' = [pc EXCEPT ![c] = "openLocator"]
    /\ UNCHANGED <<locatorFile, origin, call, held, result, faults, alone>>

(* All writers of a digest's file fill it with the same bytes.             *)
WriteDigest(c) ==
    /\ pc[c] = "writeDigest"
    /\ digestFile' = [digestFile EXCEPT ![held[c]] = held[c]]
    /\ pc' = [pc EXCEPT ![c] = "openLocator"]
    /\ UNCHANGED <<locatorFile, origin, call, held, result, faults, alone>>

(* Mutant: the locator's file is only written when it is not there yet and *)
(* the caller pinned nothing.                                              *)
OpenLocatorUnpinned(c) ==
    /\ pc[c] = "openLocator"
    /\ IF call[c].policy.pin = NoPin
       THEN /\ locatorFile' = [locatorFile EXCEPT ![call[c].locator] = Empty]
            /\ pc' = [pc EXCEPT ![c] = "writeLocator"]
            /\ UNCHANGED <<held, result>>
       ELSE Return(c, held[c], held[c]) /\ UNCHANGED locatorFile
    /\ UNCHANGED <<digestFile, origin, call, faults, alone>>

OpenLocator(c) ==
    /\ pc[c] = "openLocator"
    /\ locatorFile' = [locatorFile EXCEPT ![call[c].locator] = Empty]
    /\ pc' = [pc EXCEPT ![c] = "writeLocator"]
    /\ UNCHANGED <<digestFile, origin, call, held, result, faults, alone>>

WriteLocator(c) ==
    LET l == call[c].locator IN
    /\ pc[c] = "writeLocator"
    /\ \E b \in Overwrite(locatorFile[l], held[c]) :
         locatorFile' = [locatorFile EXCEPT ![l] = b]
    /\ Return(c, held[c], held[c])
    /\ UNCHANGED <<digestFile, origin, call, faults, alone>>

-----------------------------------------------------------------------------
(* A write is cut short: the file keeps what it had or gets a part.        *)
CutShort(old) == IF old = NoFile THEN {NoFile} ELSE {old, Garbled}

Fault == faults < MaxFaults /\ faults' = faults + 1

(* The digest's file cannot be created or filled (a full disk, say): the   *)
(* error ends the fetch and leaves the file as it is.                      *)
DigestWriteFails(c) ==
    /\ pc[c] \in {"openDigest", "writeDigest"}
    /\ IF pc[c] = "openDigest"
       THEN UNCHANGED digestFile
       ELSE \E b \in CutShort(digestFile[held[c]]) :
              digestFile' = [digestFile EXCEPT ![held[c]] = b]
    /\ Fail(c, "io")
    /\ Fault
    /\ UNCHANGED <<locatorFile, origin, call, alone>>

(* A failure to write the locator's file is only logged: fetch succeeds.   *)
LocatorWriteFails(c) ==
    LET l == call[c].locator IN
    /\ pc[c] \in {"openLocator", "writeLocator"}
    /\ IF pc[c] = "openLocator"
       THEN UNCHANGED locatorFile
       ELSE \E b \in CutShort(locatorFile[l]) : locatorFile' = [locatorFile EXCEPT ![l] = b]
    /\ Return(c, held[c], held[c])
    /\ Fault
    /\ UNCHANGED <<digestFile, origin, call, alone>>

(* The client's process dies; a write it was doing is cut short.           *)
Crash(c) ==
    LET d == held[c]
        l == call[c].locator
    IN
    /\ pc[c] # "idle"
    /\ IF pc[c] = "writeDigest"
       THEN \E b \in CutShort(digestFile[d]) : digestFile' = [digestFile EXCEPT ![d] = b]
       ELSE UNCHANGED digestFile
    /\ IF pc[c] = "writeLocator"
       THEN \E b \in CutShort(locatorFile[l]) : locatorFile' = [locatorFile EXCEPT ![l] = b]
       ELSE UNCHANGED locatorFile
    /\ pc' = [pc EXCEPT ![c] = "idle"]
    /\ held' = [held EXCEPT ![c] = Empty]
    /\ Fault
    /\ UNCHANGED <<origin, call, result, alone>>

(* The source changes: a new build is published, or it becomes unreachable. *)
Publish(s, b) ==
    /\ publishes < MaxPublishes
    /\ b # source[s]
    /\ source' = [source EXCEPT ![s] = b]
    /\ published' = [published EXCEPT ![s] = @ \cup ({b} \ {NoFile})]
    /\ publishes' = publishes + 1
    /\ UNCHANGED <<files, pc, call, held, result, faults, alone>>

-----------------------------------------------------------------------------
Step(c) ==
    \/ \E l \in Locators, p \in Policies : Fetch(c, l, p)
    \/ PinnedMiss(c) \/ PinnedHit(c)
    \/ CachedMiss(c) \/ CachedHit(c)
    \/ ReadOrigin(c)
    \/ OpenDigest(c) \/ WriteDigest(c)
    \/ OpenLocator(c) \/ WriteLocator(c)
    \/ DigestWriteFails(c) \/ LocatorWriteFails(c)
    \/ Crash(c)

Next ==
    \/ \E c \in Clients : Step(c)
    \/ \E s \in Sources, b \in Contents \cup {NoFile} : Publish(s, b)

Spec == Init /\ [][Next]_vars

-----------------------------------------------------------------------------
Succeeded(c) == result[c].status = "ok"
Undisturbed == alone /\ faults = 0

(* What fetch returns is named by its digest and passed the caller's       *)
(* policy, whatever other clients, crashes and failed writes did to the    *)
(* files it was read from.                                                 *)
ResultsVerified ==
    \A c \in Clients : Succeeded(c) =>
        /\ result[c].path = result[c].bytes
        /\ call[c].policy.pin \in {NoPin, result[c].bytes}
        /\ ~call[c].policy.cosign

(* Two clients that persist the same digest cannot spoil each other's      *)
(* file: without a fault, <digest>.wasm that nobody is writing holds bytes *)
(* with that digest, however the truncations and writes interleave.        *)
DigestFilesIntact ==
    faults = 0 => \A d \in Bytes :
        \/ digestFile[d] \in {NoFile, d}
        \/ \E c \in Clients : WritesDigest(c, d)

(* The strengthening of the properties above that is inductive: only a     *)
(* caller with a pin looks a digest up, bytes on their way to the files    *)
(* passed the policy, and a digest's file that holds anything but its own  *)
(* bytes is empty and about to be filled.                                  *)
PinnedCalls ==
    \A c \in Clients : pc[c] = "pinned" => call[c].policy.pin # NoPin
HeldVerified ==
    \A c \in Clients : Persisting(c) => Verify(call[c].policy, held[c]) = "ok"
DigestFilesFilled ==
    faults = 0 => \A d \in Bytes :
        \/ digestFile[d] \in {NoFile, d}
        \/ digestFile[d] = Empty /\ \E c \in Clients : WritesDigest(c, d)
IInv == TypeOK /\ PinnedCalls /\ HeldVerified /\ ResultsVerified /\ DigestFilesFilled

(* With one immutable source behind a locator, a fetch that pins the       *)
(* source's digest is never refused for its digest.                        *)
ImmutablePinServed ==
    Undisturbed => \A c \in Clients :
        LET l == call[c].locator IN
        (result[c].status = "mismatch") =>
            \E s \in {Resolve[k][l] : k \in Clients} :
                published[s] # {call[c].policy.pin}

(* The same for a cache that is had by one caller at a time and meets no   *)
(* fault: what a locator's file holds, what is on its way there and what a *)
(* pin was refused for was published by a source of that locator; a fetch  *)
(* that goes by its locator found the digest it pins missing, and nobody   *)
(* adds it meanwhile; and the two files follow the content to be stored.   *)
OneAtATime ==
    alone => \A c, k \in Clients : pc[c] # "idle" /\ pc[k] # "idle" => c = k
SourcesPublished ==
    \A s \in Sources : source[s] \in published[s] \cup {NoFile}
PublishedFor(l) == UNION {published[Resolve[k][l]] : k \in Clients}
BytesPublished ==
    /\ \A c \in Clients : Persisting(c) => held[c] \in PublishedFor(call[c].locator)
    /\ \A l \in Locators :
         \/ locatorFile[l] \in PublishedFor(l) \cup {NoFile}
         \/ locatorFile[l] = Empty /\ \E c \in Clients : WritesLocator(c, l)
    /\ \A c \in Clients : result[c].status = "mismatch" =>
         \E b \in PublishedFor(call[c].locator) : b # call[c].policy.pin
FilesFollow ==
    \A c \in Clients :
        LET l == call[c].locator
            policy == call[c].policy
        IN
        /\ pc[c] \in {"writeDigest", "openLocator", "writeLocator"} =>
             digestFile[held[c]] # NoFile
        /\ pc[c] = "writeLocator" => locatorFile[l] = Empty
        /\ pc[c] \in {"cached", "origin"} /\ policy.lower /\ policy.pin # NoPin =>
             digestFile[policy.pin] = NoFile
        /\ pc[c] = "origin" => locatorFile[l] = NoFile
PrivateInv ==
    OneAtATime /\ SourcesPublished /\ (Undisturbed => BytesPublished /\ FilesFollow)

-----------------------------------------------------------------------------
(* The moment of decision is the end of the policy check: from there on    *)
(* the content counts as stored and the locator as bound, although the     *)
(* files are truncated and filled only afterwards.                         *)
Binds(c, l) == Persisting(c) /\ call[c].locator = l
Bound ==
    [l \in Locators |->
       IF \E c \in Clients : Binds(c, l)
       THEN held[CHOOSE c \in Clients : Binds(c, l)]
       ELSE locatorFile[l]]
Stored == {d \in Bytes : digestFile[d] # NoFile \/ \E c \in Clients : Persisting(c) /\ held[c] = d}
At == [c \in Clients |-> CASE pc[c] = "idle" -> "idle"
                           [] Persisting(c)  -> "bound"
                           [] OTHER          -> "asked"]
Taken == [c \in Clients |-> IF Persisting(c) THEN held[c] ELSE NoFile]
Answers ==
    [c \in Clients |->
       [status |-> result[c].status, bytes |-> IF Succeeded(c) THEN result[c].bytes ELSE NoFile]]

Table == INSTANCE ContentStore WITH
    Unbound <- NoFile,
    NameOf <- [p \in Policies |-> IF p.lower THEN {p.pin} \ {NoPin} ELSE {}],
    Verdict <- [p \in Policies |-> [b \in Bytes |-> Verify(p, b)]],
    bound <- Bound, stored <- Stored, offered <- source,
    at <- At, ask <- call, taken <- Taken, answer <- Answers

(* Had by one caller at a time and without a fault, the files of the cache *)
(* implement the table of bound locators and stored digests: what a        *)
(* locator means is settled by its first fetch, whoever fetches it later   *)
(* and however its source changes (tests/fs_list.rs:46: "second fetch      *)
(* should hit cache without touching source file").                        *)
ImplementsTable ==
    Table!Init /\ [][Undisturbed' => [Table!Next]_(Table!vars)]_vars
=============================================================================
