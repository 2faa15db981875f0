--------------------------- MODULE ComponentCache ---------------------------
(***************************************************************************)
(* ComponentStore::get of crates/greentic-component and the cache under    *)
(* it, a directory (~/.greentic/components) shared by every process.  A    *)
(* data file is named by the id (SHA-256) of its bytes; a hint file per    *)
(* locator holds the id last seen for it.  Every client is a ComponentStore *)
(* with a compatibility policy of its own and one get in flight; get is    *)
(* async, so a client's steps interleave with those of all others, and a   *)
(* dropped future or a dead process leaves off between any two of them.    *)
(*                                                                         *)
(* The id of bytes is the bytes themselves: no collisions.  Garbled stands *)
(* for all byte strings that are neither a published content nor empty.    *)
(***************************************************************************)
EXTENDS Naturals

CONSTANTS
    Clients, SourceIds,
    Locators,     \* filesystem paths and OCI references
    Contents,     \* what locators yield
    Abis, Capabilities,
    Meta,         \* Meta[b]: the ABI and capabilities found in bytes b
    Policy,       \* Policy[c]: what client c requires of both
    NoFile, NoLocator, Empty, Garbled,
    Blank, Cut,   \* an empty hint file, and one that holds part of an id
    MaxFaults,    \* bound: abandoned gets and failed writes
    MaxPublishes  \* bound: changes of a locator's content

Bytes == Contents \cup {Empty, Garbled}
Hints == Bytes \cup {Blank, Cut}

ASSUME CacheAssumption ==
    /\ Meta \in [Bytes -> [abi : Abis, caps : SUBSET Capabilities]]
    /\ Policy \in [Clients -> [abis : SUBSET Abis, caps : SUBSET Capabilities]]
    /\ Locators # {}
    /\ NoLocator \notin Locators
    /\ NoFile \notin Hints
    /\ Empty \notin Contents
    /\ Garbled \notin Contents \cup {Empty}
    /\ Blank \notin Bytes
    /\ Cut \notin Bytes \cup {Blank}
    /\ MaxFaults \in Nat
    /\ MaxPublishes \in Nat

VARIABLES
    sources,    \* sources[c][id]: the locator client c registered under id
    dataFile,   \* dataFile[i]: what the entry of id i holds, or NoFile
    hint,       \* hint[l]: what the hint file of l holds, or NoFile
    origin,     \* origin[l]: what reading l yields, NoFile if it fails
    published,  \* history: all contents l ever had
    pc, locator, held, hit,
                \* a client's place in get, its locator, its bytes, and
                \* whether they came from the cache
    result,     \* the last outcome of each client
    faults, publishes,
    alone       \* history: no two gets ever overlapped

files == <<dataFile, hint>>
outside == <<sources, origin, published, publishes>>
vars == <<sources, dataFile, hint, origin, published, pc, locator, held, hit, result,
          faults, publishes, alone>>

Places == {"idle", "hint", "data", "loaded", "fetch", "openData", "writeData",
           "openHint", "writeHint"}
Outcome == [status : {"none", "ok", "io", "abi", "capabilities"},
            bytes : Bytes]
NoOutcome == [status |-> "none", bytes |-> Empty]

TypeOK ==
    /\ sources \in [Clients -> [SourceIds -> Locators \cup {NoLocator}]]
    /\ dataFile \in [Bytes -> Bytes \cup {NoFile}]
    /\ hint \in [Locators -> Hints \cup {NoFile}]
    /\ origin \in [Locators -> Contents \cup {NoFile}]
    /\ published \in [Locators -> SUBSET Contents]
    /\ pc \in [Clients -> Places]
    /\ locator \in [Clients -> Locators]
    /\ held \in [Clients -> Bytes]
    /\ hit \in [Clients -> BOOLEAN]
    /\ result \in [Clients -> Outcome]
    /\ faults \in Nat
    /\ publishes \in Nat
    /\ alone \in BOOLEAN

Init ==
    /\ sources = [c \in Clients |-> [id \in SourceIds |-> NoLocator]]
    /\ dataFile = [i \in Bytes |-> NoFile]
    /\ hint = [l \in Locators |-> NoFile]
    /\ origin \in [Locators -> Contents \cup {NoFile}]
    /\ published = [l \in Locators |-> {origin[l]} \ {NoFile}]
    /\ pc = [c \in Clients |-> "idle"]
    /\ locator = [c \in Clients |-> CHOOSE l \in Locators : TRUE]
    /\ held = [c \in Clients |-> Empty]
    /\ hit = [c \in Clients |-> FALSE]
    /\ result = [c \in Clients |-> NoOutcome]
    /\ faults = 0
    /\ publishes = 0
    /\ alone = TRUE

-----------------------------------------------------------------------------
(* compat::check: the ABI prefix first (abis: the versions that have it),  *)
(* then the required capabilities.                                         *)
Check(policy, b) ==
    IF Meta[b].abi \notin policy.abis THEN "abi"
    ELSE IF ~(policy.caps \subseteq Meta[b].caps) THEN "capabilities"
    ELSE "ok"

Compatible(c, b) == Check(Policy[c], b) = "ok"

(* What a read of a file returns: what it holds or, while somebody is      *)
(* about to fill it with something else, a part of that.                   *)
Readable(value, pending, part) ==
    {value} \cup (IF pending \subseteq {value} THEN {} ELSE {part})

WritesData(c, i) == pc[c] = "writeData" /\ held[c] = i
WritesHint(c, l) == pc[c] = "writeHint" /\ locator[c] = l
DataPending(i) == {held[c] : c \in {k \in Clients : WritesData(k, i)}}
HintPending(l) == {held[c] : c \in {k \in Clients : WritesHint(k, l)}}

Goto(c, place) == pc' = [pc EXCEPT ![c] = place]

Finish(c, status, b) ==
    /\ Goto(c, "idle")
    /\ held' = [held EXCEPT ![c] = Empty]
    /\ hit' = [hit EXCEPT ![c] = FALSE]
    /\ result' = [result EXCEPT ![c] = [status |-> status, bytes |-> b]]

Fail(c, status) == Finish(c, status, Empty)

-----------------------------------------------------------------------------
(* add_fs, add_oci: a source id names the locator registered last.         *)
Register(c, id, l) ==
    /\ pc[c] = "idle"
    /\ sources' = [sources EXCEPT ![c][id] = l]
    /\ UNCHANGED <<files, origin, published, publishes, pc, locator, held, hit, result,
                   faults, alone>>

(* An unknown source id is refused at once and touches nothing.            *)
Get(c, id) ==
    /\ pc[c] = "idle"
    /\ sources[c][id] # NoLocator
    /\ Goto(c, "hint")
    /\ locator' = [locator EXCEPT ![c] = sources[c][id]]
    /\ result' = [result EXCEPT ![c] = NoOutcome]
    /\ alone' = (alone /\ \A other \in Clients : pc[other] = "idle")
    /\ UNCHANGED <<files, outside, held, hit, faults>>

(* Mutant: the entry a hint names is read without a test that it exists.   *)
ReadHintUntested(c) ==
    LET l == locator[c] IN
    /\ pc[c] = "hint"
    /\ IF hint[l] = NoFile
       THEN Goto(c, "fetch") /\ UNCHANGED <<held, hit, result>>
       ELSE \E h \in Readable(hint[l], HintPending(l), Cut) :
              \/ (h \in Bytes => dataFile[h] = NoFile) /\ Fail(c, "io")
              \/ /\ h \in Bytes /\ dataFile[h] # NoFile
                 /\ Goto(c, "data")
                 /\ held' = [held EXCEPT ![c] = h]
                 /\ UNCHANGED <<hit, result>>
    /\ UNCHANGED <<files, outside, locator, faults, alone>>

(* try_load, first half: the hint of the locator, if there is one, is read *)
(* and names an entry.  A blank hint makes an empty id, whose entry is the *)
(* cache directory itself: it exists, and reading it is an error.  Part of *)
(* an id names no entry.  No file is ever removed, so testing that a file  *)
(* exists and reading it are one step.                                     *)
ReadHint(c) ==
    LET l == locator[c] IN
    /\ pc[c] = "hint"
    /\ IF hint[l] = NoFile
       THEN Goto(c, "fetch") /\ UNCHANGED <<held, hit, result>>
       ELSE \E h \in Readable(hint[l], HintPending(l), Cut) :
              \/ h = Blank /\ Fail(c, "io")
              \/ /\ h = Cut \/ (h \in Bytes /\ dataFile[h] = NoFile)
                 /\ Goto(c, "fetch") /\ UNCHANGED <<held, hit, result>>
              \/ /\ h \in Bytes /\ dataFile[h] # NoFile
                 /\ Goto(c, "data")
                 /\ held' = [held EXCEPT ![c] = h]
                 /\ UNCHANGED <<hit, result>>
    /\ UNCHANGED <<files, outside, locator, faults, alone>>

(* Mutant: a mismatch between hint and entry is not repaired.              *)
ReadDataUnrepaired(c) ==
    LET i == held[c] IN
    /\ pc[c] = "data"
    /\ \E b \in Readable(dataFile[i], DataPending(i), Garbled) :
         held' = [held EXCEPT ![c] = b]
    /\ Goto(c, "loaded")
    /\ hit' = [hit EXCEPT ![c] = TRUE]
    /\ UNCHANGED <<files, outside, locator, result, faults, alone>>

(* try_load, second half: the entry is read, its id computed, and the hint *)
(* rewritten if it named another id.                                       *)
ReadData(c) ==
    LET i == held[c] IN
    /\ pc[c] = "data"
    /\ \E b \in Readable(dataFile[i], DataPending(i), Garbled) :
         /\ held' = [held EXCEPT ![c] = b]
         /\ Goto(c, IF b = i THEN "loaded" ELSE "openHint")
    /\ hit' = [hit EXCEPT ![c] = TRUE]
    /\ UNCHANGED <<files, outside, locator, result, faults, alone>>

(* Mutant: what the cache holds is taken to be compatible.                 *)
CheckHitTrusting(c) ==
    /\ pc[c] = "loaded"
    /\ Finish(c, "ok", held[c])
    /\ UNCHANGED <<files, outside, locator, faults, alone>>

(* get, after a hit: the policy is checked on what was loaded.             *)
CheckHit(c) ==
    LET verdict == Check(Policy[c], held[c]) IN
    /\ pc[c] = "loaded"
    /\ IF verdict = "ok" THEN Finish(c, "ok", held[c]) ELSE Fail(c, verdict)
    /\ UNCHANGED <<files, outside, locator, faults, alone>>

(* Mutant: the hint is written first, and the entry only when missing.     *)
FetchOriginHintFirst(c) ==
    LET b == origin[locator[c]] IN
    /\ pc[c] = "fetch"
    /\ IF b = NoFile
       THEN Fail(c, "io") /\ UNCHANGED hint
       ELSE IF Compatible(c, b)
       THEN /\ Goto(c, "openData")
            /\ hint' = [hint EXCEPT ![locator[c]] = b]
            /\ held' = [held EXCEPT ![c] = b]
            /\ UNCHANGED <<hit, result>>
       ELSE Fail(c, Check(Policy[c], b)) /\ UNCHANGED hint
    /\ UNCHANGED <<dataFile, outside, locator, faults, alone>>

(* Mutant: a failed read of the source is not reported.                    *)
FetchOriginUnchecked(c) ==
    LET b == origin[locator[c]] IN
    /\ pc[c] = "fetch"
    /\ Goto(c, "openData")
    /\ held' = [held EXCEPT ![c] = b]
    /\ UNCHANGED <<files, outside, locator, hit, result, faults, alone>>

(* get, after a miss: the source is read and the policy checked before     *)
(* anything is stored.                                                     *)
FetchOrigin(c) ==
    LET b == origin[locator[c]] IN
    /\ pc[c] = "fetch"
    /\ IF b = NoFile
       THEN Fail(c, "io")
       ELSE IF Compatible(c, b)
       THEN /\ Goto(c, "openData")
            /\ held' = [held EXCEPT ![c] = b]
            /\ UNCHANGED <<hit, result>>
       ELSE Fail(c, Check(Policy[c], b))
    /\ UNCHANGED <<files, outside, locator, faults, alone>>

(* store: the entry is created (truncated, if another locator or client    *)
(* stored the same bytes before) and filled, then the hint is written.     *)
OpenData(c) ==
    /\ pc[c] = "openData"
    /\ dataFile' = [dataFile EXCEPT ![held[c]] = Empty]
    /\ Goto(c, "writeData")
    /\ UNCHANGED <<hint, outside, locator, held, hit, result, faults, alone>>

(* Mutant: the entry is filled by appending to what it holds.              *)
WriteDataAppending(c) ==
    /\ pc[c] = "writeData"
    /\ dataFile' = [dataFile EXCEPT ![held[c]] = IF @ = Empty THEN held[c] ELSE Garbled]
    /\ Goto(c, "openHint")
    /\ UNCHANGED <<hint, outside, locator, held, hit, result, faults, alone>>

(* All writers of an entry fill it with the same bytes from its start.     *)
WriteData(c) ==
    /\ pc[c] = "writeData"
    /\ dataFile' = [dataFile EXCEPT ![held[c]] = held[c]]
    /\ Goto(c, "openHint")
    /\ UNCHANGED <<hint, outside, locator, held, hit, result, faults, alone>>

(* Mutant: hints are shared by all locators.                               *)
OpenHintShared(c) ==
    /\ pc[c] = "openHint"
    /\ hint' = [l \in Locators |-> Blank]
    /\ Goto(c, "writeHint")
    /\ UNCHANGED <<dataFile, outside, locator, held, hit, result, faults, alone>>

OpenHint(c) ==
    /\ pc[c] = "openHint"
    /\ hint' = [hint EXCEPT ![locator[c]] = Blank]
    /\ Goto(c, "writeHint")
    /\ UNCHANGED <<dataFile, outside, locator, held, hit, result, faults, alone>>

(* All ids have one length, so the last writer of a hint wins whole.       *)
WriteHint(c) ==
    /\ pc[c] = "writeHint"
    /\ hint' = [hint EXCEPT ![locator[c]] = held[c]]
    /\ IF hit[c]
       THEN Goto(c, "loaded") /\ UNCHANGED <<held, hit, result>>
       ELSE Finish(c, "ok", held[c])
    /\ UNCHANGED <<dataFile, outside, locator, faults, alone>>

-----------------------------------------------------------------------------
(* What a write that is cut short leaves in each kind of file.             *)
Interrupt(c) ==
    /\ IF pc[c] = "writeData"
       THEN \E b \in {dataFile[held[c]], Garbled} :
              dataFile' = [dataFile EXCEPT ![held[c]] = b]
       ELSE UNCHANGED dataFile
    /\ IF pc[c] = "writeHint"
       THEN \E h \in {hint[locator[c]], Cut} : hint' = [hint EXCEPT ![locator[c]] = h]
       ELSE UNCHANGED hint

Fault == faults < MaxFaults /\ faults' = faults + 1

(* A file operation fails (a full disk, say) and get returns the error.    *)
WriteFails(c) ==
    /\ pc[c] \in {"openData", "writeData", "openHint", "writeHint"}
    /\ Interrupt(c)
    /\ Fail(c, "io")
    /\ Fault
    /\ UNCHANGED <<outside, locator, alone>>

(* The process dies or the caller drops the future of get.                 *)
Abandon(c) ==
    /\ pc[c] # "idle"
    /\ Interrupt(c)
    /\ Goto(c, "idle")
    /\ held' = [held EXCEPT ![c] = Empty]
    /\ hit' = [hit EXCEPT ![c] = FALSE]
    /\ Fault
    /\ UNCHANGED <<outside, locator, result, alone>>

Publish(l, b) ==
    /\ publishes < MaxPublishes
    /\ b # origin[l]
    /\ origin' = [origin EXCEPT ![l] = b]
    /\ published' = [published EXCEPT ![l] = @ \cup ({b} \ {NoFile})]
    /\ publishes' = publishes + 1
    /\ UNCHANGED <<sources, files, pc, locator, held, hit, result, faults, alone>>

-----------------------------------------------------------------------------
Step(c) ==
    \/ \E id \in SourceIds : Get(c, id) \/ \E l \in Locators : Register(c, id, l)
    \/ ReadHint(c) \/ ReadData(c) \/ CheckHit(c)
    \/ FetchOrigin(c)
    \/ OpenData(c) \/ WriteData(c) \/ OpenHint(c) \/ WriteHint(c)
    \/ WriteFails(c) \/ Abandon(c)

Next ==
    \/ \E c \in Clients : Step(c)
    \/ \E l \in Locators, b \in Contents \cup {NoFile} : Publish(l, b)

Spec == Init /\ [][Next]_vars

-----------------------------------------------------------------------------
Succeeded(c) == result[c].status = "ok"

(* No client is handed a component its own policy rejects, also when the   *)
(* bytes were cached by a client with a laxer policy, torn by a crash, or  *)
(* read while another client was writing them.                             *)
ResultsCompatible == \A c \in Clients : Succeeded(c) => Compatible(c, result[c].bytes)

(* The entry is written before the hint that leads to it, so whatever is   *)
(* interrupted, a hint that holds the id of a published content leads to   *)
(* an entry that exists.                                                   *)
HintsLeadToEntries ==
    \A l \in Locators : hint[l] \in Contents => dataFile[hint[l]] # NoFile

(* "Cache keys are `sha256:<digest>`" (README.md:238): without a fault an  *)
(* entry nobody is writing holds the bytes its name is the digest of, even *)
(* when clients store equal bytes at the same time.                        *)
EntriesIntact ==
    faults = 0 => \A i \in Bytes :
        \/ dataFile[i] \in {NoFile, i}
        \/ \E c \in Clients : WritesData(c, i)

(* The strengthening of these that is inductive: bytes on their way into   *)
(* the cache are compatible, an entry holds its own bytes or a damaged     *)
(* rest of them, and whoever writes a hint to a content has seen the entry. *)
HeldCompatible ==
    \A c \in Clients :
        pc[c] \in {"openData", "writeData", "openHint", "writeHint"} /\ ~hit[c]
        => Compatible(c, held[c])
EntryShape ==
    \A i \in Bytes : dataFile[i] \in {NoFile, Empty, Garbled, i}
EntryBeforeHint ==
    \A c \in Clients :
        /\ pc[c] = "data" => dataFile[held[c]] # NoFile
        /\ pc[c] \in {"writeData", "openHint", "writeHint"} /\ held[c] \in Contents
           => dataFile[held[c]] # NoFile
EntriesFilled ==
    faults = 0 => \A i \in Bytes :
        \/ dataFile[i] \in {NoFile, i}
        \/ dataFile[i] = Empty /\ \E c \in Clients : WritesData(c, i)
IInv == /\ TypeOK /\ HeldCompatible /\ ResultsCompatible /\ EntryShape
        /\ EntryBeforeHint /\ HintsLeadToEntries /\ EntriesFilled

(* A get that overlaps no other fails to read a readable locator only if   *)
(* an earlier fault left that locator's hint blank: every other damage of  *)
(* hints and entries is repaired or worked around by the next get.         *)
OnlyBlankHintsBlock ==
    [][\A c \in Clients :
          /\ alone /\ faults' = faults
          /\ pc[c] # "idle" /\ result'[c].status = "io"
          /\ origin[locator[c]] # NoFile
          => pc[c] = "hint" /\ hint[locator[c]] = Blank /\ faults > 0]_vars

(* A get that succeeds leaves the locator's hint at the id it returned, so *)
(* the next one takes up where this one ended.                             *)
HintFollowsResult ==
    [][\A c \in Clients :
          alone /\ ~Succeeded(c) /\ Succeeded(c)'
          => hint'[locator[c]] = result'[c].bytes]_vars

-----------------------------------------------------------------------------
Storing(c) == pc[c] \in {"openData", "writeData", "openHint", "writeHint"}

(* The inductive invariant of a cache that is had by one get at a time.    *)
(* Then the entry that is read or was loaded is the one the hint names;    *)
(* and as long as nothing was cut short, a hint names a content unless it  *)
(* is being written, a source is read only for want of a hint, and what is *)
(* stored is a content that came from a source.                            *)
OneAtATime == alone => \A c, k \in Clients : pc[c] # "idle" /\ pc[k] # "idle" => c = k
OutcomesOpen == \A c \in Clients : pc[c] # "idle" => result[c].status = "none"
HintInHand ==
    alone => \A c \in Clients : pc[c] \in {"data", "loaded"} => hint[locator[c]] = held[c]
HintsName ==
    \A l \in Locators :
        \/ hint[l] \in Contents \cup {NoFile}
        \/ hint[l] = Blank /\ \E c \in Clients : WritesHint(c, l)
GetsFollow ==
    \A c \in Clients :
        /\ pc[c] = "fetch" => hint[locator[c]] = NoFile
        /\ hit[c] => pc[c] = "loaded"
        /\ Storing(c) => held[c] \in Contents
PrivateInv ==
    OneAtATime /\ OutcomesOpen /\ HintInHand /\ (alone /\ faults = 0 => HintsName /\ GetsFollow)

-----------------------------------------------------------------------------
(* A get is decided when its bytes are read and found compatible: from     *)
(* there on they count as stored and the locator as bound, although the    *)
(* files are written only afterwards.                                      *)
Decided(c) == (pc[c] = "loaded" \/ Storing(c)) /\ Compatible(c, held[c])
Binds(c, l) == Storing(c) /\ locator[c] = l
Bound ==
    [l \in Locators |->
       IF \E c \in Clients : Binds(c, l)
       THEN held[CHOOSE c \in Clients : Binds(c, l)]
       ELSE hint[l]]
Stored == {i \in Bytes : dataFile[i] # NoFile \/ \E c \in Clients : Storing(c) /\ held[c] = i}
At == [c \in Clients |-> CASE pc[c] = "idle" -> "idle"
                           [] Decided(c)     -> "bound"
                           [] OTHER          -> "asked"]
Asked == [c \in Clients |-> [locator |-> locator[c], policy |-> c]]
Taken == [c \in Clients |-> IF Decided(c) THEN held[c] ELSE NoFile]
Answers ==
    [c \in Clients |->
       [status |-> result[c].status,
        bytes  |-> IF Succeeded(c) THEN result[c].bytes ELSE NoFile]]

Table == INSTANCE ContentStore WITH
    Sources <- Locators,
    Policies <- Clients,
    Resolve <- [c \in Clients |-> [l \in Locators |-> l]],
    Unbound <- NoFile,
    NameOf <- [c \in Clients |-> {}],
    Verdict <- [c \in Clients |-> [b \in Bytes |-> Check(Policy[c], b)]],
    bound <- Bound, stored <- Stored, offered <- origin,
    at <- At, ask <- Asked, taken <- Taken, answer <- Answers

(* Had by one caller at a time, hints and entries implement the same table *)
(* of bound locators as the artifact cache, a locator keeps the content it *)
(* was first fetched with: so does every step of a behaviour in which no   *)
(* two gets have overlapped so far and nothing was cut short.              *)
ImplementsTable ==
    Table!Init /\ [][alone' /\ faults' = 0 => [Table!Next]_(Table!vars)]_vars
=============================================================================
