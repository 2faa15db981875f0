------------------------ MODULE ComponentCacheProofs ------------------------
(* Proofs about ComponentCache for every set of clients, locators and      *)
(* contents, all policies, any number of faults and of changes outside.    *)
EXTENDS ComponentCache, TLAPS

USE CacheAssumption

LEMMA CheckType ==
    ASSUME NEW p, NEW b
    PROVE  Check(p, b) \in {"ok", "abi", "capabilities"}
  BY DEF Check

LEMMA ReadableType ==
    ASSUME NEW v, NEW pending, NEW part
    PROVE  Readable(v, pending, part) \subseteq {v, part}
  BY DEF Readable

LEMMA FinishType ==
    ASSUME TypeOK, NEW c \in Clients, NEW b \in Bytes,
           NEW s \in {"ok", "io", "abi", "capabilities"}, Finish(c, s, b)
    PROVE  /\ pc' \in [Clients -> Places] /\ held' \in [Clients -> Bytes]
           /\ hit' \in [Clients -> BOOLEAN] /\ result' \in [Clients -> Outcome]
  BY DEF Finish, Goto, TypeOK, Places, Outcome, Bytes

LEMMA FailType ==
    ASSUME TypeOK, NEW c \in Clients, NEW s \in {"io", "abi", "capabilities"}, Fail(c, s)
    PROVE  /\ pc' \in [Clients -> Places] /\ held' \in [Clients -> Bytes]
           /\ hit' \in [Clients -> BOOLEAN] /\ result' \in [Clients -> Outcome]
  BY FinishType DEF Fail, Bytes

LEMMA InterruptType ==
    ASSUME TypeOK, NEW c \in Clients, Interrupt(c)
    PROVE  /\ dataFile' \in [Bytes -> Bytes \cup {NoFile}]
           /\ hint' \in [Locators -> Hints \cup {NoFile}]
<1> USE DEF Interrupt, TypeOK, Hints, Bytes
<1>1. dataFile' \in [Bytes -> Bytes \cup {NoFile}]
  OBVIOUS
<1>2. hint' \in [Locators -> Hints \cup {NoFile}]
  OBVIOUS
<1>3. QED
  BY <1>1, <1>2

(* The two ways ReadHint can go on: to the source, or to an entry that is  *)
(* there.                                                                  *)
LEMMA ReadHintCases ==
    ASSUME TypeOK, NEW c \in Clients, ReadHint(c)
    PROVE  \/ Fail(c, "io")
           \/ pc' = [pc EXCEPT ![c] = "fetch"] /\ UNCHANGED <<held, hit, result>>
           \/ \E h \in Bytes :
                /\ dataFile[h] # NoFile
                /\ pc' = [pc EXCEPT ![c] = "data"]
                /\ held' = [held EXCEPT ![c] = h]
                /\ UNCHANGED <<hit, result>>
  BY DEF ReadHint, Goto

LEMMA ReadDataCases ==
    ASSUME TypeOK, NEW c \in Clients, pc[c] = "data" => dataFile[held[c]] # NoFile, ReadData(c)
    PROVE  \E b \in {dataFile[held[c]], Garbled} :
             /\ b \in Bytes
             /\ held' = [held EXCEPT ![c] = b]
             /\ pc' = [pc EXCEPT ![c] = IF b = held[c] THEN "loaded" ELSE "openHint"]
<1>1. PICK b \in Readable(dataFile[held[c]], DataPending(held[c]), Garbled) :
        /\ held' = [held EXCEPT ![c] = b]
        /\ Goto(c, IF b = held[c] THEN "loaded" ELSE "openHint")
  BY DEF ReadData
<1>2. b \in {dataFile[held[c]], Garbled}
  BY <1>1, ReadableType
<1>3. dataFile[held[c]] \in Bytes
  BY DEF ReadData, TypeOK
<1>4. QED
  BY <1>1, <1>2, <1>3 DEF Goto, Bytes

-----------------------------------------------------------------------------
LEMMA InitIInv == Init => IInv
<1> SUFFICES ASSUME Init PROVE IInv
  OBVIOUS
<1>1. (CHOOSE l \in Locators : TRUE) \in Locators
  OBVIOUS
<1>2. TypeOK
  BY <1>1 DEF Init, TypeOK, Bytes, Hints, Places, Outcome, NoOutcome
<1>3. QED
  BY <1>2 DEF IInv, Init, HeldCompatible, ResultsCompatible, Succeeded, NoOutcome, EntryShape,
              EntryBeforeHint, HintsLeadToEntries, EntriesFilled, Hints, Bytes

LEMMA TypeStep ==
    ASSUME TypeOK, EntryBeforeHint, [Next]_vars
    PROVE  TypeOK'
<1> USE DEF files, outside
<1>1. ASSUME NEW c \in Clients, NEW id \in SourceIds, NEW l \in Locators, Register(c, id, l)
      PROVE  TypeOK'
  BY <1>1 DEF Register, TypeOK
<1>2. ASSUME NEW c \in Clients, NEW id \in SourceIds, Get(c, id) PROVE TypeOK'
  BY <1>2 DEF Get, Goto, TypeOK, Places, Outcome, NoOutcome, Bytes
<1>3. ASSUME NEW c \in Clients, ReadHint(c) PROVE TypeOK'
  <2>1. /\ pc' \in [Clients -> Places] /\ held' \in [Clients -> Bytes]
        /\ hit' \in [Clients -> BOOLEAN] /\ result' \in [Clients -> Outcome]
    <3>1. CASE Fail(c, "io")
      BY <3>1, FailType
    <3>2. CASE /\ pc' = [pc EXCEPT ![c] = "fetch"]
               /\ held' = held /\ hit' = hit /\ result' = result
      BY <3>2 DEF TypeOK, Places
    <3>3. ASSUME NEW h \in Bytes, pc' = [pc EXCEPT ![c] = "data"],
                 held' = [held EXCEPT ![c] = h], UNCHANGED <<hit, result>>
          PROVE  /\ pc' \in [Clients -> Places] /\ held' \in [Clients -> Bytes]
                 /\ hit' \in [Clients -> BOOLEAN] /\ result' \in [Clients -> Outcome]
      BY <3>3 DEF TypeOK, Places
    <3>4. QED
      BY <1>3, <3>1, <3>2, <3>3, ReadHintCases
  <2>2. QED
    BY <1>3, <2>1 DEF ReadHint, TypeOK
<1>4. ASSUME NEW c \in Clients, ReadData(c) PROVE TypeOK'
  <2>1. pc' \in [Clients -> Places] /\ held' \in [Clients -> Bytes]
    <3>1. PICK b \in Bytes :
            /\ held' = [held EXCEPT ![c] = b]
            /\ pc' = [pc EXCEPT ![c] = IF b = held[c] THEN "loaded" ELSE "openHint"]
      BY <1>4, ReadDataCases DEF EntryBeforeHint
    <3>2. QED
      BY <3>1 DEF TypeOK, Places
  <2>2. QED
    BY <1>4, <2>1 DEF ReadData, TypeOK
<1>5. ASSUME NEW c \in Clients, CheckHit(c) PROVE TypeOK'
  <2>1. Finish(c, "ok", held[c]) \/ Fail(c, "abi") \/ Fail(c, "capabilities")
    BY <1>5, CheckType DEF CheckHit
  <2>2. held[c] \in Bytes
    BY DEF TypeOK
  <2>3. QED
    BY <1>5, <2>1, <2>2, FinishType, FailType DEF CheckHit, TypeOK
<1>6. ASSUME NEW c \in Clients, FetchOrigin(c) PROVE TypeOK'
  <2> DEFINE b == origin[locator[c]]
  <2>1. \/ Fail(c, "io") \/ Fail(c, "abi") \/ Fail(c, "capabilities")
        \/ /\ b # NoFile /\ Goto(c, "openData") /\ held' = [held EXCEPT ![c] = b]
           /\ UNCHANGED <<hit, result>>
    BY <1>6, CheckType DEF FetchOrigin, Compatible
  <2>2. b \in Bytes \cup {NoFile}
    BY DEF TypeOK, Bytes
  <2> HIDE DEF b
  <2>3. QED
    <3>1. CASE Fail(c, "io") \/ Fail(c, "abi") \/ Fail(c, "capabilities")
      <4>1. /\ pc' \in [Clients -> Places] /\ held' \in [Clients -> Bytes]
            /\ hit' \in [Clients -> BOOLEAN] /\ result' \in [Clients -> Outcome]
        BY <3>1, FailType
      <4>2. QED
        BY <1>6, <4>1 DEF FetchOrigin, TypeOK
    <3>2. CASE /\ b # NoFile /\ Goto(c, "openData") /\ held' = [held EXCEPT ![c] = b]
               /\ UNCHANGED <<hit, result>>
      BY <1>6, <2>2, <3>2 DEF FetchOrigin, TypeOK, Goto, Places
    <3>3. QED
      BY <2>1, <3>1, <3>2
<1>7. ASSUME NEW c \in Clients, OpenData(c) PROVE TypeOK'
  BY <1>7 DEF OpenData, Goto, TypeOK, Places, Bytes
<1>8. ASSUME NEW c \in Clients, WriteData(c) PROVE TypeOK'
  BY <1>8 DEF WriteData, Goto, TypeOK, Places
<1>9. ASSUME NEW c \in Clients, OpenHint(c) PROVE TypeOK'
  BY <1>9 DEF OpenHint, Goto, TypeOK, Places, Hints
<1>10. ASSUME NEW c \in Clients, WriteHint(c) PROVE TypeOK'
  <2>1. hint' \in [Locators -> Hints \cup {NoFile}]
    BY <1>10 DEF WriteHint, TypeOK, Hints
  <2>2. /\ pc' \in [Clients -> Places] /\ held' \in [Clients -> Bytes]
        /\ hit' \in [Clients -> BOOLEAN] /\ result' \in [Clients -> Outcome]
    <3>1. CASE hit[c]
      BY <1>10, <3>1 DEF WriteHint, Goto, TypeOK, Places
    <3>2. CASE ~hit[c]
      <4>1. held[c] \in Bytes /\ Finish(c, "ok", held[c])
        BY <1>10, <3>2 DEF WriteHint, TypeOK
      <4>2. QED
        BY <4>1, FinishType
    <3>3. QED
      BY <3>1, <3>2
  <2>3. QED
    BY <1>10, <2>1, <2>2 DEF WriteHint, TypeOK
<1>11. ASSUME NEW c \in Clients, WriteFails(c) PROVE TypeOK'
  <2>1. Interrupt(c) /\ Fail(c, "io")
    BY <1>11 DEF WriteFails
  <2>2. QED
    BY <1>11, <2>1, InterruptType, FailType DEF WriteFails, Fault, TypeOK
<1>12. ASSUME NEW c \in Clients, Abandon(c) PROVE TypeOK'
  <2>1. Interrupt(c)
    BY <1>12 DEF Abandon
  <2>2. QED
    BY <1>12, <2>1, InterruptType DEF Abandon, Fault, Goto, TypeOK, Places, Bytes
<1>13. ASSUME NEW l \in Locators, NEW b \in Contents \cup {NoFile}, Publish(l, b)
       PROVE  TypeOK'
  BY <1>13 DEF Publish, TypeOK
<1>14. CASE UNCHANGED vars
  BY <1>14 DEF TypeOK, vars
<1>15. QED
  BY <1>1, <1>2, <1>3, <1>4, <1>5, <1>6, <1>7, <1>8, <1>9, <1>10, <1>11, <1>12, <1>13,
     <1>14 DEF Next, Step

-----------------------------------------------------------------------------
(* Every result passed the policy of the client it was returned to.        *)
CompatInv == HeldCompatible /\ ResultsCompatible

LEMMA FailCompat ==
    ASSUME TypeOK, CompatInv, NEW c \in Clients, NEW s \in {"io", "abi", "capabilities"},
           Fail(c, s)
    PROVE  CompatInv'
  BY DEF CompatInv, HeldCompatible, ResultsCompatible, Compatible, Succeeded, TypeOK, Fail,
         Finish, Goto

LEMMA ReturnCompat ==
    ASSUME TypeOK, CompatInv, NEW c \in Clients, NEW b \in Bytes, Compatible(c, b),
           Finish(c, "ok", b)
    PROVE  CompatInv'
  BY DEF CompatInv, HeldCompatible, ResultsCompatible, Compatible, Succeeded, TypeOK, Finish,
         Goto

(* A step that gives no new result and starts no store of other bytes.     *)
LEMMA MoveCompat ==
    ASSUME TypeOK, CompatInv, NEW c \in Clients, result' = result,
           \A k \in Clients \ {c} : pc'[k] = pc[k] /\ held'[k] = held[k] /\ hit'[k] = hit[k],
           pc'[c] \in {"openData", "writeData", "openHint", "writeHint"} /\ ~hit'[c]
             => Compatible(c, held'[c])
    PROVE  CompatInv'
  BY DEF CompatInv, HeldCompatible, ResultsCompatible, Compatible, Succeeded, TypeOK

LEMMA CompatStep ==
    ASSUME TypeOK, EntryBeforeHint, CompatInv, [Next]_vars
    PROVE  CompatInv'
<1>1. ASSUME NEW c \in Clients, NEW id \in SourceIds, Get(c, id) PROVE CompatInv'
  BY <1>1 DEF CompatInv, HeldCompatible, ResultsCompatible, Compatible, Succeeded, NoOutcome,
              TypeOK, Get, Goto
<1>2. ASSUME NEW c \in Clients, ReadHint(c) PROVE CompatInv'
  <2>1. CASE Fail(c, "io")
    BY <2>1, FailCompat
  <2>2. CASE pc' = [pc EXCEPT ![c] = "fetch"] /\ held' = held /\ hit' = hit /\ result' = result
    BY <2>2, MoveCompat DEF TypeOK
  <2>3. ASSUME NEW h \in Bytes, pc' = [pc EXCEPT ![c] = "data"],
               held' = [held EXCEPT ![c] = h], UNCHANGED <<hit, result>>
        PROVE  CompatInv'
    BY <2>3, MoveCompat DEF TypeOK
  <2>4. QED
    BY <1>2, <2>1, <2>2, <2>3, ReadHintCases
<1>3. ASSUME NEW c \in Clients, ReadData(c) PROVE CompatInv'
  <2>1. PICK b \in Bytes :
          /\ held' = [held EXCEPT ![c] = b]
          /\ pc' = [pc EXCEPT ![c] = IF b = held[c] THEN "loaded" ELSE "openHint"]
    BY <1>3, ReadDataCases DEF EntryBeforeHint
  <2>2. hit' = [hit EXCEPT ![c] = TRUE] /\ result' = result
    BY <1>3 DEF ReadData
  <2>3. QED
    BY <2>1, <2>2, MoveCompat DEF TypeOK
<1>4. ASSUME NEW c \in Clients, CheckHit(c) PROVE CompatInv'
  <2>1. \/ Compatible(c, held[c]) /\ Finish(c, "ok", held[c])
        \/ Fail(c, "abi") \/ Fail(c, "capabilities")
    BY <1>4, CheckType DEF CheckHit, Compatible
  <2>2. held[c] \in Bytes
    BY DEF TypeOK
  <2>3. QED
    BY <2>1, <2>2, ReturnCompat, FailCompat
<1>5. ASSUME NEW c \in Clients, FetchOrigin(c) PROVE CompatInv'
  <2> DEFINE b == origin[locator[c]]
  <2>1. \/ Fail(c, "io") \/ Fail(c, "abi") \/ Fail(c, "capabilities")
        \/ /\ Compatible(c, b) /\ Goto(c, "openData") /\ held' = [held EXCEPT ![c] = b]
           /\ hit' = hit /\ result' = result
    BY <1>5, CheckType DEF FetchOrigin, Compatible
  <2> HIDE DEF b
  <2>2. CASE /\ Compatible(c, b) /\ Goto(c, "openData") /\ held' = [held EXCEPT ![c] = b]
             /\ hit' = hit /\ result' = result
    BY <2>2, MoveCompat DEF TypeOK, Goto
  <2>3. QED
    BY <2>1, <2>2, FailCompat
<1>6. ASSUME NEW c \in Clients, OpenData(c) \/ WriteData(c) \/ OpenHint(c) PROVE CompatInv'
  <2>1. /\ pc[c] \in {"openData", "writeData", "openHint"} /\ \E l : Goto(c, l)
        /\ UNCHANGED <<held, hit, result>>
    BY <1>6 DEF OpenData, WriteData, OpenHint
  <2>2. ~hit[c] => Compatible(c, held[c])
    BY <2>1 DEF CompatInv, HeldCompatible
  <2>3. QED
    BY <2>1, <2>2, MoveCompat DEF Goto, TypeOK
<1>7. ASSUME NEW c \in Clients, WriteHint(c) PROVE CompatInv'
  <2>1. CASE hit[c]
    BY <1>7, <2>1, MoveCompat DEF WriteHint, Goto, TypeOK
  <2>2. CASE ~hit[c]
    <3>1. Compatible(c, held[c]) /\ held[c] \in Bytes /\ Finish(c, "ok", held[c])
      BY <1>7, <2>2 DEF WriteHint, CompatInv, HeldCompatible, TypeOK
    <3>2. QED
      BY <3>1, ReturnCompat
  <2>3. QED
    BY <2>1, <2>2
<1>8. ASSUME NEW c \in Clients, WriteFails(c) PROVE CompatInv'
  BY <1>8, FailCompat DEF WriteFails
<1>9. ASSUME NEW c \in Clients, Abandon(c) PROVE CompatInv'
  BY <1>9, MoveCompat DEF Abandon, Goto, TypeOK
<1>10. CASE UNCHANGED <<pc, held, hit, result>>
  BY <1>10 DEF CompatInv, HeldCompatible, ResultsCompatible, Compatible, Succeeded
<1>11. QED
  BY <1>1, <1>2, <1>3, <1>4, <1>5, <1>6, <1>7, <1>8, <1>9, <1>10
     DEF Next, Step, Register, Publish, vars

-----------------------------------------------------------------------------
(* Entries are written before the hints that lead to them and keep their   *)
(* own bytes or a damaged rest of them.                                    *)
OrderInv == EntryShape /\ EntryBeforeHint /\ HintsLeadToEntries

(* Steps that leave entries and hints alone and hold bytes as before, or   *)
(* bytes whose entry is there.                                             *)
LEMMA MoveOrder ==
    ASSUME TypeOK, OrderInv, dataFile' = dataFile, hint' = hint, NEW c \in Clients,
           \A k \in Clients \ {c} : pc'[k] = pc[k] /\ held'[k] = held[k],
           pc'[c] = "data" => dataFile[held'[c]] # NoFile,
           pc'[c] \in {"writeData", "openHint", "writeHint"} /\ held'[c] \in Contents
             => dataFile[held'[c]] # NoFile
    PROVE  OrderInv'
  BY DEF OrderInv, EntryShape, EntryBeforeHint, HintsLeadToEntries

LEMMA FailOrder ==
    ASSUME TypeOK, OrderInv, NEW c \in Clients, NEW s, NEW b, Finish(c, s, b),
           dataFile' = dataFile, hint' = hint
    PROVE  OrderInv'
  BY MoveOrder DEF Finish, Goto, TypeOK

LEMMA InterruptOrder ==
    ASSUME TypeOK, OrderInv, NEW c \in Clients, Interrupt(c),
           pc' = [pc EXCEPT ![c] = "idle"], held' = [held EXCEPT ![c] = Empty]
    PROVE  OrderInv'
<1>1. \A i \in Bytes : /\ dataFile'[i] \in {dataFile[i], Garbled}
                       /\ dataFile[i] # NoFile => dataFile'[i] # NoFile
  BY DEF Interrupt, TypeOK, Hints, Bytes
<1>2. \A l \in Locators : hint'[l] \in {hint[l], Cut}
  BY DEF Interrupt, TypeOK
<1>3. EntryShape'
  BY <1>1 DEF OrderInv, EntryShape
<1>4. EntryBeforeHint'
  BY <1>1 DEF OrderInv, EntryBeforeHint, TypeOK
<1>5. HintsLeadToEntries'
  BY <1>1, <1>2 DEF OrderInv, HintsLeadToEntries, Bytes
<1>6. QED
  BY <1>3, <1>4, <1>5 DEF OrderInv

LEMMA OrderStep ==
    ASSUME TypeOK, OrderInv, [Next]_vars
    PROVE  OrderInv'
<1> USE DEF files, outside
<1>1. ASSUME NEW c \in Clients, NEW id \in SourceIds, Get(c, id) PROVE OrderInv'
  BY <1>1, MoveOrder DEF Get, Goto, TypeOK
<1>2. ASSUME NEW c \in Clients, ReadHint(c) PROVE OrderInv'
  <2>1. dataFile' = dataFile /\ hint' = hint
    BY <1>2 DEF ReadHint
  <2>2. CASE Fail(c, "io")
    BY <2>1, <2>2, FailOrder DEF Fail
  <2>3. CASE pc' = [pc EXCEPT ![c] = "fetch"] /\ held' = held
    BY <2>1, <2>3, MoveOrder DEF TypeOK
  <2>4. ASSUME NEW h \in Bytes, dataFile[h] # NoFile, pc' = [pc EXCEPT ![c] = "data"],
               held' = [held EXCEPT ![c] = h]
        PROVE  OrderInv'
    BY <2>1, <2>4, MoveOrder DEF TypeOK
  <2>5. QED
    BY <1>2, <2>2, <2>3, <2>4, ReadHintCases
<1>3. ASSUME NEW c \in Clients, ReadData(c) PROVE OrderInv'
  <2>1. dataFile' = dataFile /\ hint' = hint
    BY <1>3 DEF ReadData
  <2>2. PICK b \in {dataFile[held[c]], Garbled} :
          /\ b \in Bytes
          /\ held' = [held EXCEPT ![c] = b]
          /\ pc' = [pc EXCEPT ![c] = IF b = held[c] THEN "loaded" ELSE "openHint"]
    BY <1>3, ReadDataCases DEF OrderInv, EntryBeforeHint
  <2>3. b \in Contents => b = held[c] /\ pc'[c] = "loaded"
    BY <2>2 DEF OrderInv, EntryShape, TypeOK, Bytes, Hints
  <2>4. QED
    BY <2>1, <2>2, <2>3, MoveOrder DEF TypeOK
<1>4. ASSUME NEW c \in Clients, CheckHit(c) PROVE OrderInv'
  BY <1>4, FailOrder DEF CheckHit, Fail
<1>5. ASSUME NEW c \in Clients, FetchOrigin(c) PROVE OrderInv'
  <2>1. dataFile' = dataFile /\ hint' = hint
    BY <1>5 DEF FetchOrigin
  <2>2. CASE \E s : Fail(c, s)
    BY <2>1, <2>2, FailOrder DEF Fail
  <2>3. CASE Goto(c, "openData") /\ held' = [held EXCEPT ![c] = origin[locator[c]]]
    BY <2>1, <2>3, MoveOrder DEF Goto, TypeOK
  <2>4. QED
    BY <1>5, <2>2, <2>3 DEF FetchOrigin
<1>6. ASSUME NEW c \in Clients, OpenData(c) \/ WriteData(c) PROVE OrderInv'
  <2>1. PICK b \in {Empty, held[c]} : dataFile' = [dataFile EXCEPT ![held[c]] = b]
    BY <1>6 DEF OpenData, WriteData
  <2>2. /\ hint' = hint /\ held' = held
        /\ \A k \in Clients \ {c} : pc'[k] = pc[k]
        /\ pc'[c] \in {"writeData", "openHint"}
    BY <1>6 DEF OpenData, WriteData, Goto, TypeOK
  <2>3. held[c] \in Bytes /\ b \in Bytes
    BY <2>1 DEF TypeOK, Bytes
  <2>4. EntryShape'
    BY <2>1, <2>3 DEF OrderInv, EntryShape, TypeOK
  <2>5. \A i \in Bytes : dataFile[i] # NoFile => dataFile'[i] # NoFile
    BY <2>1, <2>3 DEF TypeOK, Hints
  <2>6. EntryBeforeHint'
    <3>1. dataFile'[held[c]] # NoFile
      BY <2>1, <2>3 DEF TypeOK, Hints
    <3>2. QED
      BY <2>2, <2>3, <2>5, <3>1 DEF OrderInv, EntryBeforeHint, TypeOK
  <2>7. HintsLeadToEntries'
    BY <2>2, <2>5 DEF OrderInv, HintsLeadToEntries, Bytes
  <2>8. QED
    BY <2>4, <2>6, <2>7 DEF OrderInv
<1>7. ASSUME NEW c \in Clients, OpenHint(c) PROVE OrderInv'
  BY <1>7 DEF OpenHint, Goto, OrderInv, EntryShape, EntryBeforeHint, HintsLeadToEntries,
              TypeOK, Bytes
<1>8. ASSUME NEW c \in Clients, WriteHint(c) PROVE OrderInv'
  <2>1. held[c] \in Contents => dataFile[held[c]] # NoFile
    BY <1>8 DEF WriteHint, OrderInv, EntryBeforeHint
  <2>2. dataFile' = dataFile /\ hint' = [hint EXCEPT ![locator[c]] = held[c]]
    BY <1>8 DEF WriteHint
  <2>3. /\ \A k \in Clients \ {c} : pc'[k] = pc[k] /\ held'[k] = held[k]
        /\ pc'[c] \in {"loaded", "idle"}
    BY <1>8 DEF WriteHint, Finish, Goto, TypeOK
  <2>4. HintsLeadToEntries'
    BY <2>1, <2>2 DEF OrderInv, HintsLeadToEntries, TypeOK
  <2>5. EntryShape' /\ EntryBeforeHint'
    BY <2>2, <2>3 DEF OrderInv, EntryShape, EntryBeforeHint
  <2>6. QED
    BY <2>4, <2>5 DEF OrderInv
<1>9. ASSUME NEW c \in Clients, WriteFails(c) PROVE OrderInv'
  BY <1>9, InterruptOrder DEF WriteFails, Fail, Finish, Goto
<1>10. ASSUME NEW c \in Clients, Abandon(c) PROVE OrderInv'
  BY <1>10, InterruptOrder DEF Abandon, Goto
<1>11. CASE UNCHANGED <<dataFile, hint, pc, held>>
  BY <1>11 DEF OrderInv, EntryShape, EntryBeforeHint, HintsLeadToEntries
<1>12. QED
  BY <1>1, <1>2, <1>3, <1>4, <1>5, <1>6, <1>7, <1>8, <1>9, <1>10, <1>11
     DEF Next, Step, Register, Publish, vars

-----------------------------------------------------------------------------
(* Equal bytes stored by several clients cannot spoil their entry.         *)
LEMMA EntriesStep ==
    ASSUME TypeOK, EntriesFilled, [Next]_vars
    PROVE  EntriesFilled'
<1> DEFINE Filled(i) == \/ dataFile[i] \in {NoFile, i}
                        \/ dataFile[i] = Empty /\ \E c \in Clients : WritesData(c, i)
<1> SUFFICES ASSUME faults' = 0, NEW i \in Bytes PROVE Filled(i)'
  BY DEF EntriesFilled
<1>1. faults = 0 /\ ~(\E c \in Clients : WriteFails(c) \/ Abandon(c))
  <2>1. ~Fault
    BY DEF Fault, TypeOK
  <2>2. ~(\E c \in Clients : WriteFails(c) \/ Abandon(c))
    BY <2>1 DEF WriteFails, Abandon
  <2>3. faults' = faults
    BY <2>2 DEF Next, Step, Register, Get, ReadHint, ReadData, CheckHit, FetchOrigin, OpenData,
                WriteData, OpenHint, WriteHint, Publish, vars
  <2>4. QED
    BY <2>2, <2>3
<1>2. Filled(i)
  BY <1>1 DEF EntriesFilled
<1>3. ASSUME NEW c \in Clients, OpenData(c) PROVE Filled(i)'
  BY <1>2, <1>3 DEF OpenData, Goto, WritesData, TypeOK
<1>4. ASSUME NEW c \in Clients, WriteData(c) PROVE Filled(i)'
  BY <1>2, <1>4 DEF WriteData, Goto, WritesData, TypeOK
<1>5. ASSUME dataFile' = dataFile, \A c \in Clients : WritesData(c, i) => WritesData(c, i)'
      PROVE  Filled(i)'
  BY <1>2, <1>5
<1>6. ASSUME NEW c \in Clients,
             \/ \E id \in SourceIds : Get(c, id)
             \/ ReadHint(c) \/ ReadData(c) \/ CheckHit(c) \/ FetchOrigin(c)
             \/ OpenHint(c) \/ WriteHint(c)
      PROVE  /\ dataFile' = dataFile
             /\ \A k \in Clients : WritesData(k, i) => WritesData(k, i)'
  <2>1. dataFile' = dataFile /\ pc[c] # "writeData"
    BY <1>6 DEF Get, ReadHint, ReadData, CheckHit, FetchOrigin, OpenHint, WriteHint, files
  <2>2. \A k \in Clients \ {c} : pc'[k] = pc[k] /\ held'[k] = held[k]
    BY <1>6 DEF Get, ReadHint, ReadData, CheckHit, FetchOrigin, OpenHint, WriteHint, Fail,
                Finish, Goto, TypeOK
  <2>3. QED
    BY <2>1, <2>2 DEF WritesData
<1>7. CASE UNCHANGED <<dataFile, pc, held>>
  BY <1>2, <1>7 DEF WritesData
<1>8. QED
  BY <1>1, <1>3, <1>4, <1>5, <1>6, <1>7 DEF Next, Step, Register, Publish, files, vars

-----------------------------------------------------------------------------
LEMMA IInvStep == IInv /\ [Next]_vars => IInv'
  BY TypeStep, CompatStep, OrderStep, EntriesStep DEF IInv, CompatInv, OrderInv

(* Every behaviour of the cache keeps the inductive invariant: what a client *)
(* holds its own policy accepts, entries come before their hints, and an    *)
(* entry nobody fills is whole or empty.                                    *)
THEOREM Invariance == Spec => []IInv
  BY InitIInv, IInvStep, PTL DEF Spec

(* Every reachable state of the cache is well typed.                       *)
THEOREM TypeCorrect == Spec => []TypeOK
<1>1. IInv => TypeOK
  BY DEF IInv
<1>2. QED
  BY <1>1, Invariance, PTL

(* No client is ever handed a component its policy rejects.                *)
THEOREM OnlyCompatibleResults == Spec => []ResultsCompatible
<1>1. IInv => ResultsCompatible
  BY DEF IInv
<1>2. QED
  BY <1>1, Invariance, PTL

(* A hint to a published content always leads to an entry, whatever was    *)
(* interrupted.                                                            *)
THEOREM EntriesPrecedeHints == Spec => []HintsLeadToEntries
<1>1. IInv => HintsLeadToEntries
  BY DEF IInv
<1>2. QED
  BY <1>1, Invariance, PTL

(* Without faults an entry nobody writes holds the bytes it is named for.  *)
THEOREM ConcurrentStoresAgree == Spec => []EntriesIntact
<1>1. IInv => EntriesIntact
  BY DEF IInv, EntriesFilled, EntriesIntact
<1>2. QED
  BY <1>1, Invariance, PTL
-----------------------------------------------------------------------------
(* A cache that is had by one get at a time.                               *)
Acts(c) ==
    \/ \E id \in SourceIds : Get(c, id)
    \/ ReadHint(c) \/ ReadData(c) \/ CheckHit(c) \/ FetchOrigin(c)
    \/ OpenData(c) \/ WriteData(c) \/ OpenHint(c) \/ WriteHint(c)
    \/ WriteFails(c) \/ Abandon(c)

LEMMA NextCases ==
    ASSUME [Next]_vars
    PROVE  \/ \E c \in Clients : Acts(c)
           \/ \E l \in Locators, b \in Contents \cup {NoFile} : Publish(l, b)
           \/ UNCHANGED <<files, origin, pc, locator, held, hit, result, faults, alone>>
<1>1. ASSUME NEW c \in Clients, Step(c)
      PROVE  \/ Acts(c)
             \/ UNCHANGED <<files, origin, pc, locator, held, hit, result, faults, alone>>
  <2>1. ASSUME NEW id \in SourceIds, NEW l \in Locators, Register(c, id, l)
        PROVE  UNCHANGED <<files, origin, pc, locator, held, hit, result, faults, alone>>
    BY <2>1 DEF Register
  <2>2. QED
    BY <1>1, <2>1 DEF Step, Acts
<1>2. CASE UNCHANGED vars
  BY <1>2 DEF vars, files
<1>3. QED
  BY <1>1, <1>2 DEF Next

(* A get starts only when no other is on its way, or else they overlap.    *)
LEMMA ActsAlone ==
    ASSUME TypeOK, OneAtATime, NEW c \in Clients, Acts(c)
    PROVE  /\ OneAtATime' /\ (alone' => alone) /\ faults' \in {faults, faults + 1}
           /\ pc[c] # "idle" => alone' = alone
           /\ \A k \in Clients \ {c} :
                /\ pc'[k] = pc[k] /\ locator'[k] = locator[k] /\ held'[k] = held[k]
                /\ hit'[k] = hit[k] /\ result'[k] = result[k]
           /\ alone' => \A k \in Clients \ {c} : pc[k] = "idle"
<1>1. ASSUME NEW id \in SourceIds, Get(c, id)
      PROVE  /\ alone' = (alone /\ \A k \in Clients : pc[k] = "idle") /\ faults' = faults
             /\ pc[c] = "idle"
             /\ \A k \in Clients \ {c} :
                  /\ pc'[k] = pc[k] /\ locator'[k] = locator[k] /\ held'[k] = held[k]
                  /\ hit'[k] = hit[k] /\ result'[k] = result[k]
  BY <1>1 DEF Get, Goto, TypeOK
<1>2. ASSUME ~(\E id \in SourceIds : Get(c, id))
      PROVE  /\ alone' = alone /\ faults' \in {faults, faults + 1} /\ pc[c] # "idle"
             /\ \A k \in Clients \ {c} :
                  /\ pc'[k] = pc[k] /\ locator'[k] = locator[k] /\ held'[k] = held[k]
                  /\ hit'[k] = hit[k] /\ result'[k] = result[k]
  BY <1>2 DEF Acts, ReadHint, ReadData, CheckHit, FetchOrigin, OpenData, WriteData, OpenHint,
              WriteHint, WriteFails, Abandon, Fault, Fail, Finish, Goto, TypeOK
<1>3. QED
  <2>1. CASE \E id \in SourceIds : Get(c, id)
    BY <1>1, <2>1 DEF OneAtATime
  <2>2. CASE ~(\E id \in SourceIds : Get(c, id))
    BY <1>2, <2>2 DEF OneAtATime
  <2>3. QED
    BY <2>1, <2>2

(* Nothing is pending where the only client reads, so it reads what the    *)
(* files hold.                                                             *)
LEMMA ReadsWhole ==
    ASSUME TypeOK, NEW c \in Clients, \A k \in Clients \ {c} : pc[k] = "idle"
    PROVE  /\ pc[c] # "writeHint" => \A l, v : Readable(v, HintPending(l), Cut) = {v}
           /\ pc[c] # "writeData" => \A i, v : Readable(v, DataPending(i), Garbled) = {v}
<1>1. \A v, part : Readable(v, {}, part) = {v}
  BY DEF Readable
<1>2. pc[c] # "writeHint" => \A l : HintPending(l) = {}
  BY DEF HintPending, WritesHint
<1>3. pc[c] # "writeData" => \A i : DataPending(i) = {}
  BY DEF DataPending, WritesData
<1>4. QED
  BY <1>1, <1>2, <1>3

LEMMA ReadHintAlone ==
    ASSUME TypeOK, NEW c \in Clients, ReadHint(c), \A k \in Clients \ {c} : pc[k] = "idle"
    PROVE  LET h == hint[locator[c]] IN
           \/ h = NoFile /\ pc' = [pc EXCEPT ![c] = "fetch"] /\ UNCHANGED <<held, hit, result>>
           \/ h = Blank /\ Fail(c, "io")
           \/ /\ h = Cut \/ (h \in Bytes /\ dataFile[h] = NoFile)
              /\ pc' = [pc EXCEPT ![c] = "fetch"] /\ UNCHANGED <<held, hit, result>>
           \/ /\ h \in Bytes /\ dataFile[h] # NoFile /\ pc' = [pc EXCEPT ![c] = "data"]
              /\ held' = [held EXCEPT ![c] = h] /\ UNCHANGED <<hit, result>>
<1>1. Readable(hint[locator[c]], HintPending(locator[c]), Cut) = {hint[locator[c]]}
  BY ReadsWhole DEF ReadHint
<1>2. QED
  BY <1>1 DEF ReadHint, Goto

LEMMA ReadDataAlone ==
    ASSUME TypeOK, NEW c \in Clients, ReadData(c), \A k \in Clients \ {c} : pc[k] = "idle"
    PROVE  LET i == held[c] IN
           /\ held' = [held EXCEPT ![c] = dataFile[i]] /\ hit' = [hit EXCEPT ![c] = TRUE]
           /\ pc' = [pc EXCEPT ![c] = IF dataFile[i] = i THEN "loaded" ELSE "openHint"]
<1>1. Readable(dataFile[held[c]], DataPending(held[c]), Garbled) = {dataFile[held[c]]}
  BY ReadsWhole DEF ReadData
<1>2. QED
  BY <1>1 DEF ReadData, Goto
(* A get that is on its way has no outcome yet, and while it is the only   *)
(* one, the entry it goes by is the one its locator's hint names.          *)
LEMMA HandStep ==
    ASSUME TypeOK, OneAtATime, OutcomesOpen, HintInHand, [Next]_vars
    PROVE  OutcomesOpen' /\ HintInHand'
<1> USE DEF files
<1>1. ASSUME NEW c \in Clients, Acts(c),
             pc'[c] # "idle" => result'[c].status = "none",
             alone' => (pc'[c] \in {"data", "loaded"} => hint'[locator'[c]] = held'[c])
      PROVE  OutcomesOpen' /\ HintInHand'
  BY <1>1, ActsAlone DEF OutcomesOpen, HintInHand
<1>2. ASSUME NEW c \in Clients, Acts(c)
      PROVE  /\ pc'[c] # "idle" => result'[c].status = "none"
             /\ alone' => (pc'[c] \in {"data", "loaded"} => hint'[locator'[c]] = held'[c])
  <2>1. /\ pc[c] # "idle" => result[c].status = "none"
        /\ alone' => alone /\ \A k \in Clients \ {c} : pc[k] = "idle"
    BY <1>2, ActsAlone DEF OutcomesOpen
  <2>2. ASSUME NEW id \in SourceIds, Get(c, id)
        PROVE  pc'[c] = "hint" /\ result'[c].status = "none"
    BY <2>2 DEF Get, Goto, NoOutcome, TypeOK
  <2>3. CASE ReadHint(c)
    <3>1. pc'[c] # "idle" => result'[c] = result[c]
      BY <2>3, ReadHintCases DEF Fail, Finish, Goto, TypeOK
    <3>2. pc[c] # "idle" /\ hint' = hint /\ locator' = locator
      BY <2>3 DEF ReadHint
    <3>3. alone' => (pc'[c] \in {"data", "loaded"} => held'[c] = hint[locator[c]])
      <4> SUFFICES ASSUME alone', pc'[c] \in {"data", "loaded"} PROVE held'[c] = hint[locator[c]]
        OBVIOUS
      <4>1. \A k \in Clients \ {c} : pc[k] = "idle"
        BY <2>1
      <4> DEFINE h == hint[locator[c]]
      <4>2. \/ pc' = [pc EXCEPT ![c] = "fetch"]
            \/ Fail(c, "io")
            \/ pc' = [pc EXCEPT ![c] = "data"] /\ held' = [held EXCEPT ![c] = h]
        BY <2>3, <4>1, ReadHintAlone
      <4>3. pc \in [Clients -> Places] /\ held \in [Clients -> Bytes]
        BY DEF TypeOK
      <4> HIDE DEF h
      <4>4. QED
        BY <4>2, <4>3 DEF Fail, Finish, Goto, h
    <3>4. QED
      BY <2>1, <3>1, <3>2, <3>3
  <2>4. CASE ReadData(c)
    <3>1. pc[c] = "data" /\ result' = result /\ hint' = hint /\ locator' = locator
      BY <2>4 DEF ReadData
    <3>2. alone' => (pc'[c] \in {"data", "loaded"} => held'[c] = held[c])
      <4> SUFFICES ASSUME alone', pc'[c] \in {"data", "loaded"} PROVE held'[c] = held[c]
        OBVIOUS
      <4>1. \A k \in Clients \ {c} : pc[k] = "idle"
        BY <2>1
      <4>2. QED
        BY <2>4, <4>1, ReadDataAlone DEF TypeOK
    <3>3. QED
      BY <2>1, <3>1, <3>2 DEF HintInHand
  <2>5. CASE CheckHit(c) \/ WriteFails(c) \/ Abandon(c)
    <3>1. pc'[c] = "idle"
      BY <2>5 DEF CheckHit, WriteFails, Abandon, Fail, Finish, Goto, TypeOK
    <3>2. QED
      BY <3>1
  <2>6. CASE FetchOrigin(c) \/ OpenData(c) \/ WriteData(c) \/ OpenHint(c)
    <3>1. /\ pc[c] # "idle" /\ pc'[c] \notin {"data", "loaded"}
          /\ pc'[c] # "idle" => result'[c] = result[c]
      BY <2>6 DEF FetchOrigin, OpenData, WriteData, OpenHint, Fail, Finish, Goto, TypeOK
    <3>2. QED
      BY <2>1, <3>1
  <2>7. CASE WriteHint(c)
    <3>1. /\ pc[c] # "idle" /\ hint'[locator[c]] = held[c] /\ locator' = locator
          /\ pc'[c] # "idle" => result'[c] = result[c] /\ held'[c] = held[c]
      BY <2>7 DEF WriteHint, Finish, Goto, TypeOK
    <3>2. QED
      BY <2>1, <3>1
  <2>8. QED
    BY <1>2, <2>2, <2>3, <2>4, <2>5, <2>6, <2>7 DEF Acts
<1>3. ASSUME NEW l \in Locators, NEW b \in Contents \cup {NoFile}, Publish(l, b)
      PROVE  OutcomesOpen' /\ HintInHand'
  BY <1>3 DEF Publish, OutcomesOpen, HintInHand
<1>4. CASE UNCHANGED <<files, origin, pc, locator, held, hit, result, faults, alone>>
  BY <1>4 DEF OutcomesOpen, HintInHand
<1>5. QED
  BY <1>1, <1>2, <1>3, <1>4, NextCases

-----------------------------------------------------------------------------
(* What the only client does as long as nothing was cut short: a hint it   *)
(* reads names a content whose entry is there, and the entry is whole.     *)
Clean == alone /\ faults = 0

LEMMA CleanBefore ==
    ASSUME IInv, PrivateInv, NEW c \in Clients, Acts(c), alone', faults' = 0
    PROVE  /\ Clean /\ HintsName /\ GetsFollow /\ ~WriteFails(c) /\ ~Abandon(c)
           /\ \A k \in Clients \ {c} : pc[k] = "idle"
<1>1. TypeOK /\ faults \in Nat
  BY DEF IInv, TypeOK
<1>2. alone /\ faults = 0 /\ \A k \in Clients \ {c} : pc[k] = "idle"
  <2>1. /\ alone' => alone /\ \A k \in Clients \ {c} : pc[k] = "idle"
        /\ faults' \in {faults, faults + 1}
    BY <1>1, ActsAlone DEF PrivateInv
  <2>2. QED
    BY <1>1, <2>1
<1>3. ~WriteFails(c) /\ ~Abandon(c)
  BY <1>2 DEF WriteFails, Abandon, Fault
<1>4. QED
  BY <1>2, <1>3 DEF PrivateInv, Clean

LEMMA CleanReadHint ==
    ASSUME IInv, Clean, HintsName, NEW c \in Clients, ReadHint(c),
           \A k \in Clients \ {c} : pc[k] = "idle"
    PROVE  LET h == hint[locator[c]] IN
           /\ hit' = hit /\ result' = result
           /\ \/ h = NoFile /\ pc' = [pc EXCEPT ![c] = "fetch"] /\ held' = held
              \/ /\ h \in Contents /\ dataFile[h] # NoFile /\ pc' = [pc EXCEPT ![c] = "data"]
                 /\ held' = [held EXCEPT ![c] = h]
<1> DEFINE h == hint[locator[c]]
<1>1. TypeOK /\ HintsLeadToEntries /\ locator[c] \in Locators /\ pc[c] = "hint"
  BY DEF IInv, TypeOK, ReadHint
<1>2. h \in Contents \cup {NoFile}
  BY <1>1 DEF HintsName, WritesHint
<1>3. h \in Contents => dataFile[h] # NoFile
  BY <1>1 DEF HintsLeadToEntries
<1>4. h \in Contents => h \in Bytes /\ h # NoFile /\ h # Blank /\ h # Cut
  BY DEF Bytes, Hints
<1>5. NoFile # Blank /\ NoFile # Cut /\ NoFile \notin Bytes
  BY DEF Hints
<1>6. \/ h = NoFile /\ pc' = [pc EXCEPT ![c] = "fetch"] /\ UNCHANGED <<held, hit, result>>
      \/ h = Blank
      \/ h = Cut \/ (h \in Bytes /\ dataFile[h] = NoFile)
      \/ /\ h \in Bytes /\ dataFile[h] # NoFile /\ pc' = [pc EXCEPT ![c] = "data"]
         /\ held' = [held EXCEPT ![c] = h] /\ UNCHANGED <<hit, result>>
  BY <1>1, ReadHintAlone
<1> HIDE DEF h
<1>7. QED
  BY <1>2, <1>3, <1>4, <1>5, <1>6 DEF h

LEMMA CleanReadData ==
    ASSUME IInv, Clean, NEW c \in Clients, ReadData(c), \A k \in Clients \ {c} : pc[k] = "idle"
    PROVE  /\ held' = held /\ hit' = [hit EXCEPT ![c] = TRUE] /\ pc' = [pc EXCEPT ![c] = "loaded"]
           /\ dataFile[held[c]] = held[c]
<1>1. /\ TypeOK /\ pc[c] = "data" /\ held[c] \in Bytes /\ dataFile[held[c]] # NoFile
      /\ held \in [Clients -> Bytes] /\ EntriesFilled
  BY DEF IInv, TypeOK, ReadData, EntryBeforeHint
<1>2. ~(\E k \in Clients : WritesData(k, held[c]))
  BY <1>1 DEF WritesData
<1>3. dataFile[held[c]] = held[c]
  BY <1>1, <1>2 DEF EntriesFilled, Clean
<1>4. QED
  BY <1>1, <1>3, ReadDataAlone

(* GetsFollow, of one client's values.                                     *)
Stages == {"openData", "writeData", "openHint", "writeHint"}
Follows(p, l, h, t, hf) ==
    /\ p = "fetch" => hf[l] = NoFile
    /\ t => p = "loaded"
    /\ p \in Stages => h \in Contents

LEMMA FollowsNow ==
    /\ GetsFollow <=> \A c \in Clients : Follows(pc[c], locator[c], held[c], hit[c], hint)
    /\ GetsFollow' <=> \A c \in Clients : Follows(pc'[c], locator'[c], held'[c], hit'[c], hint')
  BY DEF GetsFollow, Follows, Storing, Stages

LEMMA CleanClient ==
    ASSUME IInv, PrivateInv, NEW c \in Clients, Acts(c), alone', faults' = 0
    PROVE  Follows(pc'[c], locator'[c], held'[c], hit'[c], hint')
<1> USE DEF files
<1>1. /\ Clean /\ HintsName /\ GetsFollow /\ ~WriteFails(c) /\ ~Abandon(c)
      /\ \A k \in Clients \ {c} : pc[k] = "idle"
  BY CleanBefore
<1>2. TypeOK /\ locator[c] \in Locators /\ hit[c] \in BOOLEAN /\ held[c] \in Bytes
  BY DEF IInv, TypeOK
<1>3. Follows(pc[c], locator[c], held[c], hit[c], hint)
  BY <1>1, FollowsNow
<1>4. ASSUME NEW id \in SourceIds, Get(c, id)
      PROVE  Follows(pc'[c], locator'[c], held'[c], hit'[c], hint')
  <2>1. pc[c] = "idle" /\ pc'[c] = "hint" /\ hit'[c] = hit[c]
    BY <1>2, <1>4 DEF Get, Goto, TypeOK
  <2>2. QED
    BY <1>3, <2>1 DEF Follows, Stages
<1>5. CASE ReadHint(c)
  <2>1. pc[c] = "hint" /\ hint' = hint /\ locator' = locator
    BY <1>5 DEF ReadHint
  <2>2. hit'[c] = hit[c] /\ (pc'[c] = "data" \/ (pc'[c] = "fetch" /\ hint[locator[c]] = NoFile))
    BY <1>1, <1>2, <1>5, CleanReadHint DEF TypeOK
  <2>3. QED
    BY <1>3, <2>1, <2>2 DEF Follows, Stages
<1>6. CASE ReadData(c)
  <2>1. pc'[c] = "loaded"
    BY <1>1, <1>2, <1>6, CleanReadData DEF TypeOK
  <2>2. QED
    BY <2>1 DEF Follows, Stages
<1>7. CASE CheckHit(c) \/ WriteHint(c)
  <2>1. pc[c] = "writeHint" => ~hit[c]
    BY <1>3 DEF Follows
  <2>2. pc'[c] = "idle" /\ hit'[c] = FALSE
    BY <1>2, <1>7, <2>1 DEF CheckHit, WriteHint, Fail, Finish, Goto, TypeOK
  <2>3. QED
    BY <2>2 DEF Follows, Stages
<1>8. CASE FetchOrigin(c)
  <2>1. /\ pc[c] = "fetch"
        /\ \/ pc'[c] = "idle" /\ hit'[c] = FALSE
           \/ pc'[c] = "openData" /\ hit'[c] = hit[c] /\ held'[c] \in Contents
    BY <1>2, <1>8 DEF FetchOrigin, Fail, Finish, Goto, TypeOK
  <2>2. QED
    BY <1>3, <2>1 DEF Follows, Stages
<1>9. CASE OpenData(c) \/ WriteData(c) \/ OpenHint(c)
  <2>1. /\ pc[c] \in Stages /\ pc'[c] \in Stages /\ pc[c] # "loaded"
        /\ held'[c] = held[c] /\ hit'[c] = hit[c]
    BY <1>2, <1>9 DEF OpenData, WriteData, OpenHint, Goto, TypeOK, Stages
  <2>2. QED
    BY <1>3, <2>1 DEF Follows, Stages
<1>10. QED
  BY <1>1, <1>4, <1>5, <1>6, <1>7, <1>8, <1>9 DEF Acts

LEMMA CleanHints ==
    ASSUME IInv, PrivateInv, NEW c \in Clients, Acts(c), alone', faults' = 0
    PROVE  HintsName'
<1> USE DEF files
<1>1. /\ Clean /\ HintsName /\ GetsFollow /\ ~WriteFails(c) /\ ~Abandon(c)
      /\ \A k \in Clients \ {c} : pc[k] = "idle"
  BY CleanBefore
<1>2. TypeOK /\ locator[c] \in Locators /\ OneAtATime
  BY DEF IInv, PrivateInv, TypeOK
<1>3. \A k \in Clients \ {c} : pc'[k] = pc[k] /\ locator'[k] = locator[k]
  BY <1>2, ActsAlone
<1>4. CASE OpenHint(c)
  <2>1. hint' = [hint EXCEPT ![locator[c]] = Blank] /\ pc'[c] = "writeHint" /\ locator' = locator
    BY <1>2, <1>4 DEF OpenHint, Goto, TypeOK
  <2>2. pc'[c] = "writeHint" /\ locator'[c] = locator[c] /\ hint'[locator[c]] = Blank
        /\ \A l \in Locators \ {locator[c]} : hint'[l] = hint[l]
    BY <1>2, <2>1 DEF TypeOK
  <2>3. \A l \in Locators \ {locator[c]} : ~(\E k \in Clients : WritesHint(k, l))
    BY <1>1, <1>4 DEF WritesHint, OpenHint
  <2>4. QED
    BY <1>1, <1>2, <2>2, <2>3 DEF HintsName, WritesHint
<1>5. CASE WriteHint(c)
  <2>1. hint' = [hint EXCEPT ![locator[c]] = held[c]] /\ held[c] \in Contents
    BY <1>1, <1>5 DEF WriteHint, GetsFollow, Storing
  <2>2. \A l \in Locators \ {locator[c]} : ~(\E k \in Clients : WritesHint(k, l))
    BY <1>1 DEF WritesHint
  <2>3. QED
    BY <1>1, <1>2, <2>1, <2>2 DEF HintsName, TypeOK
<1>6. CASE hint' = hint /\ pc[c] # "writeHint"
  BY <1>1, <1>6 DEF HintsName, WritesHint
<1>7. QED
  BY <1>1, <1>4, <1>5, <1>6
     DEF Acts, Get, ReadHint, ReadData, CheckHit, FetchOrigin, OpenData, WriteData

LEMMA PrivateStep ==
    ASSUME IInv, PrivateInv, [Next]_vars
    PROVE  PrivateInv'
<1> USE DEF files
<1>1. OutcomesOpen' /\ HintInHand'
  BY HandStep DEF IInv, PrivateInv
<1>2. OneAtATime'
  <2>1. ASSUME NEW c \in Clients, Acts(c) PROVE OneAtATime'
    BY <2>1, ActsAlone DEF IInv, PrivateInv
  <2>2. CASE UNCHANGED <<pc, alone>>
    BY <2>2 DEF PrivateInv, OneAtATime
  <2>3. QED
    BY <2>1, <2>2, NextCases DEF Publish
<1>3. ASSUME alone', faults' = 0 PROVE HintsName' /\ GetsFollow'
  <2>1. ASSUME NEW c \in Clients, Acts(c) PROVE HintsName' /\ GetsFollow'
    <3>1. HintsName' /\ Follows(pc'[c], locator'[c], held'[c], hit'[c], hint')
      BY <1>3, <2>1, CleanHints, CleanClient
    <3>2. ASSUME NEW k \in Clients \ {c}
          PROVE  Follows(pc'[k], locator'[k], held'[k], hit'[k], hint')
      <4>1. pc[k] = "idle" /\ pc'[k] = pc[k] /\ hit'[k] = hit[k]
        BY <1>3, <2>1, ActsAlone DEF IInv, PrivateInv
      <4>2. hit[k] => pc[k] = "loaded"
        BY <1>3, <2>1, CleanBefore DEF GetsFollow
      <4>3. QED
        BY <4>1, <4>2 DEF Follows, Stages
    <3>3. QED
      BY <3>1, <3>2, FollowsNow
  <2>2. CASE UNCHANGED <<hint, pc, locator, held, hit, alone, faults>>
    BY <1>3, <2>2 DEF PrivateInv, HintsName, GetsFollow, WritesHint, Storing
  <2>3. QED
    BY <2>1, <2>2, NextCases DEF Publish
<1>4. QED
  BY <1>1, <1>2, <1>3 DEF PrivateInv

LEMMA InitPrivate == Init => PrivateInv
  BY DEF Init, PrivateInv, OneAtATime, OutcomesOpen, HintInHand, HintsName, GetsFollow, Storing

(* And while one get at a time uses the cache: the entry it goes by is the *)
(* one the hint names, and unless something was cut short hints name       *)
(* contents.                                                               *)
THEOREM PrivateInvariance == Spec => [](IInv /\ PrivateInv)
<1>1. Init => IInv /\ PrivateInv
  BY InitIInv, InitPrivate
<1>2. IInv /\ PrivateInv /\ [Next]_vars => (IInv /\ PrivateInv)'
  BY IInvStep, PrivateStep
<1>3. QED
  BY <1>1, <1>2, PTL DEF Spec
-----------------------------------------------------------------------------
(* A get that succeeds leaves the locator's hint at the id it returned.    *)
LEMMA HintFollowsStep ==
    ASSUME IInv, PrivateInv, [Next]_vars, NEW c \in Clients,
           alone, ~Succeeded(c), Succeeded(c)'
    PROVE  hint'[locator[c]] = result'[c].bytes
<1> USE DEF Succeeded
<1>1. TypeOK /\ OneAtATime /\ result'[c] # result[c]
  BY DEF IInv, PrivateInv
<1>2. Acts(c)
  <2>1. ASSUME NEW k \in Clients, Acts(k), k # c PROVE FALSE
    <3>1. \A j \in Clients \ {k} : result'[j] = result[j]
      BY <1>1, <2>1, ActsAlone
    <3>2. QED
      BY <1>1, <2>1, <3>1
  <2>2. QED
    BY <1>1, <2>1, NextCases DEF Publish
<1>3. CASE CheckHit(c)
  <2>1. result'[c].bytes = held[c] /\ hint' = hint /\ pc[c] = "loaded"
    BY <1>1, <1>3 DEF CheckHit, Fail, Finish, TypeOK, files
  <2>2. QED
    BY <2>1 DEF PrivateInv, HintInHand
<1>4. CASE WriteHint(c)
  <2>1. result'[c].bytes = held[c] /\ hint'[locator[c]] = held[c]
    BY <1>1, <1>4 DEF WriteHint, Finish, TypeOK
  <2>2. QED
    BY <2>1
<1>5. ASSUME NEW s \in {"none", "io", "abi", "capabilities"}, result'[c].status = s
      PROVE  FALSE
  BY <1>5
<1>6. CASE FetchOrigin(c)
  <2>1. \A p, b : Check(p, b) \in {"ok", "abi", "capabilities"}
    BY CheckType
  <2>2. result'[c].status \in {"io", "abi", "capabilities"}
    BY <1>1, <1>6, <2>1 DEF FetchOrigin, Fail, Finish, TypeOK, Compatible
  <2>3. QED
    BY <2>2
<1>7. QED
  <2>1. ASSUME NEW id \in SourceIds, Get(c, id) PROVE result'[c].status = "none"
    BY <1>1, <2>1 DEF Get, NoOutcome, TypeOK
  <2>2. CASE ReadHint(c)
    <3>1. result'[c].status = "io"
      BY <1>1, <2>2, ReadHintCases DEF Fail, Finish, TypeOK
    <3>2. QED
      BY <3>1
  <2>3. CASE WriteFails(c)
    <3>1. result'[c].status = "io"
      BY <1>1, <2>3 DEF WriteFails, Fail, Finish, TypeOK
    <3>2. QED
      BY <3>1
  <2>4. CASE ReadData(c) \/ OpenData(c) \/ WriteData(c) \/ OpenHint(c) \/ Abandon(c)
    BY <1>1, <2>4 DEF ReadData, OpenData, WriteData, OpenHint, Abandon
  <2>5. QED
    BY <1>2, <1>3, <1>4, <1>6, <2>1, <2>2, <2>3, <2>4 DEF Acts

(* While no other get overlaps, the hint a get leaves behind names what it *)
(* returned, whatever it found in the files, so the next takes up there.   *)
THEOREM HintsKeepUp == Spec => HintFollowsResult
<1>1. IInv /\ PrivateInv /\ [Next]_vars =>
        [\A c \in Clients : alone /\ ~Succeeded(c) /\ Succeeded(c)'
                              => hint'[locator[c]] = result'[c].bytes]_vars
  BY HintFollowsStep
<1>2. QED
  BY PrivateInvariance, <1>1, PTL DEF Spec, HintFollowsResult

(* A get without another beside it fails to read a readable source only    *)
(* for a blank hint that a fault has left.                                 *)
LEMMA BlockedStep ==
    ASSUME IInv, PrivateInv, [Next]_vars, NEW c \in Clients, alone, faults' = faults,
           pc[c] # "idle", result'[c].status = "io", origin[locator[c]] # NoFile
    PROVE  pc[c] = "hint" /\ hint[locator[c]] = Blank /\ faults > 0
<1>1. /\ TypeOK /\ OneAtATime /\ faults \in Nat /\ result[c].status = "none"
      /\ result'[c] # result[c]
  BY DEF IInv, PrivateInv, TypeOK, OutcomesOpen
<1>2. \A k \in Clients \ {c} : pc[k] = "idle"
  BY DEF PrivateInv, OneAtATime
<1>3. Acts(c)
  <2>1. ASSUME NEW k \in Clients, Acts(k), k # c PROVE FALSE
    <3>1. \A j \in Clients \ {k} : result'[j] = result[j]
      BY <1>1, <2>1, ActsAlone
    <3>2. QED
      BY <1>1, <2>1, <3>1
  <2>2. QED
    BY <1>1, <2>1, NextCases DEF Publish
<1>4. ~WriteFails(c)
  <2>1. ~Fault
    BY <1>1 DEF Fault
  <2>2. QED
    BY <2>1 DEF WriteFails
<1>5. CASE ReadHint(c)
  <2>1. hint[locator[c]] = Blank
    BY <1>1, <1>2, <1>5, ReadHintAlone
  <2>2. pc[c] = "hint" /\ locator[c] \in Locators
    BY <1>1, <1>5 DEF ReadHint, TypeOK
  <2>3. faults # 0
    <3>1. SUFFICES ASSUME faults = 0 PROVE FALSE
      OBVIOUS
    <3>2. Blank \notin Contents \cup {NoFile}
      BY DEF Bytes, Hints
    <3>3. \E k \in Clients : WritesHint(k, locator[c])
      BY <2>1, <2>2, <3>1, <3>2 DEF PrivateInv, HintsName
    <3>4. QED
      BY <1>2, <2>2, <3>3 DEF WritesHint
  <2>4. QED
    BY <1>1, <2>1, <2>2, <2>3
<1>6. CASE CheckHit(c)
  <2>1. Check(Policy[c], held[c]) \in {"ok", "abi", "capabilities"}
    BY CheckType
  <2>2. result'[c].status \in {"ok", "abi", "capabilities"}
    BY <1>1, <1>6, <2>1 DEF CheckHit, Fail, Finish, TypeOK
  <2>3. QED
    BY <2>2
<1>7. CASE FetchOrigin(c)
  <2>1. Check(Policy[c], origin[locator[c]]) \in {"ok", "abi", "capabilities"}
    BY CheckType
  <2>2. result'[c].status \in {"none", "abi", "capabilities"}
    BY <1>1, <1>7, <2>1 DEF FetchOrigin, Fail, Finish, TypeOK, Compatible
  <2>3. QED
    BY <2>2
<1>8. CASE WriteHint(c)
  <2>1. result'[c].status \in {"none", "ok"}
    BY <1>1, <1>8 DEF WriteHint, Finish, TypeOK
  <2>2. QED
    BY <2>1
<1>9. CASE ReadData(c) \/ OpenData(c) \/ WriteData(c) \/ OpenHint(c) \/ Abandon(c)
  BY <1>1, <1>9 DEF ReadData, OpenData, WriteData, OpenHint, Abandon
<1>10. QED
  BY <1>3, <1>4, <1>5, <1>6, <1>7, <1>8, <1>9 DEF Acts, Get

(* Any damage a fault can do to hints and entries is repaired or worked    *)
(* around by the next get that is alone, but for a blank hint.             *)
THEOREM DamageIsRepaired == Spec => OnlyBlankHintsBlock
<1>1. IInv /\ PrivateInv /\ [Next]_vars =>
        [\A c \in Clients :
            /\ alone /\ faults' = faults
            /\ pc[c] # "idle" /\ result'[c].status = "io"
            /\ origin[locator[c]] # NoFile
            => pc[c] = "hint" /\ hint[locator[c]] = Blank /\ faults > 0]_vars
  BY BlockedStep
<1>2. QED
  BY PrivateInvariance, <1>1, PTL DEF Spec, OnlyBlankHintsBlock
-----------------------------------------------------------------------------
(* Had by one get at a time and without a fault, the cache implements      *)
(* ContentStore.  While one client is at a get the table is what the files *)
(* hold and what that client is about to store.                            *)
BoundOf(p, q, h, hf) ==
    [l \in Locators |->
       IF \E c \in Clients : p[c] \in Stages /\ q[c] = l
       THEN h[CHOOSE c \in Clients : p[c] \in Stages /\ q[c] = l]
       ELSE hf[l]]
StoredOf(p, h, df) ==
    {i \in Bytes : df[i] # NoFile \/ \E c \in Clients : p[c] \in Stages /\ h[c] = i}
BoundBy(p, k, b, hf) == [l \in Locators |-> IF p \in Stages /\ l = k THEN b ELSE hf[l]]
StoredBy(p, b, df) == {i \in Bytes : df[i] # NoFile \/ (p \in Stages /\ b = i)}

LEMMA TableNow ==
    /\ Bound = BoundOf(pc, locator, held, hint) /\ Stored = StoredOf(pc, held, dataFile)
    /\ Bound' = BoundOf(pc', locator', held', hint')
    /\ Stored' = StoredOf(pc', held', dataFile')
  BY DEF Bound, Stored, BoundOf, StoredOf, Binds, Storing, Stages

LEMMA OneBinds ==
    ASSUME NEW p, NEW q, NEW h, NEW hf, NEW c \in Clients,
           \A k \in Clients \ {c} : p[k] = "idle"
    PROVE  BoundOf(p, q, h, hf) = BoundBy(p[c], q[c], h[c], hf)
<1>1. \A k \in Clients : p[k] \in Stages => k = c
  BY DEF Stages
<1>2. ASSUME NEW l \in Locators
      PROVE  BoundOf(p, q, h, hf)[l] = BoundBy(p[c], q[c], h[c], hf)[l]
  <2>1. CASE p[c] \in Stages /\ q[c] = l
    <3>1. (CHOOSE k \in Clients : p[k] \in Stages /\ q[k] = l) = c
      BY <1>1, <2>1
    <3>2. QED
      BY <2>1, <3>1 DEF BoundOf, BoundBy
  <2>2. CASE ~(p[c] \in Stages /\ q[c] = l)
    BY <1>1, <2>2 DEF BoundOf, BoundBy
  <2>3. QED
    BY <2>1, <2>2
<1>3. QED
  <2> DEFINE F == BoundOf(p, q, h, hf)
             G == BoundBy(p[c], q[c], h[c], hf)
  <2>1. F = [l \in Locators |-> F[l]] /\ G = [l \in Locators |-> G[l]]
    BY DEF BoundOf, BoundBy
  <2> HIDE DEF F, G
  <2>2. \A l \in Locators : F[l] = G[l]
    BY <1>2 DEF F, G
  <2>3. F = G
    BY <2>1, <2>2
  <2>4. QED
    BY <2>3 DEF F, G

LEMMA OneStores ==
    ASSUME NEW p, NEW h, NEW df, NEW c \in Clients, \A k \in Clients \ {c} : p[k] = "idle"
    PROVE  StoredOf(p, h, df) = StoredBy(p[c], h[c], df)
<1>1. \A k \in Clients : p[k] \in Stages => k = c
  BY DEF Stages
<1>2. QED
  BY <1>1 DEF StoredOf, StoredBy

(* The place, the settled content and the answer of a client.              *)
IsDecided(c, p, h) == (p = "loaded" \/ p \in Stages) /\ Compatible(c, h)
StandingOf(c, p, h) ==
    CASE p = "idle" -> "idle" [] IsDecided(c, p, h) -> "bound" [] OTHER -> "asked"
SettledOf(c, p, h) == IF IsDecided(c, p, h) THEN h ELSE NoFile
AnswerOf(r) == [status |-> r.status, bytes |-> IF r.status = "ok" THEN r.bytes ELSE NoFile]

LEMMA PlacesNow ==
    /\ At = [c \in Clients |-> StandingOf(c, pc[c], held[c])]
    /\ Taken = [c \in Clients |-> SettledOf(c, pc[c], held[c])]
    /\ Answers = [c \in Clients |-> AnswerOf(result[c])]
    /\ At' = [c \in Clients |-> StandingOf(c, pc'[c], held'[c])]
    /\ Taken' = [c \in Clients |-> SettledOf(c, pc'[c], held'[c])]
    /\ Answers' = [c \in Clients |-> AnswerOf(result'[c])]
<1> USE DEF StandingOf, SettledOf, AnswerOf, IsDecided, Decided, Storing, Stages, Succeeded
<1>1. /\ At = [c \in Clients |-> StandingOf(c, pc[c], held[c])]
      /\ At' = [c \in Clients |-> StandingOf(c, pc'[c], held'[c])]
  BY DEF At
<1>2. /\ Taken = [c \in Clients |-> SettledOf(c, pc[c], held[c])]
      /\ Taken' = [c \in Clients |-> SettledOf(c, pc'[c], held'[c])]
  BY DEF Taken
<1>3. /\ Answers = [c \in Clients |-> AnswerOf(result[c])]
      /\ Answers' = [c \in Clients |-> AnswerOf(result'[c])]
  BY DEF Answers
<1>4. QED
  BY <1>1, <1>2, <1>3

LEMMA OthersStay ==
    ASSUME NEW c \in Clients,
           \A k \in Clients \ {c} : pc'[k] = pc[k] /\ held'[k] = held[k] /\ result'[k] = result[k]
    PROVE  /\ At' = [At EXCEPT ![c] = StandingOf(c, pc'[c], held'[c])]
           /\ Taken' = [Taken EXCEPT ![c] = SettledOf(c, pc'[c], held'[c])]
           /\ Answers' = [Answers EXCEPT ![c] = AnswerOf(result'[c])]
  BY PlacesNow

LEMMA Unseen ==
    ASSUME NEW c \in Clients,
           \A k \in Clients \ {c} : pc'[k] = pc[k] /\ held'[k] = held[k] /\ result'[k] = result[k],
           StandingOf(c, pc'[c], held'[c]) = StandingOf(c, pc[c], held[c]), result'[c] = result[c],
           SettledOf(c, pc'[c], held'[c]) = SettledOf(c, pc[c], held[c])
    PROVE  At' = At /\ Taken' = Taken /\ Answers' = Answers
  BY PlacesNow

(* The steps of the table, with what they need.                            *)
LEMMA AskTable ==
    ASSUME NEW c \in Clients, NEW l \in Locators,
           At[c] = "idle", At' = [At EXCEPT ![c] = "asked"],
           locator \in [Clients -> Locators], locator' = [locator EXCEPT ![c] = l],
           Answers' = [Answers EXCEPT ![c] = [status |-> "none", bytes |-> NoFile]],
           UNCHANGED <<Bound, Stored, origin, Taken>>
    PROVE  Table!Next
<1>1. Asked' = [Asked EXCEPT ![c] = [locator |-> l, policy |-> c]]
  BY DEF Asked
<1>2. Table!Ask(c, l, c)
  BY <1>1 DEF Table!Ask, Table!Answered
<1>3. QED
  BY <1>2 DEF Table!Next

LEMMA BindTable ==
    ASSUME NEW c \in Clients, NEW b \in Bytes, NEW l \in Locators,
           At[c] = "asked", l = locator[c],
           b = IF Bound[l] # NoFile THEN Bound[l] ELSE origin[l],
           Compatible(c, b),
           Bound' = [Bound EXCEPT ![l] = b], Stored' = Stored \cup {b},
           At' = [At EXCEPT ![c] = "bound"], Taken' = [Taken EXCEPT ![c] = b],
           locator' = locator, UNCHANGED <<origin, Answers>>
    PROVE  Table!Next
<1>1. Asked[c].locator = l /\ Asked[c].policy = c /\ Asked' = Asked
  BY DEF Asked
<1>2. b # NoFile
  BY DEF Hints
<1>3. Table!Candidate(c) = b
  BY <1>1 DEF Table!Candidate
<1>4. Table!ByLocator(c)
  BY <1>1 DEF Table!ByLocator
<1>5. Check(Policy[c], b) = "ok"
  BY DEF Compatible
<1>6. Table!Bind(c)
  BY <1>1, <1>2, <1>3, <1>4, <1>5 DEF Table!Bind
<1>7. QED
  BY <1>6 DEF Table!Next

LEMMA RefuseTable ==
    ASSUME NEW c \in Clients, NEW b \in Bytes \cup {NoFile}, NEW l \in Locators,
           NEW status, At[c] = "asked", l = locator[c],
           b = IF Bound[l] # NoFile THEN Bound[l] ELSE origin[l],
           IF b = NoFile THEN status = "io" ELSE status = Check(Policy[c], b) /\ status # "ok",
           At' = [At EXCEPT ![c] = "idle"], Taken' = [Taken EXCEPT ![c] = NoFile],
           Answers' = [Answers EXCEPT ![c] = [status |-> status, bytes |-> NoFile]],
           locator' = locator, UNCHANGED <<Bound, Stored, origin>>
    PROVE  Table!Next
<1>1. Asked[c].locator = l /\ Asked[c].policy = c /\ Asked' = Asked
  BY DEF Asked
<1>2. Table!Candidate(c) = b
  BY <1>1 DEF Table!Candidate
<1>3. Table!ByLocator(c)
  BY <1>1 DEF Table!ByLocator
<1>4. Table!Refuse(c)
  BY <1>1, <1>2, <1>3 DEF Table!Refuse, Table!Reply, Table!Answered
<1>5. QED
  BY <1>4 DEF Table!Next

LEMMA DeliverTable ==
    ASSUME NEW c \in Clients, NEW b, At[c] = "bound", Taken[c] = b,
           At' = [At EXCEPT ![c] = "idle"], Taken' = [Taken EXCEPT ![c] = NoFile],
           Answers' = [Answers EXCEPT ![c] = [status |-> "ok", bytes |-> b]],
           locator' = locator, UNCHANGED <<Bound, Stored, origin>>
    PROVE  Table!Next
<1>1. Asked' = Asked
  BY DEF Asked
<1>2. Table!Deliver(c)
  BY <1>1 DEF Table!Deliver, Table!Reply, Table!Answered
<1>3. QED
  BY <1>2 DEF Table!Next

LEMMA ChangeTable ==
    ASSUME NEW l \in Locators, NEW b \in Contents \cup {NoFile},
           origin' = [origin EXCEPT ![l] = b], locator' = locator,
           UNCHANGED <<Bound, Stored, At, Taken, Answers>>
    PROVE  Table!Next
<1>1. Asked' = Asked
  BY DEF Asked
<1>2. Table!Change(l, b)
  BY <1>1 DEF Table!Change
<1>3. QED
  BY <1>2 DEF Table!Next
(* The table before and after a step of the only client, by that client's  *)
(* place and what it holds.                                                *)
LEMMA ViewStep ==
    ASSUME IInv, PrivateInv, NEW c \in Clients, Acts(c), alone', faults' = 0
    PROVE  /\ Bound = BoundBy(pc[c], locator[c], held[c], hint)
           /\ Bound' = BoundBy(pc'[c], locator'[c], held'[c], hint')
           /\ Stored = StoredBy(pc[c], held[c], dataFile)
           /\ Stored' = StoredBy(pc'[c], held'[c], dataFile')
           /\ At[c] = StandingOf(c, pc[c], held[c]) /\ Taken[c] = SettledOf(c, pc[c], held[c])
           /\ At' = [At EXCEPT ![c] = StandingOf(c, pc'[c], held'[c])]
           /\ Taken' = [Taken EXCEPT ![c] = SettledOf(c, pc'[c], held'[c])]
           /\ Answers' = [Answers EXCEPT ![c] = AnswerOf(result'[c])]
           /\ StandingOf(c, pc'[c], held'[c]) = StandingOf(c, pc[c], held[c])
                /\ result'[c] = result[c]
                /\ SettledOf(c, pc'[c], held'[c]) = SettledOf(c, pc[c], held[c])
              => At' = At /\ Taken' = Taken /\ Answers' = Answers
<1>1. \A k \in Clients \ {c} :
        /\ pc[k] = "idle" /\ pc'[k] = pc[k]
        /\ held'[k] = held[k] /\ result'[k] = result[k]
  BY ActsAlone DEF IInv, PrivateInv
<1>2. Bound = BoundBy(pc[c], locator[c], held[c], hint)
  BY <1>1, OneBinds, TableNow
<1>3. Stored = StoredBy(pc[c], held[c], dataFile)
  <2>1. \A k \in Clients \ {c} : pc[k] = "idle"
    BY <1>1
  <2>2. StoredOf(pc, held, dataFile) = StoredBy(pc[c], held[c], dataFile)
    BY <2>1, OneStores
  <2>3. QED
    BY <2>2, TableNow
<1>4. \A k \in Clients \ {c} : pc'[k] = "idle"
  BY <1>1
<1>5. Bound' = BoundBy(pc'[c], locator'[c], held'[c], hint')
  <2>1. BoundOf(pc', locator', held', hint') = BoundBy(pc'[c], locator'[c], held'[c], hint')
    BY <1>4, OneBinds
  <2>2. QED
    BY <2>1, TableNow
<1>6. Stored' = StoredBy(pc'[c], held'[c], dataFile')
  <2>1. StoredOf(pc', held', dataFile') = StoredBy(pc'[c], held'[c], dataFile')
    BY <1>4, OneStores
  <2>2. QED
    BY <2>1, TableNow
<1>7. /\ At' = [At EXCEPT ![c] = StandingOf(c, pc'[c], held'[c])]
      /\ Taken' = [Taken EXCEPT ![c] = SettledOf(c, pc'[c], held'[c])]
      /\ Answers' = [Answers EXCEPT ![c] = AnswerOf(result'[c])]
  BY <1>1, OthersStay
<1>8. At[c] = StandingOf(c, pc[c], held[c]) /\ Taken[c] = SettledOf(c, pc[c], held[c])
  BY PlacesNow
<1>9. /\ StandingOf(c, pc'[c], held'[c]) = StandingOf(c, pc[c], held[c])
      /\ result'[c] = result[c]
      /\ SettledOf(c, pc'[c], held'[c]) = SettledOf(c, pc[c], held[c])
      => At' = At /\ Taken' = Taken /\ Answers' = Answers
  BY <1>1, Unseen
<1>10. QED
  BY <1>2, <1>3, <1>5, <1>6, <1>7, <1>8, <1>9

(* What the inductive invariants say of the only client.                   *)
LEMMA CleanFacts ==
    ASSUME IInv, PrivateInv, NEW c \in Clients, Acts(c), alone', faults' = 0
    PROVE  /\ Clean /\ HintsName /\ ~WriteFails(c) /\ ~Abandon(c)
           /\ \A k \in Clients \ {c} : pc[k] = "idle"
           /\ locator[c] \in Locators /\ held[c] \in Bytes
           /\ pc \in [Clients -> Places] /\ held \in [Clients -> Bytes]
           /\ hit \in [Clients -> BOOLEAN] /\ result \in [Clients -> Outcome]
           /\ locator \in [Clients -> Locators] /\ hint \in [Locators -> Hints \cup {NoFile}]
           /\ dataFile \in [Bytes -> Bytes \cup {NoFile}]
           /\ pc[c] = "fetch" => hint[locator[c]] = NoFile
           /\ pc[c] \in {"data", "loaded"} => hint[locator[c]] = held[c] /\ dataFile[held[c]] # NoFile
           /\ pc[c] \in Stages => held[c] \in Contents /\ ~hit[c] /\ Compatible(c, held[c])
           /\ pc[c] \in {"writeData", "openHint", "writeHint"} => dataFile[held[c]] # NoFile
<1>1. /\ Clean /\ HintsName /\ GetsFollow /\ ~WriteFails(c) /\ ~Abandon(c)
      /\ \A k \in Clients \ {c} : pc[k] = "idle"
  BY CleanBefore
<1>2. TypeOK /\ HeldCompatible /\ EntryBeforeHint /\ HintsLeadToEntries
  BY DEF IInv
<1>3. locator[c] \in Locators /\ held[c] \in Bytes
  BY <1>2 DEF TypeOK
<1>4. pc[c] \in {"data", "loaded"} => hint[locator[c]] = held[c]
  BY <1>1 DEF PrivateInv, HintInHand, Clean
<1>5. pc[c] \in {"data", "loaded"} => dataFile[held[c]] # NoFile
  <2>1. hint[locator[c]] \in Contents \cup {NoFile, Blank}
    BY <1>1, <1>3 DEF HintsName
  <2>2. held[c] # NoFile /\ held[c] # Blank
    BY <1>3 DEF Hints
  <2>3. QED
    BY <1>2, <1>3, <1>4, <2>1, <2>2 DEF HintsLeadToEntries
<1>6. pc[c] = "fetch" => hint[locator[c]] = NoFile
  BY <1>1 DEF GetsFollow
<1>7. pc[c] \in Stages => held[c] \in Contents /\ ~hit[c]
  BY <1>1 DEF GetsFollow, Storing, Stages
<1>8. pc[c] \in Stages => Compatible(c, held[c])
  BY <1>2, <1>7 DEF HeldCompatible, Stages
<1>9. pc[c] \in {"writeData", "openHint", "writeHint"} => dataFile[held[c]] # NoFile
  BY <1>2, <1>7 DEF EntryBeforeHint, Stages
<1>10. QED
  BY <1>1, <1>2, <1>3, <1>4, <1>5, <1>6, <1>7, <1>8, <1>9 DEF TypeOK

(* While nothing is being stored the table is what the files hold.         *)
LEMMA TableIsFiles ==
    ASSUME IInv, PrivateInv, NEW c \in Clients, Acts(c), alone', faults' = 0,
           pc[c] \notin Stages, pc'[c] \notin Stages, UNCHANGED files
    PROVE  /\ Bound' = Bound /\ Stored' = Stored
           /\ Bound = hint /\ Stored = {i \in Bytes : dataFile[i] # NoFile}
<1>1. /\ Bound = BoundBy(pc[c], locator[c], held[c], hint)
      /\ Bound' = BoundBy(pc'[c], locator'[c], held'[c], hint)
      /\ Stored = StoredBy(pc[c], held[c], dataFile)
      /\ Stored' = StoredBy(pc'[c], held'[c], dataFile)
  BY ViewStep DEF files
<1>2. hint \in [Locators -> Hints \cup {NoFile}]
  BY CleanFacts
<1>3. Bound = hint /\ Bound' = hint
  BY <1>1, <1>2 DEF BoundBy
<1>4. /\ Stored = {i \in Bytes : dataFile[i] # NoFile}
      /\ Stored' = {i \in Bytes : dataFile[i] # NoFile}
  BY <1>1 DEF StoredBy
<1>5. QED
  BY <1>3, <1>4

(* A get that begins asks the table.                                       *)
LEMMA GetStep ==
    ASSUME IInv, PrivateInv, NEW c \in Clients, NEW id \in SourceIds, Get(c, id),
           alone', faults' = 0
    PROVE  Table!Next
<1> DEFINE l == sources[c][id]
<1>1. Acts(c)
  BY DEF Acts
<1>2. /\ pc \in [Clients -> Places] /\ result \in [Clients -> Outcome]
      /\ locator \in [Clients -> Locators] /\ l \in Locators
  BY DEF IInv, TypeOK, Get
<1>3. /\ pc[c] = "idle" /\ pc'[c] = "hint" /\ UNCHANGED files /\ origin' = origin
      /\ locator' = [locator EXCEPT ![c] = l] /\ result'[c] = NoOutcome
  BY <1>2 DEF Get, Goto, outside
<1> HIDE DEF l
<1>4. pc[c] \notin Stages /\ pc'[c] \notin Stages
  BY <1>3 DEF Stages
<1>5. Bound' = Bound /\ Stored' = Stored
  BY <1>1, <1>3, <1>4, TableIsFiles
<1>6. At[c] = "idle" /\ At' = [At EXCEPT ![c] = "asked"]
  BY <1>1, <1>3, <1>4, ViewStep DEF StandingOf, IsDecided
<1>7. Answers' = [Answers EXCEPT ![c] = [status |-> "none", bytes |-> NoFile]]
  BY <1>1, <1>3, ViewStep DEF AnswerOf, NoOutcome
<1>8. Taken' = Taken
  <2>1. SettledOf(c, pc'[c], held'[c]) = NoFile /\ Taken[c] = NoFile
    BY <1>1, <1>3, <1>4, ViewStep DEF SettledOf, IsDecided
  <2>2. Taken' = [Taken EXCEPT ![c] = NoFile]
    BY <1>1, <2>1, ViewStep
  <2>3. QED
    BY <2>1, <2>2 DEF Taken
<1>9. QED
  BY <1>2, <1>3, <1>5, <1>6, <1>7, <1>8, AskTable

(* Reading the hint decides nothing, and the files only follow what is     *)
(* already decided.                                                        *)
LEMMA QuietStep ==
    ASSUME IInv, PrivateInv, NEW c \in Clients,
           ReadHint(c) \/ OpenData(c) \/ WriteData(c) \/ OpenHint(c), alone', faults' = 0
    PROVE  UNCHANGED Table!vars
<1>1. Acts(c)
  BY DEF Acts
<1>2. /\ result' = result /\ locator' = locator /\ origin' = origin
      /\ \/ pc[c] = "hint" /\ pc'[c] \in {"fetch", "data"} /\ UNCHANGED files
         \/ pc[c] \in Stages /\ pc'[c] \in Stages /\ held' = held
  <2>1. CASE ReadHint(c)
    <3>1. /\ Clean /\ HintsName /\ \A k \in Clients \ {c} : pc[k] = "idle"
          /\ pc \in [Clients -> Places]
      BY <1>1, CleanFacts
    <3>2. result' = result /\ pc'[c] \in {"fetch", "data"}
      BY <2>1, <3>1, CleanReadHint
    <3>3. pc[c] = "hint" /\ locator' = locator /\ origin' = origin /\ UNCHANGED files
      BY <2>1 DEF ReadHint, outside
    <3>4. QED
      BY <3>2, <3>3
  <2>2. CASE OpenData(c) \/ WriteData(c) \/ OpenHint(c)
    <3>1. pc \in [Clients -> Places]
      BY <1>1, CleanFacts
    <3>2. QED
      BY <2>2, <3>1 DEF OpenData, WriteData, OpenHint, Goto, Stages, outside
  <2>3. QED
    BY <2>1, <2>2
<1>3. Asked' = Asked
  BY <1>2 DEF Asked
<1>4. CASE pc[c] = "hint" /\ pc'[c] \in {"fetch", "data"} /\ UNCHANGED files
  <2>1. pc[c] \notin Stages /\ pc'[c] \notin Stages
    BY <1>4 DEF Stages
  <2>2. Bound' = Bound /\ Stored' = Stored
    BY <1>1, <1>4, <2>1, TableIsFiles
  <2>3. /\ StandingOf(c, pc'[c], held'[c]) = StandingOf(c, pc[c], held[c])
        /\ SettledOf(c, pc'[c], held'[c]) = SettledOf(c, pc[c], held[c])
    BY <1>4, <2>1 DEF StandingOf, SettledOf, IsDecided
  <2>4. At' = At /\ Taken' = Taken /\ Answers' = Answers
    BY <1>1, <1>2, <2>3, ViewStep
  <2>5. QED
    BY <1>2, <1>3, <2>2, <2>4 DEF Table!vars
<1>5. CASE pc[c] \in Stages /\ pc'[c] \in Stages /\ held' = held
  <2>1. /\ StandingOf(c, pc'[c], held'[c]) = StandingOf(c, pc[c], held[c])
        /\ SettledOf(c, pc'[c], held'[c]) = SettledOf(c, pc[c], held[c])
    BY <1>5 DEF StandingOf, SettledOf, IsDecided, Stages
  <2>2. At' = At /\ Taken' = Taken /\ Answers' = Answers
    BY <1>1, <1>2, <2>1, ViewStep
  <2>c. /\ hint \in [Locators -> Hints \cup {NoFile}]
        /\ dataFile \in [Bytes -> Bytes \cup {NoFile}]
    BY <1>1, CleanFacts
  <2>d. OpenData(c) \/ WriteData(c) \/ OpenHint(c)
    BY <1>5 DEF ReadHint, Stages
  <2>3. \A k \in Locators \ {locator[c]} : hint'[k] = hint[k]
    BY <2>c, <2>d DEF OpenData, WriteData, OpenHint
  <2>4. \A i \in Bytes \ {held[c]} : dataFile'[i] = dataFile[i]
    BY <2>c, <2>d DEF OpenData, WriteData, OpenHint
  <2>5. Bound' = Bound
    <3>1. /\ Bound = BoundBy(pc[c], locator[c], held[c], hint)
          /\ Bound' = BoundBy(pc'[c], locator[c], held[c], hint')
      BY <1>1, <1>2, <1>5, ViewStep
    <3>2. QED
      BY <1>5, <2>3, <3>1 DEF BoundBy
  <2>6. Stored' = Stored
    <3>1. Stored = StoredBy(pc[c], held[c], dataFile) /\ Stored' = StoredBy(pc'[c], held[c], dataFile')
      BY <1>1, <1>2, <1>5, ViewStep
    <3>2. QED
      BY <1>5, <2>4, <3>1 DEF StoredBy
  <2>7. QED
    BY <1>2, <1>3, <2>2, <2>5, <2>6 DEF Table!vars
<1>6. QED
  BY <1>2, <1>4, <1>5
(* An entry that is read is bound if the policy of its reader accepts it.  *)
LEMMA ReadDataStep ==
    ASSUME IInv, PrivateInv, NEW c \in Clients, ReadData(c), alone', faults' = 0
    PROVE  [Table!Next]_(Table!vars)
<1> DEFINE l == locator[c]
           b == held[c]
<1>1. Acts(c)
  BY DEF Acts
<1>2. /\ l \in Locators /\ b \in Bytes /\ pc[c] = "data"
      /\ hint \in [Locators -> Hints \cup {NoFile}]
      /\ hint[l] = b /\ dataFile[b] # NoFile /\ b # NoFile
  BY <1>1, CleanFacts DEF ReadData, Hints
<1>3. held' = held /\ pc'[c] = "loaded"
  <2>1. /\ Clean /\ pc \in [Clients -> Places] /\ \A k \in Clients \ {c} : pc[k] = "idle"
    BY <1>1, CleanFacts
  <2>2. QED
    BY <2>1, CleanReadData
<1>4. /\ result' = result /\ locator' = locator /\ origin' = origin /\ UNCHANGED files
  BY DEF ReadData, outside
<1>5. pc[c] \notin Stages /\ pc'[c] \notin Stages
  BY <1>2, <1>3 DEF Stages
<1>6. Bound' = Bound /\ Stored' = Stored /\ Bound = hint /\ b \in Stored
  BY <1>1, <1>2, <1>4, <1>5, TableIsFiles
<1>7. At[c] = "asked"
  BY <1>1, <1>2, <1>5, ViewStep DEF StandingOf, IsDecided
<1>8. CASE Compatible(c, b)
  <2>1. At' = [At EXCEPT ![c] = "bound"] /\ Taken' = [Taken EXCEPT ![c] = b]
    BY <1>1, <1>3, <1>8, ViewStep DEF StandingOf, SettledOf, IsDecided
  <2>2. Answers' = Answers
    BY <1>4 DEF Answers, Succeeded
  <2>3. Bound' = [Bound EXCEPT ![l] = b] /\ Stored' = Stored \cup {b}
    BY <1>2, <1>6
  <2>4. b = IF Bound[l] # NoFile THEN Bound[l] ELSE origin[l]
    BY <1>2, <1>6
  <2>5. Table!Next
    BY <1>2, <1>4, <1>7, <1>8, <2>1, <2>2, <2>3, <2>4, BindTable
  <2>6. QED
    BY <2>5
<1>9. CASE ~Compatible(c, b)
  <2>1. /\ StandingOf(c, pc'[c], held'[c]) = StandingOf(c, pc[c], held[c])
        /\ SettledOf(c, pc'[c], held'[c]) = SettledOf(c, pc[c], held[c])
    BY <1>2, <1>3, <1>5, <1>9 DEF StandingOf, SettledOf, IsDecided
  <2>2. At' = At /\ Taken' = Taken /\ Answers' = Answers
    BY <1>1, <1>4, <2>1, ViewStep
  <2>3. Asked' = Asked
    BY <1>4 DEF Asked
  <2>4. QED
    BY <1>4, <1>6, <2>2, <2>3 DEF Table!vars
<1>10. QED
  BY <1>8, <1>9

(* A get after a hit is delivered what was bound, or refused.              *)
LEMMA CheckHitStep ==
    ASSUME IInv, PrivateInv, NEW c \in Clients, CheckHit(c), alone', faults' = 0
    PROVE  Table!Next
<1> DEFINE l == locator[c]
           b == held[c]
           verdict == Check(Policy[c], b)
<1>1. Acts(c)
  BY DEF Acts
<1>2. /\ l \in Locators /\ b \in Bytes /\ pc[c] = "loaded"
      /\ hint[l] = b /\ b # NoFile
      /\ pc \in [Clients -> Places] /\ result \in [Clients -> Outcome]
  BY <1>1, CleanFacts DEF CheckHit, Hints
<1>3. /\ locator' = locator /\ origin' = origin /\ UNCHANGED files
      /\ IF verdict = "ok" THEN Finish(c, "ok", b) ELSE Fail(c, verdict)
  BY DEF CheckHit, outside
<1> HIDE DEF verdict
<1>4. /\ pc'[c] = "idle" /\ result'[c].status = verdict
      /\ verdict = "ok" => result'[c].bytes = b
  BY <1>2, <1>3 DEF Fail, Finish, Goto
<1>5. pc[c] \notin Stages /\ pc'[c] \notin Stages
  BY <1>2, <1>4 DEF Stages
<1>6. Bound' = Bound /\ Stored' = Stored /\ Bound = hint
  BY <1>1, <1>3, <1>5, TableIsFiles
<1>7. At' = [At EXCEPT ![c] = "idle"] /\ Taken' = [Taken EXCEPT ![c] = NoFile]
  BY <1>1, <1>4, <1>5, ViewStep DEF StandingOf, SettledOf, IsDecided
<1>8. Answers' = [Answers EXCEPT ![c] =
        [status |-> verdict, bytes |-> IF verdict = "ok" THEN b ELSE NoFile]]
  BY <1>1, <1>4, ViewStep DEF AnswerOf
<1>9. IsDecided(c, pc[c], held[c]) <=> verdict = "ok"
  BY <1>2 DEF IsDecided, Compatible, verdict
<1>10. CASE verdict = "ok"
  <2>1. At[c] = "bound" /\ Taken[c] = b
    BY <1>1, <1>2, <1>9, <1>10, ViewStep DEF StandingOf, SettledOf
  <2>2. QED
    BY <1>3, <1>6, <1>7, <1>8, <1>10, <2>1, DeliverTable
<1>11. CASE verdict # "ok"
  <2>1. At[c] = "asked"
    BY <1>1, <1>2, <1>9, <1>11, ViewStep DEF StandingOf
  <2>2. b = IF Bound[l] # NoFile THEN Bound[l] ELSE origin[l]
    BY <1>2, <1>6
  <2>3. QED
    BY <1>2, <1>3, <1>6, <1>7, <1>8, <1>11, <2>1, <2>2, RefuseTable DEF verdict
<1>12. QED
  BY <1>10, <1>11

(* Without a hint the source decides: its content is bound, or refused.    *)
LEMMA FetchOriginStep ==
    ASSUME IInv, PrivateInv, NEW c \in Clients, FetchOrigin(c), alone', faults' = 0
    PROVE  Table!Next
<1> DEFINE l == locator[c]
           b == origin[l]
           verdict == Check(Policy[c], b)
<1>1. Acts(c)
  BY DEF Acts
<1>2. /\ l \in Locators /\ pc[c] = "fetch" /\ hint[l] = NoFile
      /\ hint \in [Locators -> Hints \cup {NoFile}]
      /\ pc \in [Clients -> Places] /\ result \in [Clients -> Outcome]
      /\ held \in [Clients -> Bytes]
  BY <1>1, CleanFacts DEF FetchOrigin
<1>3. b \in Contents \cup {NoFile}
  BY DEF IInv, TypeOK
<1>4. /\ locator' = locator /\ origin' = origin /\ UNCHANGED files
      /\ IF b = NoFile THEN Fail(c, "io")
         ELSE IF verdict = "ok"
         THEN Goto(c, "openData") /\ held' = [held EXCEPT ![c] = b] /\ result' = result
         ELSE Fail(c, verdict)
  BY DEF FetchOrigin, Compatible, outside
<1>5. pc[c] \notin Stages
  BY <1>2 DEF Stages
<1>6. Bound = hint /\ Stored = {i \in Bytes : dataFile[i] # NoFile}
  <2>1. Bound = BoundBy(pc[c], l, held[c], hint) /\ Stored = StoredBy(pc[c], held[c], dataFile)
    BY <1>1, ViewStep
  <2>2. QED
    BY <1>2, <1>5, <2>1 DEF BoundBy, StoredBy
<1>7. At[c] = "asked"
  BY <1>1, <1>2, <1>5, ViewStep DEF StandingOf, IsDecided
<1>8. b = IF Bound[l] # NoFile THEN Bound[l] ELSE origin[l]
  BY <1>2, <1>6
<1>9. CASE b # NoFile /\ verdict = "ok"
  <2>1. pc'[c] = "openData" /\ held'[c] = b /\ result' = result /\ b \in Bytes
    BY <1>2, <1>3, <1>4, <1>9 DEF Goto, Bytes
  <2>2. pc'[c] \in Stages /\ Compatible(c, b)
    BY <1>9, <2>1 DEF Stages, Compatible
  <2>3. At' = [At EXCEPT ![c] = "bound"] /\ Taken' = [Taken EXCEPT ![c] = b]
    BY <1>1, <2>1, <2>2, ViewStep DEF StandingOf, SettledOf, IsDecided
  <2>4. Answers' = Answers
    BY <2>1 DEF Answers, Succeeded
  <2>5. Bound' = [Bound EXCEPT ![l] = b]
    <3>1. Bound' = BoundBy(pc'[c], l, b, hint)
      BY <1>1, <1>4, <2>1, ViewStep DEF files
    <3>2. BoundBy(pc'[c], l, b, hint) = [hint EXCEPT ![l] = b]
      BY <1>2, <2>2 DEF BoundBy
    <3>3. QED
      BY <1>6, <3>1, <3>2
  <2>6. Stored' = Stored \cup {b}
    <3>1. Stored' = StoredBy(pc'[c], b, dataFile)
      BY <1>1, <1>4, <2>1, ViewStep DEF files
    <3>2. StoredBy(pc'[c], b, dataFile) = {i \in Bytes : dataFile[i] # NoFile} \cup {b}
      BY <2>1, <2>2 DEF StoredBy
    <3>3. QED
      BY <1>6, <3>1, <3>2
  <2> HIDE DEF b
  <2>7. QED
    BY <1>2, <1>4, <1>7, <1>8, <2>1, <2>2, <2>3, <2>4, <2>5, <2>6, BindTable
<1>10. CASE ~(b # NoFile /\ verdict = "ok")
  <2> DEFINE status == IF b = NoFile THEN "io" ELSE verdict
  <2>1. pc'[c] = "idle" /\ result'[c].status = status /\ status # "ok"
    BY <1>2, <1>4, <1>10 DEF Fail, Finish, Goto
  <2>2. pc'[c] \notin Stages
    BY <2>1 DEF Stages
  <2>3. Bound' = Bound /\ Stored' = Stored
    BY <1>1, <1>4, <1>5, <2>2, TableIsFiles
  <2>4. At' = [At EXCEPT ![c] = "idle"] /\ Taken' = [Taken EXCEPT ![c] = NoFile]
    BY <1>1, <2>1, <2>2, ViewStep DEF StandingOf, SettledOf, IsDecided
  <2>5. Answers' = [Answers EXCEPT ![c] = [status |-> status, bytes |-> NoFile]]
    BY <1>1, <2>1, ViewStep DEF AnswerOf
  <2>6. b \in Bytes \cup {NoFile}
    BY <1>3 DEF Bytes
  <2>7. IF b = NoFile THEN status = "io" ELSE status = Check(Policy[c], b) /\ status # "ok"
    BY <2>1
  <2> HIDE DEF status, b
  <2>8. QED
    BY <1>2, <1>4, <1>7, <1>8, <2>3, <2>4, <2>5, <2>6, <2>7, RefuseTable
<1>11. QED
  BY <1>9, <1>10

(* The last write of a store delivers what was bound.                      *)
LEMMA WriteHintStep ==
    ASSUME IInv, PrivateInv, NEW c \in Clients, WriteHint(c), alone', faults' = 0
    PROVE  Table!Next
<1> DEFINE l == locator[c]
           b == held[c]
<1>1. Acts(c)
  BY DEF Acts
<1>2. /\ pc[c] = "writeHint" /\ pc[c] \in Stages
  BY DEF WriteHint, Stages
<1>3. /\ l \in Locators /\ b \in Bytes
      /\ hint \in [Locators -> Hints \cup {NoFile}]
      /\ pc \in [Clients -> Places] /\ result \in [Clients -> Outcome]
      /\ ~hit[c] /\ Compatible(c, b) /\ dataFile[b] # NoFile
  BY <1>1, <1>2, CleanFacts
<1>4. /\ hint' = [hint EXCEPT ![l] = b] /\ dataFile' = dataFile
      /\ locator' = locator /\ origin' = origin /\ Finish(c, "ok", b)
  BY <1>3 DEF WriteHint, outside
<1>5. pc'[c] = "idle" /\ result'[c] = [status |-> "ok", bytes |-> b]
  BY <1>3, <1>4 DEF Finish, Goto
<1>6. pc'[c] \notin Stages
  BY <1>5 DEF Stages
<1>7. /\ At[c] = "bound" /\ At' = [At EXCEPT ![c] = "idle"]
      /\ Taken[c] = b /\ Taken' = [Taken EXCEPT ![c] = NoFile]
  BY <1>1, <1>2, <1>3, <1>5, <1>6, ViewStep DEF StandingOf, SettledOf, IsDecided
<1>8. Answers' = [Answers EXCEPT ![c] = [status |-> "ok", bytes |-> b]]
  BY <1>1, <1>5, ViewStep DEF AnswerOf
<1>9. Bound' = Bound
  <2>1. Bound = BoundBy(pc[c], l, b, hint) /\ Bound' = BoundBy(pc'[c], l, held'[c], hint')
    BY <1>1, <1>4, ViewStep
  <2>2. QED
    BY <1>2, <1>3, <1>4, <1>6, <2>1 DEF BoundBy
<1>10. Stored' = Stored
  <2>1. Stored = StoredBy(pc[c], b, dataFile) /\ Stored' = StoredBy(pc'[c], held'[c], dataFile)
    BY <1>1, <1>4, ViewStep
  <2>2. QED
    BY <1>2, <1>3, <1>6, <2>1 DEF StoredBy
<1> HIDE DEF b
<1>11. QED
  BY <1>4, <1>7, <1>8, <1>9, <1>10, DeliverTable

LEMMA SameTable ==
    ASSUME UNCHANGED <<files, pc, locator, held, result>>
    PROVE  UNCHANGED <<Bound, Stored, At, Asked, Taken, Answers>>
<1>1. Bound' = Bound /\ Stored' = Stored
  BY TableNow DEF files
<1>2. At' = At /\ Taken' = Taken /\ Answers' = Answers
  BY PlacesNow
<1>3. Asked' = Asked
  BY DEF Asked
<1>4. QED
  BY <1>1, <1>2, <1>3

LEMMA StepTable ==
    ASSUME IInv, PrivateInv, [Next]_vars, alone', faults' = 0
    PROVE  [Table!Next]_(Table!vars)
<1>1. ASSUME NEW c \in Clients, Acts(c) PROVE [Table!Next]_(Table!vars)
  <2>1. ~WriteFails(c) /\ ~Abandon(c)
    BY <1>1, CleanFacts
  <2>2. CASE \E id \in SourceIds : Get(c, id)
    BY <2>2, GetStep
  <2>3. CASE ReadData(c)
    BY <2>3, ReadDataStep
  <2>4. CASE CheckHit(c)
    BY <2>4, CheckHitStep
  <2>5. CASE FetchOrigin(c)
    BY <2>5, FetchOriginStep
  <2>6. CASE WriteHint(c)
    BY <2>6, WriteHintStep
  <2>7. CASE ReadHint(c) \/ OpenData(c) \/ WriteData(c) \/ OpenHint(c)
    BY <2>7, QuietStep
  <2>8. QED
    BY <1>1, <2>1, <2>2, <2>3, <2>4, <2>5, <2>6, <2>7 DEF Acts
<1>2. ASSUME NEW l \in Locators, NEW b \in Contents \cup {NoFile}, Publish(l, b)
      PROVE  Table!Next
  <2>1. origin' = [origin EXCEPT ![l] = b] /\ UNCHANGED <<files, pc, locator, held, result>>
    BY <1>2 DEF Publish
  <2>2. UNCHANGED <<Bound, Stored, At, Asked, Taken, Answers>>
    BY <2>1, SameTable
  <2>3. QED
    BY <2>1, <2>2, ChangeTable
<1>3. CASE UNCHANGED <<files, origin, pc, locator, held, hit, result, faults, alone>>
  <2>1. UNCHANGED <<Bound, Stored, At, Asked, Taken, Answers>>
    BY <1>3, SameTable
  <2>2. QED
    BY <1>3, <2>1 DEF Table!vars
<1>4. QED
  BY <1>1, <1>2, <1>3, NextCases

LEMMA InitTable == Init => Table!Init
<1> SUFFICES ASSUME Init PROVE Table!Init
  OBVIOUS
<1>1. TypeOK
  BY InitIInv DEF IInv
<1>2. \A c \in Clients : pc[c] = "idle" /\ pc[c] \notin Stages /\ pc[c] # "loaded"
  BY DEF Init, Stages
<1>3. Bound = [l \in Locators |-> NoFile]
  BY <1>2, TableNow DEF Init, BoundOf
<1>4. Stored = {}
  BY <1>2, TableNow DEF Init, StoredOf
<1>5. At = [c \in Clients |-> "idle"] /\ Taken = [c \in Clients |-> NoFile]
  BY <1>2, PlacesNow DEF StandingOf, SettledOf, IsDecided
<1>6. Answers = [c \in Clients |-> [status |-> "none", bytes |-> NoFile]]
  BY PlacesNow DEF Init, AnswerOf, NoOutcome
<1>7. Asked \in [Clients -> [locator : Locators, policy : Clients]]
  BY <1>1 DEF TypeOK, Asked
<1>8. origin \in [Locators -> Contents \cup {NoFile}]
  BY DEF Init
<1>9. QED
  BY <1>3, <1>4, <1>5, <1>6, <1>7, <1>8 DEF Table!Init, Table!Answered

(* One caller at a time sees a table: a locator keeps the content it was   *)
(* first fetched with, and policies decide before anything is stored.      *)
THEOREM CacheIsTable == Spec => ImplementsTable
<1>1. IInv /\ PrivateInv /\ [Next]_vars =>
        [alone' /\ faults' = 0 => [Table!Next]_(Table!vars)]_vars
  BY StepTable
<1>2. QED
  BY PrivateInvariance, InitTable, <1>1, PTL DEF Spec, ImplementsTable
=============================================================================
