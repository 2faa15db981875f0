------------------------------ MODULE Exchange ------------------------------
(***************************************************************************)
(* `store publish` (cmd/store_publish.rs) and `store fetch` (cmd/store.rs) *)
(* of a component project, while the commands of BuildPipeline rewrite its *)
(* manifest and its artifact.  The Greentic Store and the distributor      *)
(* client are not in src/: the store takes an upload or does not, and its  *)
(* answer may be lost; the client hands over an artifact of the source,    *)
(* with or without the manifest that lies next to it.                      *)
(***************************************************************************)
EXTENDS BuildPipeline

VARIABLES
    trade,     \* the store command in progress
    packages,  \* what the store has accepted
    out,       \* the directory fetch writes to
    receipt    \* history: what the last fetch that ended well has delivered

exchangeVars == <<trade, packages, out, receipt>>
vars == <<buildVars, exchangeVars>>

NoTrade == [pc |-> "idle"]
NoReceipt == [place |-> "none"]

(* An artifact that fetch was not told a file for goes where the manifest  *)
(* says, or to component.wasm.                                             *)
Places == {"named", "component.wasm", "file"}

(* A project nobody has built yet, or one that build has left.             *)
Built ==
    LET artifact == [code |-> 1, sections |-> <<1>>]
    IN  /\ compiled = 1 /\ wasm = artifact /\ wasmTime = 1
        /\ manifest = [author |-> 1, schema |-> "authored", flows |-> 1, hash |-> artifact]
        /\ dist = [describe |-> 1, wasm |-> artifact]
        /\ settled = "build"
        /\ source = 1 /\ draft = 1 /\ commands = 0 /\ crashes = 0
        /\ job = [w \in Workers |-> Idle("none")]

Init ==
    /\ BuildInit \/ Built
    /\ trade = NoTrade
    /\ packages = {}
    /\ out = [manifest |-> NoFile, wasm |-> [p \in Places |-> NoFile]]
    /\ receipt = NoReceipt

Trading(pc) == trade.pc = pc
Ends == trade' = NoTrade
Starts == Trading("idle") /\ commands < MaxCommands /\ commands' = commands + 1
ProjectUnread == UNCHANGED <<edits, compiled, files, job, settled, crashes>>
OnlyReads == UNCHANGED buildVars

-----------------------------------------------------------------------------
(* publish reads the manifest, which must parse, ...                       *)
Publish ==
    /\ Starts /\ ProjectUnread
    /\ \/ Ends
       \/ /\ manifest # Torn /\ manifest.schema # "absent"
          /\ trade' = [pc |-> "manifest", manifest |-> manifest,
                       settled |-> settled # "no", time |-> wasmTime]
    /\ UNCHANGED <<packages, out, receipt>>

(* ... then the file given as --wasm, here the artifact or its copy in     *)
(* dist/, and hashes it; a store id that is not a dotted name, a dry run,  *)
(* or a missing URL or token end it.                                       *)
FileNamed(from) == IF from = "artifact" THEN wasm ELSE dist.wasm
ReadWasm ==
    /\ Trading("manifest") /\ OnlyReads
    /\ \/ Ends
       \/ \E from \in {"artifact", "copy"} :
            /\ FileNamed(from) # NoFile
            /\ trade' = [pc |-> "packed", manifest |-> trade.manifest, from |-> from,
                         bytes |-> FileNamed(from),
                         settled |-> trade.settled /\ from = "artifact" /\ wasmTime = trade.time]
    /\ UNCHANGED <<packages, out, receipt>>

(* describe.json names operations and digest, component.json the asset and *)
(* its digest; both are packed with the asset itself.  matches is history: *)
(* the manifest's hash, of a project that was left alone.                  *)
Package(t) == [operations |-> t.manifest.author, sha256 |-> t.bytes, digest |-> t.bytes,
               asset |-> t.bytes,
               matches |-> IF t.settled THEN t.manifest.hash ELSE t.bytes]
(* Mutant: the archive is filled from the file.                            *)
UploadFromFile ==
    /\ Trading("packed") /\ OnlyReads /\ Ends
    /\ packages' \in {packages, packages \cup {[Package(trade) EXCEPT !.asset =
                                                  FileNamed(trade.from)]}}
    /\ UNCHANGED <<out, receipt>>
(* The upload, once.  Whether or not the answer arrives, the store may have *)
(* taken the package.                                                      *)
Upload ==
    /\ Trading("packed") /\ OnlyReads /\ Ends
    /\ packages' \in {packages, packages \cup {Package(trade)}}
    /\ UNCHANGED <<out, receipt>>

-----------------------------------------------------------------------------
(* fetch: what the distributor client hands over for a source, which may   *)
(* be the project's directory, whose manifest then has to parse            *)
(* (resolve_source), the artifact itself, or a package of the store.       *)
Answers ==
    (IF wasm = NoFile THEN {} ELSE [wasm : {wasm}, manifest : {manifest, NoFile}])
      \cup {[wasm |-> p.asset, manifest |-> NoFile] : p \in packages}

(* Without a manifest fetch goes on to the artifact.                       *)
PlaceWithout(file) == IF file THEN "file" ELSE "component.wasm"
Fetch ==
    /\ Starts /\ ProjectUnread
    /\ \/ Ends
       \/ \E answer \in Answers, file \in BOOLEAN :
            trade' = [pc |-> IF answer.manifest = NoFile THEN "copy" ELSE "write",
                      answer |-> answer, file |-> file, place |-> PlaceWithout(file)]
    /\ UNCHANGED <<packages, out, receipt>>

(* fs::write of the manifest.                                              *)
OpenOutManifest ==
    /\ Trading("write") /\ OnlyReads
    /\ trade' = [trade EXCEPT !.pc = "writing"]
    /\ out' = [out EXCEPT !.manifest = Torn]
    /\ receipt' = NoReceipt
    /\ UNCHANGED packages
FillOutManifest ==
    /\ Trading("writing") /\ OnlyReads
    /\ trade' = [trade EXCEPT !.pc = "place"]
    /\ out' = [out EXCEPT !.manifest = trade.answer.manifest]
    /\ UNCHANGED <<packages, receipt>>

(* Only then is it parsed, and the place it names for the artifact made    *)
(* safe and ready; what is wrong with it ends the command.                 *)
PlaceIgnored ==
    /\ Trading("place") /\ OnlyReads
    /\ \/ Ends
       \/ trade.answer.manifest # Torn /\ trade' = [trade EXCEPT !.pc = "copy"]
    /\ UNCHANGED <<packages, out, receipt>>
Place ==
    /\ Trading("place") /\ OnlyReads
    /\ \/ Ends
       \/ /\ trade.answer.manifest # Torn
          /\ trade' = [trade EXCEPT !.pc = "copy",
                                    !.place = IF trade.file THEN "file" ELSE "named"]
    /\ UNCHANGED <<packages, out, receipt>>

(* fs::copy of the artifact.                                               *)
OpenCopy ==
    /\ Trading("copy") /\ OnlyReads
    /\ trade' = [trade EXCEPT !.pc = "copying"]
    /\ out' = [out EXCEPT !.wasm[trade.place] = Torn]
    /\ receipt' = NoReceipt
    /\ UNCHANGED packages
FillCopy ==
    /\ Trading("copying") /\ OnlyReads /\ Ends
    /\ out' = [out EXCEPT !.wasm[trade.place] = trade.answer.wasm]
    /\ receipt' = [place |-> trade.place, file |-> trade.file, answer |-> trade.answer]
    /\ UNCHANGED packages

(* A file cannot be written, or the command is killed.                     *)
TradeFails ==
    /\ ~Trading("idle") /\ OnlyReads /\ Ends
    /\ UNCHANGED <<packages, out, receipt>>

TradeStep ==
    \/ Publish \/ ReadWasm \/ Upload
    \/ Fetch \/ OpenOutManifest \/ FillOutManifest \/ Place \/ OpenCopy \/ FillCopy
    \/ TradeFails

Next == (BuildNext /\ UNCHANGED exchangeVars) \/ TradeStep
Spec == Init /\ [][Next]_vars

-----------------------------------------------------------------------------
(* Whatever builds do to the files while publish reads one after the       *)
(* other, a package that reaches the store is consistent: both digests in  *)
(* it are of the bytes in it, and if the project was left alone they are   *)
(* the bytes the manifest itself vouches for.                              *)
PackagesConsistent ==
    \A p \in packages : {p.sha256, p.digest, p.matches} = {p.asset}

(* When fetch has ended well, the directory holds what the source had,     *)
(* whatever an earlier fetch that failed or was killed left there: the     *)
(* manifest if there is one, and the artifact, where this manifest says    *)
(* unless the user has named a file.                                       *)
FetchDelivers ==
    receipt # NoReceipt =>
        LET given == receipt.answer
        IN  /\ out.wasm[receipt.place] = given.wasm
            /\ given.manifest # NoFile => out.manifest = given.manifest
            /\ given.manifest # NoFile /\ ~receipt.file => out.wasm["named"] = given.wasm

-----------------------------------------------------------------------------
(* The inductive invariant.  What the store command in progress holds, the *)
(* packages and the receipt; ...                                           *)
Given == [wasm : WasmFiles, manifest : Manifests \cup {Torn, NoFile}]
Trades ==
    {NoTrade}
      \cup [pc : {"manifest"}, manifest : Manifests, settled : BOOLEAN, time : Nat]
      \cup [pc : {"packed"}, manifest : Manifests, from : {"artifact", "copy"},
            bytes : WasmFiles, settled : BOOLEAN]
      \cup [pc : {"write", "writing", "place", "copy", "copying"}, answer : Given,
            file : BOOLEAN, place : Places]
ExchangeTypes ==
    /\ trade \in Trades
    /\ packages \subseteq [operations : Revisions, sha256 : WasmFiles, digest : WasmFiles,
                           asset : WasmFiles, matches : WasmFiles]
    /\ out \in [manifest : Manifests \cup {Torn, NoFile}, wasm : [Places -> WasmFiles]]
    /\ receipt \in {NoReceipt} \cup [place : Places, file : BOOLEAN, answer : Given]

(* ... publish has in hand a manifest that vouches for the artifact, if the *)
(* project was left alone so far; fetch has delivered the manifest when it *)
(* comes to the artifact, and knows the place this manifest names.         *)
PublishHolds ==
    /\ Trading("manifest") =>
          /\ trade.time <= wasmTime
          /\ trade.settled /\ wasmTime = trade.time => trade.manifest.hash = wasm
    /\ Trading("packed") /\ trade.settled => trade.manifest.hash = trade.bytes
FetchHolds ==
    /\ Trading("writing") => receipt = NoReceipt
    /\ trade.pc \in {"place", "copy", "copying"} /\ trade.answer.manifest # NoFile =>
          /\ out.manifest = trade.answer.manifest
          /\ trade.pc # "place" /\ ~trade.file => trade.place = "named"
IInv ==
    /\ BuildIInv
    /\ ExchangeTypes
    /\ PublishHolds /\ FetchHolds
    /\ PackagesConsistent /\ FetchDelivers
=============================================================================
