--------------------------- MODULE MCComponentCache ---------------------------
(* Instances of ComponentCache for TLC. *)
EXTENDS ComponentCache

CONSTANTS lax, strict, v1, v2, empty, garbled

(* v1 suits both clients.  v2, and bytes that are no component at all      *)
(* (which count as greentic-abi-0 without capabilities), suit only the lax *)
(* one.                                                                    *)
MCMeta ==
    [b \in {v1, v2, empty, garbled} |->
        CASE b = v1 -> [abi |-> "abi-0", caps |-> {"messaging"}]
          [] b = v2 -> [abi |-> "abi-1", caps |-> {"messaging"}]
          [] OTHER  -> [abi |-> "abi-0", caps |-> {}]]

MCPolicy ==
    [c \in {lax, strict} |->
        IF c = lax THEN [abis |-> {"abi-0", "abi-1"}, caps |-> {}]
                   ELSE [abis |-> {"abi-0"}, caps |-> {"messaging"}]]
=============================================================================
