--------------------------- MODULE MCRuntimeHost ---------------------------
(* Instances of RuntimeHost for TLC.  "text" and "note" are UTF-8, "loose"  *)
(* is text whose bytes happen to be CBOR in another form than the          *)
(* canonical one, which is "text".                                         *)
EXTENDS RuntimeHost

CONSTANTS h1, h2, g1, g2

Dev == [env |-> "dev", tenant |-> "a"]
Prod == [env |-> "prod", tenant |-> "a"]
MCContexts == {Dev, Prod}
MCValid == [h \in Handles |-> IF h = h1 THEN {g1} ELSE {g2}]
MCRights == [h \in Handles |-> IF h = h1 THEN {"read", "write", "delete"} ELSE {"write"}]
MCStored == [v \in Values |-> IF v = "loose" THEN "text" ELSE v]
SharedPayload == [c \in MCContexts \cup {NoTenant} |-> {"loose", "binary"}]
OwnPayload ==
    [c \in MCContexts \cup {NoTenant} |->
        IF c = Dev THEN {"text"} ELSE IF c = Prod THEN {"note"} ELSE {}]
=============================================================================
