--------------------------- MODULE MCArtifactStore ---------------------------
(* Instances of ArtifactStore for TLC. *)
EXTENDS ArtifactStore

CONSTANTS c1, c2, v1, v2, noPin

(* No policy at all, a pin in the spelling of the file names, a pin in     *)
(* upper case, and a required signature.                                   *)
Plain == [pin |-> noPin, lower |-> TRUE, required |-> FALSE, cosign |-> FALSE]
Pin(v) == [Plain EXCEPT !.pin = v]
Upper(v) == [Pin(v) EXCEPT !.lower = FALSE]
MCPolicies == {Plain, Pin(v1), Upper(v1), [Upper(v1) EXCEPT !.cosign = TRUE]}

(* The locator is a relative path: it names a file of the client's working *)
(* directory.                                                              *)
MCResolve == [c \in Clients |-> [l \in Locators |-> IF c = c1 THEN "file1" ELSE "file2"]]
=============================================================================
