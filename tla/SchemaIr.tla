------------------------------ MODULE SchemaIr ------------------------------
(***************************************************************************)
(* The typed schemas of describe(), as doctor reads them (cmd/doctor.rs):  *)
(* which schemas it objects to, and whether a value fits a schema.         *)
(*                                                                         *)
(* A schema is a record with a kind; an absent bound is None.  A value is  *)
(* a record with a kind and what the schemas tell apart.  Numbers stand    *)
(* for lengths, and for integers and floats alike.  Both sets are closed:  *)
(* with a schema or a value they hold its parts.                           *)
(***************************************************************************)
EXTENDS Integers, Sequences

CONSTANTS Schemas, Values

None == -1
Within(n, lo, hi) == (lo = None \/ n >= lo) /\ (hi = None \/ n <= hi)
Unbounded(s) == s.min = None /\ s.max = None

(* is_unconstrained: only the items of an array are looked into.           *)
IsUnconstrained[s \in Schemas] ==
  CASE s.kind = "object" -> DOMAIN s.properties = {} /\ s.additional = "allow"
    [] s.kind = "array" -> Unbounded(s) /\ IsUnconstrained[s.items]
    [] s.kind = "string" -> Unbounded(s) /\ s.pattern = "none"
    [] s.kind \in {"int", "float"} -> Unbounded(s)
    [] s.kind = "enum" -> s.values = {}
    [] s.kind = "oneof" -> s.variants = {}
    [] s.kind = "ref" -> TRUE
    [] OTHER -> FALSE

(* collect_schema_issues.                                                  *)
Issues[s \in Schemas] ==
  (IF IsUnconstrained[s] THEN {s.kind} ELSE {})
    \cup UNION {Issues[sub] :
           sub \in CASE s.kind = "object" ->
                          {s.properties[k] : k \in DOMAIN s.properties}
                            \cup (IF s.additional \in {"allow", "forbid"} THEN {}
                                  ELSE {s.extra})
                     [] s.kind = "array" -> {s.items}
                     [] s.kind = "oneof" -> s.variants
                     [] OTHER -> {}}

(* validate_json_value finds no issue.  A regex is met by the value or not; *)
(* a format is not looked at, a reference to another schema fits nothing.  *)
Fits[s \in Schemas, v \in Values] ==
  CASE s.kind = "object" ->
         /\ v.kind = "object"
         /\ s.required \subseteq DOMAIN v.fields
         /\ \A k \in DOMAIN v.fields :
              IF k \in DOMAIN s.properties THEN Fits[s.properties[k], v.fields[k]]
              ELSE \/ s.additional = "allow"
                   \/ s.additional = "schema" /\ Fits[s.extra, v.fields[k]]
    [] s.kind = "array" ->
         /\ v.kind = "array"
         /\ Within(Len(v.items), s.min, s.max)
         /\ \A i \in DOMAIN v.items : Fits[s.items, v.items[i]]
    [] s.kind = "string" ->
         v.kind = "string" /\ Within(v.size, s.min, s.max) /\ (s.pattern = "regex" => v.matches)
    [] s.kind = "int" -> v.kind = "int" /\ Within(v.size, s.min, s.max)
    [] s.kind = "float" -> v.kind \in {"int", "float"} /\ Within(v.size, s.min, s.max)
    [] s.kind = "enum" -> v \in s.values
    [] s.kind = "oneof" -> \E variant \in s.variants : Fits[variant, v]
    [] s.kind = "bytes" -> v.kind \in {"string", "array"}
    [] s.kind = "ref" -> FALSE
    [] OTHER -> v.kind = s.kind
=============================================================================
