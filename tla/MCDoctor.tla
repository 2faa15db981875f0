------------------------------ MODULE MCDoctor ------------------------------
(* Instances of Doctor for TLC: schemas and values, and components that    *)
(* differ from a sound one in one respect.                                 *)
EXTENDS Doctor, Integers, TLC

Bool == [kind |-> "bool"]
Text(min) == [kind |-> "string", min |-> min, max |-> -1, pattern |-> "none"]
Flags(lo) == [kind |-> "array", min |-> lo, max |-> -1, items |-> Bool]
Record(properties, required, additional) ==
    [kind |-> "object", properties |-> properties, required |-> required,
     additional |-> additional, extra |-> Bool]

Closed == Record([enabled |-> Bool], {"enabled"}, "forbid")
Open == Record([enabled |-> Bool], {}, "schema")
Either == [kind |-> "oneof", variants |-> {Closed, Flags(1)}]
Loose == Record([name |-> Text(-1)], {}, "forbid")
Whatever == Record([enabled \in {} |-> Bool], {}, "allow")
Anything == [kind |-> "array", min |-> -1, max |-> -1, items |-> Whatever]
Parts == {Bool, Text(-1), Flags(1), Whatever}
MCSchemas == {Closed, Open, Either, Loose, Anything} \cup Parts

True == [kind |-> "bool"]
Str == [kind |-> "string", size |-> 3, matches |-> TRUE]
Empty == [kind |-> "object", fields |-> [enabled \in {} |-> True]]
Enabled == [kind |-> "object", fields |-> [enabled |-> True]]
Named == [kind |-> "object", fields |-> [enabled |-> True, other |-> Str]]
List == [kind |-> "array", items |-> <<True>>]
Records == {Empty, Enabled, Named}
MCValues == Records \cup {List, True, Str}

(* The values each schema is meant to allow, and the schemas that say      *)
(* something about each value: what the code computes is compared with it. *)
Allowed ==
    Closed :> {Enabled} @@ Open :> {Empty, Enabled} @@ Either :> {Enabled, List}
      @@ Loose :> {Empty} @@ Anything :> {}
      @@ Bool :> {True} @@ Text(-1) :> {Str} @@ Flags(1) :> {List} @@ Whatever :> Records
ASSUME SchemaExamples ==
    /\ {s \in MCSchemas : Schema!Issues[s] = {}} = {Closed, Open, Either, Bool, Flags(1)}
    /\ \A s \in MCSchemas, v \in MCValues : v \in Allowed[s] <=> Schema!Fits[s, v]

MCModes == <<"default">>

Descriptor == {"component-descriptor", "component-i18n", "component-qa", "component-runtime"}
Sound == [world |-> "component", embedded |-> "intact", loads |-> TRUE,
          interfaces |-> Descriptor, describe |-> {}, config |-> Closed]
Node == [Sound EXCEPT !.interfaces = {"node"}, !.world = "fallback"]

Variants(a) ==
    {a, [a EXCEPT !.world = "other"], [a EXCEPT !.embedded = "missing"],
     [a EXCEPT !.embedded = "damaged"], [a EXCEPT !.loads = FALSE]}
Artifacts ==
    Variants(Sound) \cup {[Sound EXCEPT !.describe = {d}] : d \in Defects}
      \cup {[Sound EXCEPT !.config = c] : c \in MCSchemas}
      \cup {[Sound EXCEPT !.interfaces = Descriptor \ {i}] : i \in Descriptor}

Plain(a) == [target |-> "wasm", scheme |-> FALSE, found |-> 1, override |-> FALSE,
             given |-> "none", hashed |-> TRUE, inside |-> "none", beside |-> "ok",
             operation |-> FALSE, own |-> a, named |-> Sound]
Bases == {Plain(a) : a \in Artifacts}
Placed(s) ==
    {s} \cup {[s EXCEPT !.beside = b] : b \in Manifests}
      \cup {[s EXCEPT !.target = "dir", !.found = n] : n \in {0, 2}}
      \cup {[s EXCEPT !.target = "dir", !.scheme = f, !.inside = i, !.beside = b] :
              f \in BOOLEAN, i \in Manifests, b \in Manifests}
      \cup {[s EXCEPT !.target = "json", !.given = g, !.hashed = h, !.named = s.own] :
              g \in {"broken", "stale", "ok"}, h \in BOOLEAN}
      \cup {[s EXCEPT !.override = TRUE, !.given = g, !.hashed = h] :
              g \in {"broken", "stale", "ok"}, h \in BOOLEAN}
NodePlaces ==
    {[Plain(Node) EXCEPT !.beside = b] : b \in {"none", "broken", "ok"}}
      \cup {Plain([Node EXCEPT !.loads = FALSE]), Plain([Node EXCEPT !.embedded = "damaged"])}
MCSubjects ==
    Bases \cup Placed(Plain(Sound)) \cup Placed(Plain([Sound EXCEPT !.embedded = "missing"]))
      \cup NodePlaces
=============================================================================
