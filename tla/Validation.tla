----------------------------- MODULE Validation -----------------------------
(***************************************************************************)
(* Authors at work on a schema document, keyword by keyword, or on a       *)
(* pattern, and what the documentation of src/src/validation says about    *)
(* the outcome: every value is judged in every state.                      *)
(***************************************************************************)
EXTENDS JsonSchema, PatternAuthors

CONSTANTS
  RootMenu,    \* pairs <<keyword, value>> for the document
  DefMenu,     \* the same for its definitions
  DefNames,
  MaxKeywords, MaxDefKeywords,  \* bounds on the keywords of each
  Values       \* values to judge

VARIABLES root, defs  \* keywords of the document and of its definitions

document == <<root, defs>>

AuthorsInit ==
  /\ PatternInit
  /\ root = <<>> /\ defs = [n \in DefNames |-> <<>>]

(* A reference is written alone: what stands beside it is not looked at. *)
CanAdd(map, entry, max) ==
  /\ Cardinality(DOMAIN map) < max /\ entry[1] \notin DOMAIN map
  /\ "$ref" \notin DOMAIN map /\ (entry[1] = "$ref" => map = <<>>)
Added(map, entry) == [k \in DOMAIN map \cup {entry[1]} |-> IF k = entry[1] THEN entry[2] ELSE map[k]]

AddKeyword(entry) ==
  /\ source = <<>> /\ CanAdd(root, entry, MaxKeywords)
  /\ root' = Added(root, entry)
  /\ UNCHANGED <<pattern, defs>>

AddToDefinition(n, entry) ==
  /\ source = <<>> /\ CanAdd(defs[n], entry, MaxDefKeywords)
  /\ entry # <<"$ref", <<"string", <<"#/$defs/", n>>>>>>   \* nor itself
  /\ defs' = [defs EXCEPT ![n] = Added(@, entry)]
  /\ UNCHANGED <<pattern, root>>

AuthorsNext ==
  \/ /\ document = <<<<>>, [n \in DefNames |-> <<>>]>>
     /\ PatternNext
     /\ UNCHANGED document
  \/ \E e \in RootMenu : AddKeyword(e)
  \/ \E n \in DefNames : \E e \in DefMenu : AddToDefinition(n, e)

Schema == <<"object", Added(root, <<"$defs", <<"object", [n \in DefNames |-> <<"object", defs[n]>>]>>>>)>>

---------------------------------------------------------------------------
(* What a schema demands, with every reference followed to its end.  Of a  *)
(* keyword, a pattern or a reference that is not implemented the validator *)
(* cannot know: it holds as `unknown` says, and to be the only branch that *)
(* matches is for the others not to match even in doubt.  So what holds    *)
(* with FALSE holds whatever they mean, and what holds only with TRUE may. *)
HasType(v, t) == kind_of(v) = t \/ (t = "number" /\ kind_of(v) = "integer")
RECURSIVE Satisfies(_, _, _)
Demands(k, d, map, v, unknown) ==
  CASE k = "$ref" -> IF d[2][1] = "#/$defs/" /\ d[2][2] \in DefNames
                     THEN Satisfies(<<"object", defs[d[2][2]]>>, v, unknown) ELSE unknown
    [] k = "type" -> IF d[1] = "string" THEN HasType(v, d[2])
                     ELSE \E i \in DOMAIN d[2] : HasType(v, d[2][i][2])
    [] k = "const" -> v = d
    [] k = "enum" -> \E i \in DOMAIN d[2] : v = d[2][i]
    [] k = "minLength" -> v[1] = "string" => Len(v[2]) >= d[2]
    [] k = "maxLength" -> v[1] = "string" => Len(v[2]) <= d[2]
    [] k = "pattern" -> v[1] = "string" => IF parse(d[2]).ok THEN is_match(parse(d[2]), v[2]) ELSE unknown
    [] k = "minimum" -> v[1] \in {"integer", "float"} => Halves(v) >= Halves(d)
    [] k = "maximum" -> v[1] \in {"integer", "float"} => Halves(v) <= Halves(d)
    [] k = "minItems" -> v[1] = "array" => Len(v[2]) >= d[2]
    [] k = "maxItems" -> v[1] = "array" => Len(v[2]) <= d[2]
    [] k = "items" -> v[1] = "array" => \A i \in DOMAIN v[2] : Satisfies(d, v[2][i], unknown)
    [] k = "required" -> v[1] = "object" => \A i \in DOMAIN d[2] : d[2][i][2] \in DOMAIN v[2]
    [] k = "properties" -> v[1] = "object" =>
         \A name \in DOMAIN d[2] \cap DOMAIN v[2] : Satisfies(d[2][name], v[2][name], unknown)
    [] k = "additionalProperties" -> v[1] = "object" =>
         \A name \in DOMAIN v[2] \ (IF "properties" \in DOMAIN map THEN DOMAIN map["properties"][2] ELSE {}) :
           Satisfies(d, v[2][name], unknown)
    [] k = "oneOf" -> \E i \in DOMAIN d[2] :
         /\ Satisfies(d[2][i], v, unknown)
         /\ \A j \in DOMAIN d[2] \ {i} : ~Satisfies(d[2][j], v, ~unknown)
    [] k \in ANNOTATIONS \cup VendorKeywords -> TRUE
    [] OTHER -> unknown
Satisfies(s, v, unknown) ==
  IF s[1] = "boolean" THEN s[2] ELSE \A k \in DOMAIN s[2] : Demands(k, s[2][k], s[2], v, unknown)

Accepts(v) == validate(Schema, v) = {}
Branching == "oneOf" \in DOMAIN root \cup UNION {DOMAIN defs[n] : n \in DefNames}


(* "Every other keyword is a violation: the validator fails closed rather  *)
(* than silently accepting a constraint it does not implement"             *)
(* (json_schema.rs:30-32): what it accepts satisfies the whole document,   *)
(* whatever the constraints mean that it does not implement.               *)
FailsClosed == \A v \in Values : Accepts(v) => Satisfies(Schema, v, FALSE)

(* "A pattern outside the subset produces an `unsupported-pattern`         *)
(* violation on every instance" (json_schema.rs:40-41).                    *)
PatternsAreLoud ==
  "pattern" \in DOMAIN root /\ ~parse(root["pattern"][2]).ok =>
    \A v \in Values : \E x \in validate(Schema, v) : x.rule = "unsupported-pattern"

(* Pointers are RFC 6901 JSON pointers (json_schema.rs:57): read back by   *)
(* the rules of the RFC, the pointer of a violation leads to a value of    *)
(* the instance, or to the place where a required member is missing.       *)
Undone(token) ==
  LET from[i \in 1 .. Len(token) + 1] ==
        IF i > Len(token) THEN <<>>
        ELSE IF token[i] # "~" THEN <<token[i]>> \o from[i + 1]
        ELSE <<IF At(token, i + 1) = "1" THEN "/" ELSE "~">> \o from[i + 2]
  IN from[1]
RECURSIVE LeadsTo(_, _, _)
LeadsTo(p, v, missing) ==
  IF p = <<>> THEN TRUE
  ELSE LET ends == {i \in 2 .. Len(p) : p[i] = "/"} \cup {Len(p) + 1}
           end == CHOOSE i \in ends : \A j \in ends : i <= j
           token == Undone(SubSeq(p, 2, end - 1))
           rest == SubSeq(p, end, Len(p))
       IN CASE v[1] = "object" /\ token \in DOMAIN v[2] -> LeadsTo(rest, v[2][token], missing)
            [] v[1] = "array" -> \E i \in DOMAIN v[2] :
                                   Decimal(i - 1) = token /\ LeadsTo(rest, v[2][i], missing)
            [] OTHER -> missing /\ v[1] = "object" /\ rest = <<>>
PointersLead ==
  \A v \in Values : \A x \in validate(Schema, v) :
    x.at = <<"/">> \/ LeadsTo(x.at, v, x.rule = "required")
===========================================================================
