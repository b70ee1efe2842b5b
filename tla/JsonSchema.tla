----------------------------- MODULE JsonSchema -----------------------------
(***************************************************************************)
(* The validator of src/src/validation/json_schema.rs.  A JSON value is a  *)
(* pair of its kind and its content: an array holds a sequence, an object  *)
(* a function, a number is an "integer" or a "float" given in halves, and  *)
(* a text is a sequence of characters.  A schema is a JSON value too, with *)
(* atoms for its keywords and references.  The violations are a set: the   *)
(* order in which they are listed is left out.                             *)
(***************************************************************************)
EXTENDS Pattern, FiniteSets, SequencesExt

CONSTANT MAX_DEPTH   \* 64

ANNOTATIONS == {"title", "description", "$comment", "default", "examples",
                "deprecated", "$schema", "$id", "$defs"}
VendorKeywords == {"x-ores-table"}   \* stands for every x-ores-*
KEYWORDS == {"$ref", "type", "required", "properties", "additionalProperties",
             "enum", "const", "items", "minItems", "maxItems", "minLength",
             "maxLength", "minimum", "maximum", "pattern", "oneOf", "format"}

kind_of(v) ==
  IF v[1] = "float" THEN IF v[2] % 2 = 0 THEN "integer" ELSE "number" ELSE v[1]
type_matches(expected, actual) ==
  expected = actual \/ (expected = "number" /\ actual = "integer")
(* as_f64, which is exact for integers of up to 53 bits, as all are here.  *)
Halves(v) == IF v[1] = "float" THEN v[2] ELSE 2 * v[2]

Given(map, k, kind) == k \in DOMAIN map /\ map[k][1] = kind
Count(map, k) == Given(map, k, "integer") /\ map[k][2] >= 0   \* as_u64
Number(map, k) == Given(map, k, "integer") \/ Given(map, k, "float")

(* Violation::new renders the empty pointer as "/". *)
Violation(at, rule) == [at |-> IF at = <<>> THEN <<"/">> ELSE at, rule |-> rule]
If(violated, at, rule) == IF violated THEN {Violation(at, rule)} ELSE {}

Replaced(s, c, by) == FlattenSeq([i \in DOMAIN s |-> IF s[i] = c THEN by ELSE <<s[i]>>])
SlashFirst(token) ==               \* mutant: the two replacements swapped
  Replaced(Replaced(token, "/", <<"~", "1">>), "~", <<"~", "0">>)
escape_pointer(token) == Replaced(Replaced(token, "~", <<"~", "0">>), "/", <<"~", "1">>)
Child(at, token) == at \o <<"/">> \o escape_pointer(token)
Decimal(n) == <<<<"0", "1", "2", "3", "4", "5", "6", "7", "8", "9">>[n + 1]>>

---------------------------------------------------------------------------
(* What `type` of a schema says of a value: TRUE, or the rule it breaks. *)
TypeRule(map, v) ==
  CASE "type" \notin DOMAIN map -> ""
    [] Given(map, "type", "string") ->
         IF type_matches(map["type"][2], kind_of(v)) THEN "" ELSE "type"
    [] Given(map, "type", "array") ->
         IF \E i \in DOMAIN map["type"][2] :
              type_matches(map["type"][2][i][2], kind_of(v)) THEN "" ELSE "type"
    [] OTHER -> "malformed-schema"

string_rules(map, text, at) ==
  LET len == Len(text) IN
  UNION {
    If(Count(map, "minLength") /\ len < map["minLength"][2], at, "min-length"),
    If(Count(map, "maxLength") /\ len > map["maxLength"][2], at, "max-length"),
    IF ~Given(map, "pattern", "string") THEN {}
    ELSE LET p == parse(map["pattern"][2]) IN
         If(p.ok /\ ~is_match(p, text), at, "pattern")
           \cup If(~p.ok, at, "unsupported-pattern")}

number_rules(map, v, at) ==
  If(Number(map, "minimum") /\ Halves(v) < Halves(map["minimum"]), at, "minimum")
    \cup If(Number(map, "maximum") /\ Halves(v) > Halves(map["maximum"]), at, "maximum")

RECURSIVE node(_, _, _, _, _)

array_rules(map, items, root, at, depth) ==
  UNION {
    If(Count(map, "minItems") /\ Len(items) < map["minItems"][2], at, "min-items"),
    If(Count(map, "maxItems") /\ Len(items) > map["maxItems"][2], at, "max-items"),
    IF "items" \notin DOMAIN map THEN {}
    ELSE UNION {node(map["items"], items[i], root, Child(at, Decimal(i - 1)), depth + 1)
                  : i \in DOMAIN items}}

Listed(map, name) == Given(map, "properties", "object") /\ name \in DOMAIN map["properties"][2]

object_rules(map, object, root, at, depth) ==
  LET missing ==
        IF ~Given(map, "required", "array") THEN {}
        ELSE {map["required"][2][i][2] : i \in DOMAIN map["required"][2]} \ DOMAIN object
      member(name) ==
        CASE Listed(map, name) ->
               node(map["properties"][2][name], object[name], root, Child(at, name), depth + 1)
          [] ~Listed(map, name) /\ "additionalProperties" \in DOMAIN map ->
               IF map["additionalProperties"] = <<"boolean", FALSE>>
               THEN {Violation(Child(at, name), "additional-properties")}
               ELSE node(map["additionalProperties"], object[name], root,
                         Child(at, name), depth + 1)
          [] OTHER -> {}
  IN {Violation(Child(at, name), "required") : name \in missing}
       \cup UNION {member(name) : name \in DOMAIN object}

OneBranch(n) == n = 1

(* The rest of node, once `schema` is resolved to an object. *)
Rules(map, v, root, at, depth) ==
  LET unsupported == If(DOMAIN map \ (KEYWORDS \cup ANNOTATIONS \cup VendorKeywords) # {},
                        at, "unsupported-keyword")
      matched == {i \in DOMAIN map["oneOf"][2] :
                    node(map["oneOf"][2][i], v, root, at, depth + 1) = {}}
  IN IF TypeRule(map, v) # "" THEN unsupported \cup {Violation(at, TypeRule(map, v))}
     ELSE UNION {
       unsupported,
       If("const" \in DOMAIN map /\ map["const"] # v, at, "const"),
       If(Given(map, "enum", "array") /\ ~Contains(map["enum"][2], v), at, "enum"),
       CASE v[1] = "string" -> string_rules(map, v[2], at)
         [] v[1] \in {"integer", "float"} -> number_rules(map, v, at)
         [] v[1] = "array" -> array_rules(map, v[2], root, at, depth)
         [] v[1] = "object" -> object_rules(map, v[2], root, at, depth)
         [] OTHER -> {},
       If(Given(map, "oneOf", "array") /\ ~OneBranch(Cardinality(matched)), at, "one-of")}

(* resolve: one step along a `$ref`, a pair of where it points and a name. *)
Definitions(root) == IF Given(root[2], "$defs", "object") THEN root[2]["$defs"][2] ELSE <<>>
resolve(map, root) ==
  IF ~Given(map, "$ref", "string") THEN [rule |-> "", to |-> <<"object", map>>]
  ELSE LET where == map["$ref"][2][1]  name == map["$ref"][2][2] IN
       CASE where # "#/$defs/" -> [rule |-> "unsupported-ref", to |-> <<>>]
         [] where = "#/$defs/" /\ name \notin DOMAIN Definitions(root) ->
              [rule |-> "unknown-definition", to |-> <<>>]
         [] OTHER -> [rule |-> "", to |-> Definitions(root)[name]]

node(schema, v, root, at, depth) ==
  CASE depth > MAX_DEPTH -> {Violation(at, "depth")}
    [] depth <= MAX_DEPTH /\ schema[1] = "boolean" -> If(~schema[2], at, "false-schema")
    [] depth <= MAX_DEPTH /\ schema[1] \notin {"boolean", "object"} ->
         {Violation(at, "malformed-schema")}
    [] OTHER ->
         LET r == resolve(schema[2], root) IN
         CASE r.rule # "" -> {Violation(at, r.rule)}
           [] r.rule = "" /\ r.to[1] # "object" -> {Violation(at, "malformed-schema")}
           [] OTHER -> Rules(r.to[2], v, root, at, depth)

validate(schema, v) == node(schema, v, schema, <<>>, 0)
validate_def(document, name, v) ==
  IF name \notin DOMAIN Definitions(document) THEN {Violation(<<>>, "unknown-definition")}
  ELSE node(Definitions(document)[name], v, document, <<>>, 0)
===========================================================================
