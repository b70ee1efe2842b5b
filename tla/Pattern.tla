------------------------------- MODULE Pattern -------------------------------
(***************************************************************************)
(* The `pattern` subset of src/src/validation/pattern.rs: its parser and   *)
(* its backtracking matcher.  A character is a one-character string; an    *)
(* Item, and a ClassPart, is the set of characters it matches.             *)
(***************************************************************************)
EXTENDS Naturals, Sequences

CONSTANTS
  Characters,   \* the characters in use, in the order of their code points
  Digits, Letters, Spaces, Punctuation,
  Many          \* usize::MAX: more characters than any text has

Charset == {Characters[i] : i \in DOMAIN Characters}
Code(c) == CHOOSE i \in DOMAIN Characters : Characters[i] = c

ASSUME PatternAssumption ==
  /\ Characters \in Seq(Charset) /\ "" \notin Charset   \* which `At` gives where nothing is
  /\ \A i, j \in DOMAIN Characters : Characters[i] = Characters[j] => i = j
  /\ Digits \cup Letters \cup Spaces \cup Punctuation \subseteq Charset
  /\ {"\n", "\r", "\t", "d", "D", "w", "W", "s", "S", "n", "r", "t"} \subseteq Charset
  /\ {"^", "$", ".", "\\", "[", "]", "-", "*", "+", "?", "_"} \subseteq Charset
  /\ Many \in Nat \ {0, 1}

WordCharacters == Digits \cup Letters \cup {"_"}
Between(lo, hi) == {c \in Charset : Code(lo) <= Code(c) /\ Code(c) <= Code(hi)}

At(s, i) == IF i \in DOMAIN s THEN s[i] ELSE ""   \* chars.get

---------------------------------------------------------------------------
(* escape_part: the escapes it knows, and what they match. *)
Escapes == {"d", "D", "w", "W", "s", "S", "n", "r", "t"} \cup Punctuation
EscapePart(c) ==
  CASE c = "d" -> Digits         [] c = "D" -> Charset \ Digits
    [] c = "w" -> WordCharacters [] c = "W" -> Charset \ WordCharacters
    [] c = "s" -> Spaces         [] c = "S" -> Charset \ Spaces
    [] c = "n" -> {"\n"} [] c = "r" -> {"\r"} [] c = "t" -> {"\t"}
    [] OTHER -> {c}

(* What reading an item gives: the characters it matches and the position  *)
(* behind it, or 0 when the pattern is refused.                            *)
Read(set, next) == [set |-> set, next |-> next]
Refused == Read({}, 0)
With(set, r) == IF r.next = 0 THEN Refused ELSE Read(set \cup r.set, r.next)

DashAnywhere(s, i) ==                \* mutant: a `-` before `]` makes a range
  At(s, i + 1) = "-" /\ At(s, i + 2) \notin {"", "\\"}
IsRange(s, i) == At(s, i + 1) = "-" /\ At(s, i + 2) \notin {"", "]", "\\"}

parse_class(s, open) ==
  LET negated == At(s, open + 1) = "^"
      first == IF negated THEN open + 2 ELSE open + 1
      parts[i \in first .. Len(s) + 1] ==
        IF i > Len(s) THEN Refused
        ELSE IF s[i] = "]" /\ i # first THEN Read({}, i + 1)
        ELSE IF s[i] = "\\"
             THEN IF At(s, i + 1) \in Escapes
                  THEN With(EscapePart(s[i + 1]), parts[i + 2]) ELSE Refused
        ELSE IF IsRange(s, i)
             THEN IF Code(s[i + 2]) < Code(s[i]) THEN Refused
                  ELSE With(Between(s[i], s[i + 2]), parts[i + 3])
        ELSE With({s[i]}, parts[i + 1])
      class == IF first > Len(s) THEN Refused ELSE parts[first]
  IN IF negated /\ class.next # 0 THEN Read(Charset \ class.set, class.next) ELSE class

Outside == {"(", ")", "|", "{", "}", "^", "$"}
ReadItem(s, i) ==
  CASE s[i] \in Outside -> Refused
    [] s[i] = "." -> Read(Charset \ {"\n"}, i + 1)
    [] s[i] = "\\" -> IF At(s, i + 1) \in Escapes
                      THEN Read(EscapePart(s[i + 1]), i + 2) ELSE Refused
    [] s[i] = "[" -> parse_class(s, i)
    [] OTHER -> Read({s[i]}, i + 1)

Atom(set, min, max) == [item |-> set, min |-> min, max |-> max]
Quantified(set, q) ==
  CASE q = "*" -> Atom(set, 0, Many)
    [] q = "+" -> Atom(set, 1, Many)
    [] q = "?" -> Atom(set, 0, 1)
    [] OTHER   -> Atom(set, 1, 1)

Compiled(start, end, atoms) == [ok |-> TRUE, start |-> start, end |-> end, atoms |-> atoms]
NotCompiled == [ok |-> FALSE, start |-> FALSE, end |-> FALSE, atoms |-> <<>>]

parse(s) ==
  LET start == At(s, 1) = "^"
      rest[i \in 1 .. Len(s) + 1] ==      \* the loop from position i on
        IF i > Len(s) THEN Compiled(start, FALSE, <<>>)
        ELSE IF s[i] = "$" /\ i = Len(s) THEN Compiled(start, TRUE, <<>>)
        ELSE LET r == ReadItem(s, i)
                 q == At(s, r.next)
                 tail == rest[IF q \in {"*", "+", "?"} THEN r.next + 1 ELSE r.next]
             IN IF r.next = 0 THEN NotCompiled
                ELSE IF ~tail.ok THEN NotCompiled
                ELSE [tail EXCEPT !.atoms = <<Quantified(r.set, q)>> \o @]
  IN rest[IF start THEN 2 ELSE 1]

---------------------------------------------------------------------------
(* match_from: where an atom that starts at pos may end, the longest way   *)
(* first and then giving characters back.                                  *)
Reached(atom, text, pos) ==
  {e \in pos .. Len(text) + 1 :
     /\ atom.min <= e - pos /\ e - pos <= atom.max
     /\ \A i \in pos .. e - 1 : text[i] \in atom.item}
OnlyLongest(atom, text, pos) ==      \* mutant: nothing is given back
  {e \in Reached(atom, text, pos) : \A f \in Reached(atom, text, pos) : f <= e}
Ends(atom, text, pos) == Reached(atom, text, pos)

(* match_from[a]: the positions from where the atoms from a on match. *)
is_match(p, text) ==
  LET places == 1 .. Len(text) + 1
      match_from[a \in 1 .. Len(p.atoms) + 1] ==
        IF a > Len(p.atoms) THEN {pos \in places : p.end => pos = Len(text) + 1}
        ELSE {pos \in places : Ends(p.atoms[a], text, pos) \cap match_from[a + 1] # {}}
  IN IF p.start THEN 1 \in match_from[1] ELSE match_from[1] # {}
===========================================================================
