---------------------------- MODULE PatternAuthors ----------------------------
(***************************************************************************)
(* Authors of patterns, who write items of the documented subset           *)
(* (src/src/validation/pattern.rs:7-9), whose meaning is known, or end     *)
(* with something outside of it (lines 11-16); and what the documentation  *)
(* says about the outcome.                                                 *)
(***************************************************************************)
EXTENDS Pattern, SequencesExt

(* What is written, and the characters it stands for. *)
Writing(text, means) == [text |-> text, means |-> means]
Literal(c) == Writing(<<c>>, {c})
Dot == Writing(<<".">>, Charset \ {"\n"})
Escaped(c) == Writing(<<"\\", c>>, EscapePart(c))
Span(lo, hi) == Writing(<<lo, "-", hi>>, Between(lo, hi))

Opening(negated) == IF negated THEN <<"[", "^">> ELSE <<"[">>
Unclosed(class) == Opening(class.negated) \o FlattenSeq([k \in DOMAIN class.parts |-> class.parts[k].text])
Closed(class) == Unclosed(class) \o <<"]">>
Class(class) ==
  LET any == UNION {class.parts[k].means : k \in DOMAIN class.parts}
  IN Writing(Closed(class), IF class.negated THEN Charset \ any ELSE any)

Bare == Charset \ (Outside \cup {".", "\\", "[", "*", "+", "?"})   \* stand for themselves
InClass == Charset \ {"\\"}
Spans == {Span(e[1], e[2]) : e \in {f \in InClass \X (InClass \ {"]"}) : Code(f[1]) <= Code(f[2])}}
ClassParts == {Literal(c) : c \in InClass} \cup {Escaped(c) : c \in Escapes} \cup Spans
BadEscapes == {Writing(<<"\\", c>>, {}) : c \in Charset \ Escapes}
BadParts == BadEscapes \cup {Writing(<<e[1], "-", e[2]>>, {}) :
                               e \in {f \in InClass \X (InClass \ {"]"}) : Code(f[2]) < Code(f[1])}}

(* A class is negated by the `^` in front and closed by a `]` that is not  *)
(* its first character; "a literal `-` at either edge".                    *)
Placed(class) ==
  \A k \in DOMAIN class.parts :
    LET part == class.parts[k]  c == part.text[1] IN
    /\ c = "]" => k = 1
    /\ c = "^" => k > 1 \/ class.negated
    /\ c = "-" => k = 1 \/ (k = Len(class.parts) /\ part = Literal("-"))

CONSTANTS
  Classes,     \* classes as written: negated or not, and their parts
  BadClasses,  \* the same with a part at the end that is no part
  Items,       \* items in use
  Excluded,    \* texts "outside the list" (pattern.rs:14)
  MaxAtoms,    \* bound on the items of a pattern
  Texts        \* texts to match against it

ASSUME AuthorsAssumption ==
  /\ \A class \in Classes : class.negated \in BOOLEAN /\ class.parts \in Seq(ClassParts) /\ Placed(class)
  /\ \A class \in BadClasses :
       /\ class.negated \in BOOLEAN /\ class.parts \in Seq(ClassParts \cup BadParts) /\ class.parts # <<>>
       /\ \A k \in DOMAIN class.parts : class.parts[k] \in BadParts <=> k = Len(class.parts)
       /\ Placed(class)
  /\ Items \subseteq {Literal(c) : c \in Bare} \cup {Escaped(c) : c \in Escapes} \cup {Dot}
                       \cup {Class(class) : class \in {d \in Classes : d.parts # <<>>}}
  /\ Excluded \subseteq {<<c>> : c \in (Outside \cap Charset) \ {"$"}} \cup {<<"$", c>> : c \in Charset}
                          \cup {<<"\\">>} \cup {w.text : w \in BadEscapes}
                          \cup {Unclosed(class) : class \in Classes} \cup {Closed(class) : class \in BadClasses}
  /\ MaxAtoms \in Nat
  /\ Texts \subseteq Seq(Charset)

VARIABLES
  source,    \* the pattern as written
  atoms,     \* what its author means
  ended,     \* it ends in `$`
  excluded   \* it has something outside the subset

pattern == <<source, atoms, ended, excluded>>

PatternInit ==
  /\ source \in {<<>>, <<"^">>}
  /\ atoms = <<>> /\ ended = FALSE /\ excluded = FALSE

WriteItem(i) ==
  /\ ~ended /\ ~excluded /\ Len(atoms) < MaxAtoms
  /\ source' = source \o i.text
  /\ atoms' = Append(atoms, Atom(i.means, 1, 1))
  /\ UNCHANGED <<ended, excluded>>

(* Postfix: of the item before, which has no quantifier yet. *)
Open == atoms # <<>> /\ Last(atoms).min = 1 /\ Last(atoms).max = 1
WriteQuantifier(q) ==
  /\ ~ended /\ ~excluded /\ Open
  /\ source' = Append(source, q)
  /\ atoms' = Append(Front(atoms),
                     LET i == Last(atoms).item IN
                     CASE q = "*" -> Atom(i, 0, Many) [] q = "+" -> Atom(i, 1, Many)
                       [] OTHER -> Atom(i, 0, 1))
  /\ UNCHANGED <<ended, excluded>>

End ==
  /\ ~ended /\ ~excluded /\ source # <<>>
  /\ source' = Append(source, "$") /\ ended' = TRUE
  /\ UNCHANGED <<atoms, excluded>>

WriteExcluded(x) ==
  /\ ~ended /\ ~excluded /\ source # <<>>
  /\ source' = source \o x /\ excluded' = TRUE
  /\ UNCHANGED <<atoms, ended>>

PatternNext ==
  \/ \E i \in Items : WriteItem(i)
  \/ \E q \in {"*", "+", "?"} : WriteQuantifier(q)
  \/ End
  \/ \E x \in Excluded : WriteExcluded(x)

PatternSpec == PatternInit /\ [][PatternNext]_pattern

---------------------------------------------------------------------------
(* What a pattern means: a text is cut into one piece per atom.            *)
Denotes(as, t) ==
  \E cut \in [0 .. Len(as) -> 0 .. Len(t)] :
    /\ cut[0] = 0 /\ cut[Len(as)] = Len(t)
    /\ \A a \in 1 .. Len(as) :
         /\ cut[a - 1] + as[a].min <= cut[a]
         /\ cut[a] - cut[a - 1] <= as[a].max
         /\ \A i \in cut[a - 1] + 1 .. cut[a] : t[i] \in as[a].item

Found(as, start, end, t) ==
  \E i \in 1 .. Len(t) + 1 : \E j \in i - 1 .. Len(t) :
    /\ start => i = 1
    /\ end => j = Len(t)
    /\ Denotes(as, SubSeq(t, i, j))

(* A pattern of the documented subset is read as documented, whatever its  *)
(* items are written like, and one that leaves the subset is refused       *)
(* "with a reason" instead of guessed at (pattern.rs:13-16).               *)
ReadAsWritten ==
  LET p == parse(source) IN
  IF excluded THEN ~p.ok ELSE p = Compiled(At(source, 1) = "^", ended, atoms)

(* Matching is a search for a text the pattern denotes: whatever a greedy  *)
(* item took first, it is given back when the rest needs it.               *)
SearchIsExact ==
  ~excluded => \A t \in Texts :
     is_match(parse(source), t) <=> Found(atoms, At(source, 1) = "^", ended, t)
===========================================================================
