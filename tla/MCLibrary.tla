----------------------------- MODULE MCLibrary -----------------------------
(***************************************************************************)
(* The parts of the library that are called by one caller at a time and    *)
(* share nothing: the validators, the statistics, the vector spaces, the   *)
(* session frames and the onboarding machines.  A behaviour exercises one  *)
(* of them; what it must promise is stated, in its own module, for every   *)
(* state, that is, for every input within the bounds.                      *)
(***************************************************************************)
EXTENDS Validation, Statistics, Embedding, SessionFrame, Onboarding

vars == <<pattern, document, series, candidates, registration, framing, onboarding>>

Init ==
  /\ AuthorsInit
  /\ SeriesInit /\ CandidatesInit
  /\ EmbeddingInit
  /\ FramingInit /\ OnboardingInit

(* The parts that are not being exercised are as they were in the beginning. *)
Idle(part) ==
  CASE part = "validation" -> source = <<>> /\ document = <<<<>>, [n \in DefNames |-> <<>>]>>
    [] part = "series" -> x = <<>> /\ y = <<>>
    [] part = "candidates" -> outcomes = <<>>
    [] part = "embedding" -> registration = NewRegistration
    [] part = "framing" -> frame = NoFrame
    [] part = "onboarding" -> asked = {} /\ machine = "org"
Parts == {"validation", "series", "candidates", "embedding", "framing", "onboarding"}
Only(part) == \A other \in Parts \ {part} : Idle(other)

Next ==
  \/ /\ Only("validation")
     /\ AuthorsNext
     /\ UNCHANGED <<series, candidates, registration, framing, onboarding>>
  \/ /\ Only("series")
     /\ SeriesNext
     /\ UNCHANGED <<pattern, document, candidates, registration, framing, onboarding>>
  \/ /\ Only("candidates")
     /\ CandidatesNext
     /\ UNCHANGED <<pattern, document, series, registration, framing, onboarding>>
  \/ /\ Only("embedding")
     /\ EmbeddingNext
     /\ UNCHANGED <<pattern, document, series, candidates, framing, onboarding>>
  \/ /\ Only("framing")
     /\ FramingNext
     /\ UNCHANGED <<pattern, document, series, candidates, registration, onboarding>>
  \/ /\ Only("onboarding")
     /\ OnboardingNext
     /\ UNCHANGED <<pattern, document, series, candidates, registration, framing>>

Spec == Init /\ [][Next]_vars

---------------------------------------------------------------------------
(* The instance.  A pattern of up to three of the items below; a document  *)
(* and one definition of up to two keywords each.                          *)
MCCharacters == <<"\t", "\n", "\r", " ", "$", "(", "*", "+", "-", ".", "1", "?", "D", "S", "W",
                  "[", "\\", "]", "^", "_", "a", "b", "d", "n", "r", "s", "t", "w", "{">>
MCLetters == {"D", "S", "W", "a", "b", "d", "n", "r", "s", "t", "w"}
MCSpaces == {"\t", "\n", "\r", " "}
MCPunctuation == {"$", "(", "*", "+", "-", ".", "?", "[", "\\", "]", "^", "_", "{"}

Bracket(negated, parts) == [negated |-> negated, parts |-> parts]
MCClasses == {
  Bracket(FALSE, <<Span("1", "a"), Literal("b"), Literal("-")>>),
  Bracket(TRUE, <<Literal("]"), Literal("a")>>), Bracket(FALSE, <<Literal("-"), Escaped("d")>>),
  Bracket(FALSE, <<Literal("a")>>), Bracket(FALSE, <<>>), Bracket(TRUE, <<>>)}
MCBadClasses == {Bracket(FALSE, <<Literal("-"), Writing(<<"b", "-", "a">>, {})>>)}
MCItems == {Literal("a"), Dot, Escaped("*"), Escaped("W")} \cup
           {Class(c) : c \in {d \in MCClasses : Len(d.parts) > 1}}
MCExcluded == {<<"(">>, <<"{">>, <<"^">>, <<"$", "a">>, <<"\\", "b">>}
                \cup {Unclosed(c) : c \in {d \in MCClasses : Len(d.parts) < 2}}
                \cup {Closed(c) : c \in MCBadClasses}
MCTexts == UNION {[1 .. n -> {"a", "*", "]", "\n"}] : n \in 0 .. 3}

Str(s) == <<"string", s>>
Num(n) == <<"integer", n>>
Arr(s) == <<"array", s>>
Obj(f) == <<"object", f>>
On(k, v) == <<"object", [key \in {k} |-> v]>>
Ref(n) == On("$ref", Str(<<"#/$defs/", n>>))
A == <<"a">>       \* member names, two of which need escaping
Slash == <<"a", "/", "b">>
Tilde == <<"~", "1">>

MCValues == {
  <<"null", 0>>, <<"boolean", TRUE>>, Num(0), Num(1), <<"float", 2>>, <<"float", 3>>,
  Str(<<>>), Str(A), Str(<<"a", "a">>), Arr(<<>>), Arr(<<Str(A)>>), Arr(<<Num(1), Str(<<>>)>>),
  Obj(<<>>), On(A, Num(1)), On(Slash, Str(A)), On(Tilde, On(Slash, Num(1)))}

MCDefMenu == {
  <<"type", Str("string")>>, <<"type", Str("number")>>, <<"type", Arr(<<Str("integer"), Str("null")>>)>>,
  <<"const", Num(1)>>, <<"enum", Arr(<<Str(A), Num(1)>>)>>, <<"minLength", Num(1)>>,
  <<"maxLength", Num(1)>>, <<"pattern", Str(<<"^", "a", "+", "$">>)>>, <<"pattern", Str(<<"(">>)>>,
  <<"minimum", Num(1)>>, <<"maximum", <<"float", 2>>>>, <<"minItems", Num(1)>>, <<"maxItems", Num(1)>>,
  <<"required", Arr(<<Str(Slash), Str(A)>>)>>, <<"additionalProperties", <<"boolean", FALSE>>>>,
  <<"properties", On(Slash, On("type", Str("string")))>>,
  <<"items", On("type", Str("string"))>>, <<"uniqueItems", <<"boolean", TRUE>>>>}
MCRootMenu == MCDefMenu \cup {
  <<"type", Str("object")>>, <<"properties", On(Tilde, Ref("D"))>>, <<"items", Ref("D")>>,
  <<"additionalProperties", Ref("D")>>, <<"x-ores-table", Str("orgs")>>, <<"title", Str("t")>>,
  <<"oneOf", Arr(<<Ref("D"), On("type", Str("string"))>>)>>,
  <<"$ref", Str(<<"#/$defs/", "D">>)>>, <<"$ref", Str(<<"#/$defs/", "E">>)>>,
  <<"$ref", Str(<<"other.json#/", "D">>)>>}

(* A definition may be a reference to the other one. *)
ChainRootMenu == {<<"$ref", Str(<<"#/$defs/", "D">>)>>, <<"items", Ref("D")>>}
ChainDefMenu == MCDefMenu \cup {<<"$ref", Str(<<"#/$defs/", "E">>)>>}

(* Of 0, 0, 1 the predictor varies by less than this, of 0, 0, 0, 1 by as  *)
(* much.                                                                   *)
MCTolerance == <<3, 4>>

(* Tests of a feature against the response 0, 1, 3: a straight line, two   *)
(* weaker ones of opposite signs, and one that cannot be made.             *)
MCOutcomes == {pearson(f, <<0, 1, 3>>) : f \in {<<0, 2, 6>>, <<0, 0, 1>>, <<3, 3, 0>>, <<1, 1, 1>>}}

Space(i, d, t, m, r) ==
  [identity |-> i, dimensions |-> d, truncated_to |-> t, metric |-> m, role |-> r]
MCRegistered == Space("logs", 2, 0, "cosine", "document")
MCEmbeddingSpaces == {
  MCRegistered, Space("logs", 2, 0, "cosine", "query"), Space("logs", 3, 2, "cosine", "query"),
  Space("logs", 2, 1, "cosine", "document"), Space("logs", 2, 0, "dot", "query"),
  Space("other tenant's logs", 2, 0, "cosine", "query"), Space("logs", 3, 0, "l2", "document")}

(* One frame or more of each tag, with and without what is optional. *)
Send(tag, fields) == [tag |-> tag, fields |-> fields]
MCFrames == {
  Send(1, <<1, <<>>>>), Send(1, <<1, <<<<7>>>>>>), Send(2, <<<<7>>, TRUE, 3>>), Send(3, <<17>>),
  Send(4, <<2>>), Send(5, <<<<>>, 1, 2>>), Send(6, <<<<7>>>>), Send(7, <<<<7>>, 1>>),
  Send(8, <<<<7>>, 1, <<15, 1>>>>), Send(9, <<<<7>>, 2>>), Send(10, <<1, <<7>>, <<>>>>),
  Send(11, <<1, <<2>>>>), Send(12, <<<<>>, 4, <<7>>>>), Send(12, <<<<3>>, 9, <<>>>>),
  Send(13, <<6, <<7>>>>)}
===========================================================================
