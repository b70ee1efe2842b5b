------------------------------ MODULE Embedding ------------------------------
(***************************************************************************)
(* Vector spaces and their registration, src/src/analysis/embedding.rs:    *)
(* padded storage, comparison within a space, and the review gates before  *)
(* a space may serve.  A space is [identity, dimensions, truncated_to,     *)
(* metric, role]; identity stands for the nine fields that are compared    *)
(* for equality and used for nothing else.  Components are integers.       *)
(***************************************************************************)
EXTENDS Integers, Sequences, FiniteSets, SequencesExt

CONSTANTS
  STORAGE_SLOTS,  \* 4100
  NaN,            \* a component that is not finite
  NoTruncation,   \* truncated_to is None
  EmbeddingSpaces, Registered,  \* spaces, and the one that is registered
  Components, MaxDimensions     \* of the vectors

ASSUME EmbeddingAssumption ==
  /\ STORAGE_SLOTS \in Nat /\ MaxDimensions \in Nat
  /\ Components \subseteq Int
  /\ \A s \in EmbeddingSpaces \cup {Registered} :
       /\ s = [identity |-> s.identity, dimensions |-> s.dimensions, truncated_to |-> s.truncated_to,
               metric |-> s.metric, role |-> s.role]
       /\ s.metric \in {"dot", "cosine", "l2"} /\ {s.dimensions, s.truncated_to} \subseteq Nat

BaseEvidence == {"migration_replay", "tenant_isolation", "lexical_only_retrieval",
                 "rollback", "backup_restore"}
EvidenceNames == BaseEvidence \cup {"exact_vs_ann_recall"}
AnnStrategies == {"halfvec-exact", "halfvec-mrl", "binary-full-rerank"}
is_approximate(strategy) == strategy # "halfvec-exact"

VARIABLE registration   \* [ann_strategy, enabled, evidence] of one space

---------------------------------------------------------------------------
Width(space) == IF space.truncated_to = NoTruncation THEN space.dimensions ELSE space.truncated_to

Refusal(e) == [error |-> e, vector |-> <<>>]
pad_for_storage(v, space) ==
  CASE Len(v) > STORAGE_SLOTS -> Refusal("TooWide")
    [] Len(v) <= STORAGE_SLOTS /\ Len(v) # Width(space) -> Refusal("DimensionMismatch")
    [] OTHER ->
         IF Contains(v, NaN) THEN Refusal("NotFinite")
         ELSE [error |-> "", vector |-> v \o [i \in 1 .. STORAGE_SLOTS - Len(v) |-> 0]]

StoredWidth(stored, space) == Min({Width(space), Len(stored)})
unpad(stored, space) == SubSeq(stored, 1, StoredWidth(stored, space))

comparable_with(a, b) == [a EXCEPT !.role = b.role] = b

SumOver(s) ==
  LET sum[i \in 0 .. Len(s)] == IF i = 0 THEN 0 ELSE sum[i - 1] + s[i]
  IN sum[Len(s)]
dot(a, b) == SumOver([i \in DOMAIN a |-> a[i] * b[i]])
distance(a, b) == SumOver([i \in DOMAIN a |-> (a[i] - b[i]) * (a[i] - b[i])])

(* The numbers a metric is a quotient or a root of. *)
Measured(metric, a, b) ==
  CASE metric = "dot" -> <<dot(a, b)>>
    [] metric = "cosine" -> IF dot(a, a) = 0 \/ dot(b, b) = 0 THEN <<0, 1, 1>>
                            ELSE <<dot(a, b), dot(a, a), dot(b, b)>>
    [] metric = "l2" -> <<distance(a, b)>>

similarity(a, left, b, right, enabled) ==
  LET n == Min({Len(a), Len(b)}) IN
  CASE ~comparable_with(left, right) -> [error |-> "IncomparableSpaces", value |-> <<>>]
    [] comparable_with(left, right) /\ ~enabled -> [error |-> "SpaceDisabled", value |-> <<>>]
    [] OTHER -> [error |-> "", value |-> Measured(left.metric, SubSeq(a, 1, n), SubSeq(b, 1, n))]

---------------------------------------------------------------------------
BaseOnly(r) == BaseEvidence \ {"rollback"} \subseteq r.evidence   \* mutant: a gate is left out
complete_for(r) ==
  /\ BaseEvidence \subseteq r.evidence
  /\ is_approximate(r.ann_strategy) => "exact_vs_ann_recall" \in r.evidence

NewRegistration == [ann_strategy |-> "halfvec-exact", enabled |-> FALSE, evidence |-> {}]

enable ==
  /\ ~(is_approximate(registration.ann_strategy) /\ "exact_vs_ann_recall" \notin registration.evidence)
  /\ complete_for(registration)
  /\ registration' = [registration EXCEPT !.enabled = TRUE]

(* The operator, who has the fields in hand, and edits them only while the *)
(* space is disabled: nothing in the type keeps anybody to that.           *)
Edit ==
  /\ ~registration.enabled
  /\ \/ \E a \in AnnStrategies : registration' = [registration EXCEPT !.ann_strategy = a]
     \/ \E e \in EvidenceNames :
          \/ registration' = [registration EXCEPT !.evidence = @ \cup {e}]
          \/ registration' = [registration EXCEPT !.evidence = @ \ {e}]

Disable == registration' = [registration EXCEPT !.enabled = FALSE]

EmbeddingInit == registration = NewRegistration
EmbeddingNext == enable \/ Edit \/ Disable
EmbeddingSpec == EmbeddingInit /\ [][EmbeddingNext]_registration

---------------------------------------------------------------------------
(* "Every space ships disabled; enabling one requires evidence" (line      *)
(* 182), and comparing stored rows is comparing the native vectors of one  *)
(* space, whatever the padding (lines 26-33).                              *)
ServedAsReviewed ==
  /\ registration.enabled =>
       /\ BaseEvidence \subseteq registration.evidence
       /\ registration.ann_strategy # "halfvec-exact" => EvidenceNames \subseteq registration.evidence
  /\ \A s, t \in EmbeddingSpaces : registration.enabled /\ comparable_with(s, Registered) =>
     \A n \in 1 .. MaxDimensions : \A v, w \in [1 .. n -> Components] :
       LET a == pad_for_storage(v, s)  b == pad_for_storage(w, t)
           answer == similarity(a.vector, s, b.vector, t, registration.enabled)
       IN a.error = "" /\ b.error = "" /\ answer.error = "" =>
            /\ <<t.identity, t.metric, Width(t)>> = <<s.identity, s.metric, Width(s)>>
            /\ unpad(a.vector, s) = v /\ unpad(b.vector, t) = w
            /\ answer.value = Measured(s.metric, v, w)
===========================================================================
