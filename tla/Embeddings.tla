----------------------------- MODULE Embeddings -----------------------------
(***************************************************************************)
(* The embedding service: texts in, one vector per text out.  The texts    *)
(* are sorted by their length and run through the model in batches, each   *)
(* padded to its longest text; the vectors go back to the places of their  *)
(* texts.  If any batch fails, encode does.                                *)
(*                                                                         *)
(* A text is a sequence of tokens.  The model is external: what it makes   *)
(* of a place in a row depends on the text it attends to there and on the  *)
(* positions it is given, which are the places of the padded row.  States  *)
(* and vectors are numbers; a vector counts as far as it differs from zero *)
(* and from others, and is normalised, so that the sum of the states       *)
(* stands for their mean, whatever it is divided by.                       *)
(***************************************************************************)
EXTENDS Integers, Sequences, SequencesExt, FiniteSetsExt, Functions

CONSTANTS BatchSize,
          Hidden(_, _, _),  \* the state for a text after so many places of padding, at a place
          NotFinite         \* such a state, if the model overflows; it does at no place of padding

Modes == {"cls", "mean", "max", "mean_sqrt_len", "last_token"}

-----------------------------------------------------------------------------
(* Loading.  A service is asked for a model with a length and possibly a   *)
(* mode; the files of a local model may limit the one and name the other.  *)

DefaultMode(service) == IF service.model \in {"codesage", "jina"} THEN "mean" ELSE "cls"

\* The files name exactly one mode, or there is no file about pooling.
Loads(service) == service.pooling = {} \/ Cardinality(service.enabled) = 1

PoolingMode(service) ==
    IF service.pooling # {} THEN CHOOSE mode \in service.enabled : TRUE
    ELSE IF service.mode # "unset" THEN service.mode
    ELSE DefaultMode(service)

\* Of all limits that are known: of the settings, of the files, the model and
\* the tokenizer, which may have none.
MaxLength(service) == Min({service.length} \cup service.limits)

-----------------------------------------------------------------------------
(* One batch.                                                              *)

Truncated(service, text) ==
    IF Len(text) <= MaxLength(service) THEN text ELSE SubSeq(text, 1, MaxLength(service))

\* Where the text begins in its row, after the padding or before it.
Shift(service, text, width) == IF service.side = "right" THEN 0 ELSE width - Len(text)

\* The places of the text in its row: the attention mask.
Attended(service, text, width) == {Shift(service, text, width) + i : i \in DOMAIN text}

\* The places pooled: a finite state times zero, or below all others, adds nothing.
\* The last token is at the end of every row, or else where the
\* text ends when it starts the row.
Places(mode, width, attended, all) ==
    IF mode = "cls" THEN {1}
    ELSE IF mode = "last_token" THEN {IF all THEN width ELSE Cardinality(attended)}
    ELSE attended

\* Of a vector that is not finite nothing is left.
Pool(mode, states) ==
    IF NotFinite \in Range(states) THEN 0
    ELSE IF mode = "max" THEN Max(Range(states))
    ELSE SumFunction(states)

\* The vector of the text at a place, in a batch with those at the others.
Vector(service, texts, batch, n) ==
    LET mode        == PoolingMode(service)
        width       == Max({Len(texts[m]) : m \in batch})
        attended(m) == Attended(service, texts[m], width)
        places      == Places(mode, width, attended(n), \A m \in batch : width \in attended(m)) IN
    Pool(mode, [i \in places |-> Hidden(texts[n], Shift(service, texts[n], width), i)])

-----------------------------------------------------------------------------
(* All texts.                                                              *)

\* The indices sorted before another, the shortest text first; sorting is stable.
Before(texts, i) ==
    {j \in DOMAIN texts : Len(texts[j]) < Len(texts[i]) \/ (Len(texts[j]) = Len(texts[i]) /\ j < i)}

ByLength(texts) ==
    [n \in DOMAIN texts |-> CHOOSE i \in DOMAIN texts : Cardinality(Before(texts, i)) = n - 1]

\* The places of a batch.
BatchOf(texts, n) == {m \in DOMAIN texts : (m - 1) \div BatchSize = (n - 1) \div BatchSize}

\* The vectors in the order in which they come out of the batches.
InBatches(service, texts) ==
    LET order == ByLength(texts)
        cut   == [n \in DOMAIN texts |-> Truncated(service, texts[order[n]])] IN
    [n \in DOMAIN texts |-> Vector(service, cut, BatchOf(cut, n), n)]

\* Variant: the vectors stay in that order.
AsSorted(order, vectors) == vectors

\* Each vector goes to the index of its text.
Restored(order, vectors) ==
    [i \in DOMAIN order |-> vectors[CHOOSE n \in DOMAIN order : order[n] = i]]

Encode(service, texts) == Restored(ByLength(texts), InBatches(service, texts))
=============================================================================
