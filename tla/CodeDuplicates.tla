---------------------------- MODULE CodeDuplicates ----------------------------
(***************************************************************************)
(* What the duplication layer reports about a file, from the pairs of      *)
(* blocks of different files that are alike: in their tokens (syntax), or  *)
(* in the embeddings of their text (semantic), for which the embedding     *)
(* service must be there.  Blocks are functions, classes and top-level     *)
(* statements; a function in a function makes two blocks that overlap.     *)
(*                                                                         *)
(* A block has its file and its lines.  Which blocks are alike is a choice *)
(* of the environment, a set of pairs.                                     *)
(***************************************************************************)
EXTENDS Integers, FiniteSets, FiniteSetsExt

CONSTANT NoMetric       \* a metric that could not be computed

\* Variant: blocks of one file may be alike as well.
MatchesAnywhere(alike, block) ==
    {pair[2] : pair \in {p \in alike : p[1] = block}} \cup {pair[1] : pair \in {p \in alike : p[2] = block}}

\* The blocks of other files a block is alike to, in either order of the pair.
Matches(alike, block) ==
    {b \in {pair[2] : pair \in {p \in alike : p[1] = block}}
         \cup {pair[1] : pair \in {p \in alike : p[2] = block}} : b.file # block.file}

DuplicateBlocks(blocks, alike, f) == {b \in blocks : b.file = f /\ Matches(alike, b) # {}}

PeerFiles(alike, some) == {match.file : match \in UNION {Matches(alike, b) : b \in some}}

\* Variant: the lines of every block are added up.
DuplicateLinesPerBlock(blocks, alike, f) ==
    MapThenSumSet(LAMBDA b : Cardinality(b.lines), DuplicateBlocks(blocks, alike, f))

DuplicateLines(blocks, alike, f) ==
    Cardinality(UNION {b.lines : b \in DuplicateBlocks(blocks, alike, f)})

\* The most files that share a block, this one included.
GroupSize(blocks, alike, f) ==
    Max({0} \cup {1 + Cardinality(PeerFiles(alike, {b})) : b \in DuplicateBlocks(blocks, alike, f)})

\* Without the embedding service there are no semantic matches, and what is
\* only about them is not there.  A single block needs no service.
DuplicationMetrics(blocks, syntax, semantic, service, f) ==
    LET known == service \/ Cardinality(blocks) < 2
        alike == IF known THEN semantic ELSE {}
        some  == DuplicateBlocks(blocks, syntax, f) \cup DuplicateBlocks(blocks, alike, f) IN
    [blocks          |-> Cardinality(DuplicateBlocks(blocks, syntax, f)),
     duplicate_loc   |-> DuplicateLines(blocks, syntax, f),
     group           |-> GroupSize(blocks, syntax, f),
     semantic_blocks |-> IF known THEN Cardinality(DuplicateBlocks(blocks, alike, f)) ELSE NoMetric,
     candidates      |-> Cardinality(PeerFiles(syntax, some) \cup PeerFiles(alike, some))]
=============================================================================
