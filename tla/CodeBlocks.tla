----------------------------- MODULE CodeBlocks -----------------------------
(***************************************************************************)
(* The duplication layer before its metrics: the blocks of each source     *)
(* file and which of them are alike, in their tokens or in the embeddings  *)
(* of their texts.                                                         *)
(*                                                                         *)
(* A source has lines and the nodes of its syntax tree: functions,         *)
(* classes, imports and other statements, each from a first to a last      *)
(* line, at top level or inside another.  A line is a member of a small    *)
(* set; its tokens are a function of it.                                   *)
(***************************************************************************)
EXTENDS CodeDuplicates, Embeddings

CONSTANTS Blank,        \* a line without anything on it
          Tokens,       \* the tokens of a line, names and literals made equal
          Word,         \* what a line is to the embedding model
          MinLines, MinTokens

\* Neither blank nor a comment.
CodeLines(source, first, last) == {n \in first..last : Tokens[source.lines[n]] # <<>>}

LinesOf(source, first, last) == SubSeq(source.lines, first, last)

SyntaxTokens(lines) == FlattenSeq([n \in DOMAIN lines |-> Tokens[lines[n]]])

\* Comments stay, blank lines at either end do not.
EmbeddingText(lines) ==
    LET filled == {n \in DOMAIN lines : lines[n] # Blank}
        kept   == IF filled = {} THEN <<>> ELSE SubSeq(lines, Min(filled), Max(filled)) IN
    [n \in DOMAIN kept |-> Word[kept[n]]]

-----------------------------------------------------------------------------
(* Blocks.                                                                 *)

Candidate(kind, first, last) == [kind |-> kind, first |-> first, last |-> last]

\* Functions wherever they are; classes without a method or an inner class.
NodeCandidates(source) ==
    {Candidate(n.kind, n.first, n.last) :
        n \in {m \in source.nodes : m.kind = "function" \/ (m.kind = "class" /\ m.plain)}}

Loose(source) == {n \in source.nodes : n.top /\ n.kind = "other"}

\* An import, function or class stands between two statements.
Apart(source, n, m) ==
    \E x \in source.nodes : x.top /\ x.kind # "other" /\ n.first < x.first /\ x.first < m.first

\* The longest runs of other statements at top level.
StatementGroups(source) ==
    {Candidate("module_block", run[1].first, run[2].last) :
        run \in {r \in Loose(source) \X Loose(source) :
            /\ r[1].first <= r[2].first /\ ~ Apart(source, r[1], r[2])
            /\ \A n \in Loose(source) : /\ n.first < r[1].first => Apart(source, n, r[1])
                                        /\ r[2].first < n.first => Apart(source, r[2], n)}}

Block(source, f, c) ==
    [file |-> f, kind |-> c.kind, first |-> c.first, last |-> c.last,
     lines |-> CodeLines(source, c.first, c.last),
     tokens |-> SyntaxTokens(LinesOf(source, c.first, c.last)),
     text |-> EmbeddingText(LinesOf(source, c.first, c.last))]

LargeEnough(block) == Cardinality(block.lines) >= MinLines /\ Len(block.tokens) >= MinTokens

\* The whole file, if nothing in it is large enough.
ExtractBlocks(source, f) ==
    LET found == {Block(source, f, c) : c \in NodeCandidates(source) \cup StatementGroups(source)}
        whole == {Block(source, f, Candidate("module", 1, Len(source.lines)))} IN
    IF \E b \in found : LargeEnough(b) THEN {b \in found : LargeEnough(b)}
    ELSE {b \in whole : LargeEnough(b)}

\* A source that does not parse has no blocks, and the others go on without it.
FileBlocks(sources, f) == IF sources[f].parses THEN ExtractBlocks(sources[f], f) ELSE {}

\* File by file, top to bottom, an outer block before the inner if it ends first.
Earlier(a, b) ==
    \/ a.file < b.file
    \/ a.file = b.file /\ (a.first < b.first \/ (a.first = b.first /\ a.last < b.last))

AllBlocks(sources) ==
    LET all == UNION {FileBlocks(sources, f) : f \in DOMAIN sources} IN
    [n \in 1..Cardinality(all) |->
        CHOOSE b \in all : Cardinality({a \in all : Earlier(a, b)}) = n - 1]

-----------------------------------------------------------------------------
(* What is alike.  Blocks with the same tokens are, and so are blocks with *)
(* the same embedding, unless it is zero; which others are near enough is  *)
(* given.  The thresholds are above zero and not above what rounding       *)
(* leaves of one.                                                          *)

Pairs(blocks) == {p \in (DOMAIN blocks) \X (DOMAIN blocks) : p[1] < p[2]}

SyntaxDuplicates(blocks) ==
    {<<blocks[p[1]], blocks[p[2]]>> :
        p \in {q \in Pairs(blocks) : blocks[q[1]].tokens = blocks[q[2]].tokens}}

\* Of a vector that is zero the similarity is zero, to itself as well.
Similar(left, right) == left # 0 /\ left = right

SemanticDuplicates(service, blocks) ==
    LET vectors == Encode(service, [i \in DOMAIN blocks |-> blocks[i].text]) IN
    {<<blocks[p[1]], blocks[p[2]]>> :
        p \in {q \in Pairs(blocks) : Similar(vectors[q[1]], vectors[q[2]])}}

\* A single block needs no model.
SemanticFound(service, blocks) ==
    IF Len(blocks) > 1 /\ Loads(service) THEN SemanticDuplicates(service, blocks) ELSE {}

\* Every metric of a file but the largest similarity, once the duplicates are found.
Duplication(service, blocks, syntax, semantic, f) ==
    DuplicationMetrics(Range(blocks), syntax, semantic, Loads(service), f)
=============================================================================
