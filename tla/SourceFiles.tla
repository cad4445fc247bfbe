----------------------------- MODULE SourceFiles -----------------------------
(***************************************************************************)
(* The source files of a project, as they may be written and copied, and   *)
(* the duplicates a scan finds in them at any moment.                      *)
(***************************************************************************)
EXTENDS CodeBlocks

CONSTANTS Files,        \* numbers, in the order the files are found
          Services      \* the embedding services a scan may run with

\* The service refuses a batch size or a length below 1, no limit of a model counts
\* that is not positive, and a block has three lines; a blank line has no token.
ASSUME SourcesAssumption ==
    /\ Files \in SUBSET Nat /\ IsFiniteSet(Files)
    /\ MinLines \in Nat \ {0} /\ MinTokens \in Nat /\ BatchSize \in Nat \ {0}
    /\ Tokens[Blank] = <<>> /\ \A line \in DOMAIN Tokens : Word[line] \in Int
    /\ \A service \in Services : /\ service.length \in Nat \ {0}
                                  /\ service.limits \subseteq Nat \ {0}

VARIABLE sources        \* what is in each file

-----------------------------------------------------------------------------
(* What a file can be.                                                     *)

Nodes == [kind : {"function", "class", "import", "other"}, first : Nat, last : Nat,
          top : BOOLEAN, plain : BOOLEAN]

\* Nothing else begins on the line of a "def" or a "class": only simple statements
\* share a line, with each other.
Sources ==
    {s \in [parses : BOOLEAN, lines : Seq(DOMAIN Tokens), nodes : SUBSET Nodes] :
        /\ IsFiniteSet(s.nodes)
        /\ \A n \in s.nodes : n.first \in 1..n.last /\ n.last \in 1..Len(s.lines)
        /\ \A n, m \in s.nodes : n.first = m.first /\ n.kind \in {"function", "class"} => n = m}

Empty == [parses |-> TRUE, lines |-> <<>>, nodes |-> {}]

NothingWritten == sources = [f \in Files |-> Empty]

Put(f, source) == source \in Sources /\ sources' = [sources EXCEPT ![f] = source]

Edit == \E f \in Files : \E source \in Sources : Put(f, source)

Editing == NothingWritten /\ [][Edit]_sources

-----------------------------------------------------------------------------
\* A pair of blocks that is not the same, but near enough, or none.
Near(blocks) ==
    {{}} \cup {{<<blocks[p[1]], blocks[p[2]]>>} : p \in Pairs(blocks)}

\* A line in two blocks that have duplicates, as a function in a function, is
\* one duplicate line: a file has no more of them than lines of code.
LinesCountedOnce ==
    LET blocks == AllBlocks(sources) IN
    \A near \in Near(blocks), f \in Files :
        DuplicateLines(Range(blocks), SyntaxDuplicates(blocks) \cup near, f)
            <= Cardinality(CodeLines(sources[f], 1, Len(sources[f].lines)))

\* A file with duplicates has them in another file, which has them too; no group
\* is larger than the files with duplicates; and so with or without the model.
DuplicatesComeInPairs ==
    LET blocks == AllBlocks(sources) IN
    \A service \in Services :
        LET syntax   == SyntaxDuplicates(blocks)
            semantic == SemanticFound(service, blocks) IN
        \A near \in Near(blocks) :
            LET of    == [f \in Files |->
                             Duplication(service, blocks, syntax \cup near, semantic \cup near, f)]
                dup   == {f \in Files : of[f].blocks > 0}
                peers == {f \in Files : of[f].candidates > 0} IN
            /\ Cardinality(peers) # 1 /\ dup \subseteq peers
            /\ \A f \in dup : of[f].group \in 2..Cardinality(dup)

\* A copied file is found out, every block of it, by its tokens, and by its
\* embeddings every block whose text has one when it is encoded alone: no other text
\* in a batch, and no place in it, has a say.  With padding on the left they have,
\* as it moves the positions of the tokens.
CopiesAreFound ==
    LET blocks == AllBlocks(sources) IN
    \A service \in Services :
        LET syntax   == SyntaxDuplicates(blocks)
            semantic == SemanticFound(service, blocks) IN
        \A f, g \in Files :
            LET own     == Cardinality(FileBlocks(sources, f))
                metrics == Duplication(service, blocks, syntax, semantic, f) IN
            f # g /\ sources[f] = sources[g] /\ own > 0 =>
                /\ metrics.blocks = own /\ metrics.group > 1
                /\ ~ Loads(service) => metrics.semantic_blocks = NoMetric
                /\ Loads(service) /\ service.side = "right" =>
                      metrics.semantic_blocks
                          = Cardinality({b \in FileBlocks(sources, f) : Encode(service, <<b.text>>)[1] # 0})
=============================================================================
