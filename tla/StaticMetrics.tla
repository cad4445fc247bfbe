---------------------------- MODULE StaticMetrics ----------------------------
(***************************************************************************)
(* The static analysis layer: what it counts in the syntax tree, the       *)
(* comments and the coverage data of one file.  The complexities and the   *)
(* lines are those of radon and complexipy.                                *)
(*                                                                         *)
(* A tree is a sequence of statements.  A statement has a kind, the bodies *)
(* it consists of (body, handlers, orelse), the number of its parameters   *)
(* and a test, which is a leaf or a Boolean operation on tests; a negated  *)
(* condition is a leaf, and the expressions in statements are left out.    *)
(***************************************************************************)
EXTENDS Integers, Sequences, SequencesExt, FiniteSetsExt, Functions

CONSTANTS NoData,       \* there is no coverage data, or it cannot be read
          Fixmes        \* the comments that contain one of FIXME_TAGS

LongConditionOperandThreshold == 3

\* All statements, each followed by those in it.
RECURSIVE Walk(_)
Walk(tree) ==
    IF tree = <<>> THEN <<>>
    ELSE LET stmt == tree[1] IN
         <<stmt>> \o Walk(stmt.body) \o Walk(stmt.handlers) \o Walk(stmt.orelse) \o Walk(Tail(tree))

OfKind(nodes, kind) == SelectSeq(nodes, LAMBDA stmt : stmt.kind = kind)

Largest(numbers) == FoldLeft(LAMBDA n, m : IF m > n THEN m ELSE n, 0, numbers)

\* In hundredths.
Average(numbers) ==
    IF numbers = <<>> THEN 0 ELSE (100 * FoldLeft(LAMBDA n, m : n + m, 0, numbers)) \div Len(numbers)

\* Of a condition written with "and" and "or", however they are nested.
RECURSIVE ConditionOperandCount(_)
ConditionOperandCount(test) ==
    IF test.values = <<>> THEN 1
    ELSE FoldLeft(LAMBDA n, value : n + ConditionOperandCount(value), 0, test.values)

LongConditionsCount(nodes) ==
    Len(SelectSeq(nodes, LAMBDA stmt :
        /\ stmt.kind \in {"if", "while", "assert"}
        /\ ConditionOperandCount(stmt.test) >= LongConditionOperandThreshold))

\* Variant: an "if" that only begins the alternative goes on with the chain.
RECURSIVE ChainLengthOn(_)
ChainLengthOn(stmt) ==
    IF stmt.orelse = <<>> THEN 1
    ELSE IF stmt.orelse[1].kind = "if" THEN 1 + ChainLengthOn(stmt.orelse[1])
    ELSE 2

\* An alternative that is nothing but an "if" goes on with the chain.
RECURSIVE ChainLength(_)
ChainLength(stmt) ==
    IF stmt.orelse = <<>> THEN 1
    ELSE IF Len(stmt.orelse) = 1 /\ stmt.orelse[1].kind = "if" THEN 1 + ChainLength(stmt.orelse[1])
    ELSE 2

MaxIfElseChain(nodes) ==
    LET ifs == OfKind(nodes, "if") IN Largest([i \in DOMAIN ifs |-> ChainLength(ifs[i])])

AverageParameters(nodes) ==
    LET functions == OfKind(nodes, "function") IN
    Average([i \in DOMAIN functions |-> functions[i].params])

\* Nothing but "pass", "..." or a string.
IsEmptyBlock(body) == \A i \in DOMAIN body : body[i].kind = "noop"

EmptyExceptBlocks(nodes) ==
    Len(SelectSeq(nodes, LAMBDA stmt : stmt.kind = "except" /\ IsEmptyBlock(stmt.body)))

FixmeComments(lines) == Len(SelectSeq(lines, LAMBDA line : line \in Fixmes))

\* In hundredths of a per cent, of the statements the data says were run; a file
\* without statements is covered.
TestingCoverage(statements, run) ==
    IF run = NoData THEN 0
    ELSE IF statements = <<>> THEN 10000
    ELSE (10000 * Len(SelectSeq(statements, LAMBDA line : line \in run))) \div Len(statements)

StaticMetrics(tree, lines) ==
    LET nodes == Walk(tree) IN
    [long_conditions |-> LongConditionsCount(nodes),
     if_else_chain   |-> MaxIfElseChain(nodes),
     parameters      |-> AverageParameters(nodes),
     fixme           |-> FixmeComments(lines),
     empty_except    |-> EmptyExceptBlocks(nodes)]
=============================================================================
