--------------------------- MODULE DecisionScoring ---------------------------
(***************************************************************************)
(* How urgent it is to refactor a file: the decision layer of a scan turns *)
(* the metrics of the other layers into four component scores and these    *)
(* into one refactor score.  A metric a layer could not compute is         *)
(* NoValue, and the weights of those that are there are scaled up.         *)
(*                                                                         *)
(* Numbers are fixed-point: weights in percent, scores in thousandths, the *)
(* refactor score in millionths, rounded down where the code rounds to six *)
(* digits.  Ratios among the metrics are in thousandths, except the test   *)
(* coverage, which is in percent.                                          *)
(***************************************************************************)
EXTENDS Integers, Sequences, SequencesExt, FiniteSets, Functions

CONSTANT NoValue        \* a metric or score that is not available

ASSUME ScoringAssumption == NoValue \notin Int

One     == 1000
Clamp(n) == IF n < 0 THEN 0 ELSE IF n > One THEN One ELSE n
Positive(n) == IF n < 0 THEN 0 ELSE n
Larger(m, n) == IF m > n THEN m ELSE n

-----------------------------------------------------------------------------
(* Normalising one metric.                                                 *)

\* Saturated beyond an offset: nothing below the one, all of it above the other.
Saturated(v, offset, saturation) ==
    IF v = NoValue THEN NoValue ELSE Clamp(((v - offset) * One) \div saturation)

\* A count per 500 lines of code.
Dense(count, loc, saturation) ==
    IF count = NoValue \/ loc = NoValue THEN NoValue
    ELSE Clamp((Positive(count) * 500 * One) \div (Larger(loc, 1) * saturation))

\* The lines that are not covered by tests, from the percentage that are.
CoverageGap(coverage) == IF coverage = NoValue THEN NoValue ELSE One - Clamp(coverage * 10)

\* The number of lines: the first of three counts that is there, or the largest.
CodeLoc(m) ==
    IF m.source_lines_of_code # NoValue THEN m.source_lines_of_code
    ELSE IF m.logical_lines_of_code # NoValue THEN m.logical_lines_of_code
    ELSE m.lines_of_code

PhysicalLoc(m) ==
    LET counts == {m.lines_of_code, m.source_lines_of_code, m.logical_lines_of_code} \ {NoValue} IN
    IF counts = {} THEN NoValue ELSE CHOOSE n \in counts : \A k \in counts : k <= n

-----------------------------------------------------------------------------
(* The metrics of each component, normalised, and their weights.           *)

ComplexityWeights ==
    [max_cyclomatic |-> 18, max_cognitive |-> 18, average_cyclomatic |-> 7, average_cognitive |-> 7,
     size |-> 18, long_conditions |-> 7, if_else_chain |-> 6, parameters |-> 7, fixme |-> 6,
     empty_except |-> 4, coverage_gap |-> 2]

ComplexityScores(m) ==
    [max_cyclomatic     |-> Saturated(m.max_cyclomatic, 0, 15),
     max_cognitive      |-> Saturated(m.max_cognitive, 0, 25),
     average_cyclomatic |-> Saturated(m.average_cyclomatic, 0, 8),
     average_cognitive  |-> Saturated(m.average_cognitive, 0, 12),
     size               |-> Saturated(PhysicalLoc(m), 0, 300),
     long_conditions    |-> Dense(m.long_conditions, CodeLoc(m), 5),
     if_else_chain      |-> Saturated(m.if_else_chain, 1, 5),
     parameters         |-> Saturated(m.parameters, 3, 4),
     fixme              |-> Dense(m.fixme, CodeLoc(m), 5),
     empty_except       |-> Dense(m.empty_except, CodeLoc(m), 3),
     coverage_gap       |-> CoverageGap(m.testing_coverage)]

HistoryWeights ==
    [churn |-> 25, recent_changes |-> 18, bug_fix_ratio |-> 18, complexity_growth |-> 12,
     bug_fixes |-> 10, co_changes |-> 10, contributors |-> 4, recent_ratio |-> 3]

\* The commit that created the file is no modification of it.
Modifications(m) == IF m.update_count = NoValue THEN NoValue ELSE Positive(m.update_count - 1)

RecentChanges(m) ==
    IF m.recent_update_count = NoValue \/ Modifications(m) = NoValue THEN NoValue
    ELSE LET recent == Positive(m.recent_update_count) IN
         IF recent < Modifications(m) THEN recent ELSE Modifications(m)

RecentRatio(m) ==
    IF Modifications(m) = 0 THEN 0
    ELSE IF RecentChanges(m) = NoValue THEN NoValue
    ELSE Clamp((RecentChanges(m) * One) \div Modifications(m))

\* Few modifications do not support a ratio.
SupportedBugFixRatio(m) ==
    IF m.bug_fix_ratio = NoValue \/ Modifications(m) = NoValue THEN NoValue
    ELSE (m.bug_fix_ratio * Modifications(m)) \div (Modifications(m) + 2)

HistoryScores(m) ==
    [churn             |-> Saturated(m.churn, 0, 8),
     recent_changes    |-> Saturated(RecentChanges(m), 0, 12),
     bug_fix_ratio     |-> Saturated(SupportedBugFixRatio(m), 0, 500),
     complexity_growth |-> Saturated(m.complexity_growth, 0, 5),
     bug_fixes         |-> Saturated(m.bug_fixes, 0, 6),
     co_changes        |-> Saturated(m.co_changes, 0, 12),
     contributors      |-> Saturated(m.contributors, 1, 5),
     recent_ratio      |-> RecentRatio(m)]

DuplicationWeights ==
    [duplicate_loc |-> 24, blocks |-> 22, semantic_blocks |-> 22, group |-> 12,
     candidates |-> 10, similarity |-> 10]

\* Variant: more duplicate lines than lines are taken for a missing metric.
DuplicateLocWithinCode(m) ==
    IF m.duplicate_loc = NoValue \/ CodeLoc(m) = NoValue \/ m.duplicate_loc > CodeLoc(m) THEN NoValue
    ELSE (((m.duplicate_loc * One) \div Larger(CodeLoc(m), 1)) * Saturated(m.duplicate_loc, 0, 30)) \div One

\* The share of duplicate lines, as far as there are enough of them to matter.
DuplicateLoc(m) ==
    IF m.duplicate_loc = NoValue \/ CodeLoc(m) = NoValue THEN NoValue
    ELSE (Clamp((m.duplicate_loc * One) \div Larger(CodeLoc(m), 1))
            * Saturated(m.duplicate_loc, 0, 30)) \div One

DuplicationScores(m) ==
    [duplicate_loc   |-> DuplicateLoc(m),
     blocks          |-> Saturated(m.blocks, 0, 4),
     semantic_blocks |-> Saturated(m.semantic_blocks, 0, 3),
     group           |-> Saturated(m.group, 1, 4),
     candidates      |-> Saturated(m.candidates, 0, 5),
     similarity      |-> Saturated(m.similarity, 750, 250)]

ArchitectureWeights ==
    [runtime_cycle |-> 18, cycle |-> 5, betweenness |-> 15, dependents |-> 14,
     fan_out |-> 30, fan_in |-> 12, instability |-> 6]

ArchitectureScores(m) ==
    [runtime_cycle |-> Saturated(m.runtime_cycle, 1, 2),
     cycle         |-> Saturated(m.cycle, 1, 2),
     betweenness   |-> Saturated(m.betweenness, 0, 50),
     dependents    |-> Saturated(m.dependents, 0, 30),
     fan_out       |-> Saturated(m.fan_out, 0, 15),
     fan_in        |-> Saturated(m.fan_in, 0, 15),
     instability   |-> Saturated(m.instability, 0, One)]

-----------------------------------------------------------------------------
(* Weighing scores, of metrics or of components.                           *)

Available(scores) == {n \in DOMAIN scores : scores[n] # NoValue}

\* The weight of what is available.
Coverage(scores, weights) == SumFunctionOnSet(weights, Available(scores))

Weighted(scores, weights) ==
    SumFunctionOnSet([n \in Available(scores) |-> scores[n] * weights[n]], Available(scores))

\* Half of the weight must be there.
MinCoverage == 50

ComponentScore(scores, weights) ==
    IF Coverage(scores, weights) < MinCoverage THEN NoValue
    ELSE Weighted(scores, weights) \div Coverage(scores, weights)

\* How much of the weight of each component its metrics make up, also of those that
\* get no score.
Coverages(m) ==
    [complexity   |-> Coverage(ComplexityScores(m), ComplexityWeights),
     history      |-> Coverage(HistoryScores(m), HistoryWeights),
     duplication  |-> Coverage(DuplicationScores(m), DuplicationWeights),
     architecture |-> Coverage(ArchitectureScores(m), ArchitectureWeights)]

ComponentScores(m) ==
    [complexity   |-> ComponentScore(ComplexityScores(m), ComplexityWeights),
     history      |-> ComponentScore(HistoryScores(m), HistoryWeights),
     duplication  |-> ComponentScore(DuplicationScores(m), DuplicationWeights),
     architecture |-> ComponentScore(ArchitectureScores(m), ArchitectureWeights)]

-----------------------------------------------------------------------------
(* The refactor score.                                                     *)

Components       == {"complexity", "history", "duplication", "architecture"}
ComponentWeights == [complexity |-> 30, history |-> 25, duplication |-> 25, architecture |-> 20]
\* Variant: history amplifies as duplication should, and the other way round.
DominanceSwapped == [complexity |-> 100, history |-> 90, duplication |-> 70, architecture |-> 80]
Dominance        == [complexity |-> 100, history |-> 70, duplication |-> 90, architecture |-> 80]
DominantWeight   == 65
\* the order of the dictionaries, which settles ties
Place            == [complexity |-> 1, history |-> 2, duplication |-> 3, architecture |-> 4]

\* Variant: how far each component is from the mean, on either side of it.
ExcessEitherWay(scores) ==
    LET weight == Coverage(scores, ComponentWeights)
        total  == Weighted(scores, ComponentWeights) IN
    [n \in Available(scores) |->
        Dominance[n] * Larger(scores[n] * weight - total, total - scores[n] * weight)]

\* By how much each component exceeds the weighted mean, times the weight that
\* is available: the mean is Weighted / Coverage.
Excess(scores) ==
    LET weight == Coverage(scores, ComponentWeights)
        total  == Weighted(scores, ComponentWeights) IN
    [n \in Available(scores) |-> Dominance[n] * Positive(scores[n] * weight - total)]

Dominant(excess) ==
    CHOOSE n \in DOMAIN excess : \A k \in DOMAIN excess :
        \/ excess[n] > excess[k]
        \/ excess[n] = excess[k] /\ Place[n] <= Place[k]

\* Variant: components that are missing count as zero.
ScaleOfAll(scores) == 1000

\* Everything in a refactor score is divided by this.
Scale(scores) == 10 * Coverage(scores, ComponentWeights)

\* The weighted mean, and most of what the dominant component exceeds it by.
Unclamped(scores) ==
    LET excess == Excess(scores) IN
    (10000 * Weighted(scores, ComponentWeights) + DominantWeight * excess[Dominant(excess)])
        \div Scale(scores)

RefactorScores == {n \in Nat : n <= 1000000}

RefactorScore(scores) ==
    IF Available(scores) = {} THEN NoValue
    ELSE IF Unclamped(scores) > 1000000 THEN 1000000 ELSE Unclamped(scores)

\* Variant: the contributions are not scaled by the weight that is available.
ContributionsUnscaled(scores) ==
    LET excess == Excess(scores) IN
    [n \in Available(scores) |->
        (10000 * ComponentWeights[n] * scores[n]
            + (IF n = Dominant(excess) THEN DominantWeight * excess[n] ELSE 0)) \div 1000]

\* What each component adds to the refactor score.  (The code scales these
\* down when they add up to more than one, which ScoreIsBetween excludes.)
Contributions(scores) ==
    LET excess == Excess(scores) IN
    [n \in Available(scores) |->
        (10000 * ComponentWeights[n] * scores[n]
            + (IF n = Dominant(excess) THEN DominantWeight * excess[n] ELSE 0))
        \div Scale(scores)]

\* In ten-thousandths.
ScoreConfidence(m) == SumFunction([n \in Components |-> ComponentWeights[n] * Coverages(m)[n]])

CriticalThreshold == 700000
HighThreshold     == 550000
MediumThreshold   == 310000

PriorityBand(score) ==
    IF score = NoValue THEN "unknown"
    ELSE IF score >= CriticalThreshold THEN "critical"
    ELSE IF score >= HighThreshold THEN "high"
    ELSE IF score >= MediumThreshold THEN "medium"
    ELSE "low"

-----------------------------------------------------------------------------
(* The summary of a scan, from the refactor scores of its files.           *)

TopCandidates == 10

\* The places of the files that have a score.
Scored(all) == {i \in DOMAIN all : all[i] # NoValue}

\* Variant: a score on a threshold belongs to the band below.
CountAbove(all, from, below) == Cardinality({i \in Scored(all) : from < all[i] /\ all[i] <= below})

CountWithin(all, from, below) == Cardinality({i \in Scored(all) : from <= all[i] /\ all[i] < below})

\* The files sorted before the one at a place, and the place of the one that comes
\* in turn: the highest scores first, and of two equal ones the first (sorting is stable).
MoreUrgent(all, i) == {j \in Scored(all) : all[j] > all[i] \/ (all[j] = all[i] /\ j < i)}
ByScore(all, turn) == CHOOSE i \in Scored(all) : Cardinality(MoreUrgent(all, i)) = turn - 1

Summary(all) ==
    LET scored == Cardinality(Scored(all)) IN
    [evaluated |-> Len(all),
     scored    |-> scored,
     unscored  |-> Len(all) - scored,
     average   |-> IF scored = 0 THEN NoValue ELSE SumFunctionOnSet(all, Scored(all)) \div scored,
     max       |-> IF scored = 0 THEN NoValue
                   ELSE CHOOSE n \in {all[i] : i \in Scored(all)} : \A i \in Scored(all) : all[i] <= n,
     critical  |-> CountWithin(all, CriticalThreshold, 1000001),
     high      |-> CountWithin(all, HighThreshold, CriticalThreshold),
     medium    |-> CountWithin(all, MediumThreshold, HighThreshold),
     low       |-> CountWithin(all, 0, MediumThreshold),
     top       |-> [turn \in 1..(IF scored < TopCandidates THEN scored ELSE TopCandidates) |->
                       all[ByScore(all, turn)]]]
=============================================================================
