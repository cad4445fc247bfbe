----------------------------- MODULE FileScoring -----------------------------
(***************************************************************************)
(* The scores of one file, scan after scan: whatever metrics the layers of *)
(* a scan report for it, and whichever of them fail.                       *)
(***************************************************************************)
EXTENDS DecisionScoring

CONSTANT Others         \* the refactor scores of the other files of the scan

ASSUME OthersAssumption ==
    /\ Others \in Seq(Range(Others))
    /\ \A i \in DOMAIN Others : Others[i] # NoValue => Others[i] \in RefactorScores

VARIABLES metrics,      \* the metrics of the file
          scores        \* the component scores of the last scan
fileVars == <<metrics, scores>>

\* What each layer reports.
MetricsOf ==
    [static |-> {"max_cyclomatic", "max_cognitive", "average_cyclomatic", "average_cognitive",
                 "lines_of_code", "source_lines_of_code", "logical_lines_of_code", "long_conditions",
                 "if_else_chain", "parameters", "fixme", "empty_except", "testing_coverage"},
     history |-> {"churn", "update_count", "recent_update_count", "bug_fix_ratio",
                  "complexity_growth", "bug_fixes", "co_changes", "contributors"},
     duplication |-> {"duplicate_loc", "blocks", "semantic_blocks", "group", "candidates", "similarity"},
     architecture |-> {"runtime_cycle", "cycle", "betweenness", "dependents", "fan_out", "fan_in",
                       "instability"}]

Metrics == UNION {MetricsOf[layer] : layer \in DOMAIN MetricsOf}

\* Nothing is known of the file before its first scan.
Init ==
    /\ metrics = [x \in Metrics |-> NoValue]
    /\ scores = ComponentScores(metrics)

Scan(reported) == metrics' = reported /\ scores' = ComponentScores(reported)

Next == \E reported \in [Metrics -> Int \cup {NoValue}] : Scan(reported)

Spec == Init /\ [][Next]_fileVars

-----------------------------------------------------------------------------
\* Components that could not be scored do not count as zero, nor as anything
\* else: the refactor score is between the lowest and the highest score there
\* is, and the clamp of _aggregate_component_scores never has to act.  Without a
\* score nobody is confident of it; with one, at least of half of its components.
ScoreIsBetween ==
    IF Available(scores) = {} THEN ScoreConfidence(metrics) < 5000
    ELSE /\ \E n \in Available(scores) : 1000 * scores[n] <= Unclamped(scores)
         /\ \E n \in Available(scores) : Unclamped(scores) <= 1000 * scores[n]
         /\ ScoreConfidence(metrics) \in (MinCoverage * Coverage(scores, ComponentWeights))..10000

\* The contributions shown with a file (_component_contributions) add up to
\* its score (_aggregate_component_scores), but for what each is rounded by.
ContributionsAddUp ==
    Available(scores) # {} =>
        LET sum == SumFunction(Contributions(scores)) IN
        sum \in (RefactorScore(scores) - Cardinality(Available(scores)))..RefactorScore(scores)

\* "amplify urgency without eclipsing severe code-local findings"
\* (decision_analysis_layer.py): where a component of exposure (history or
\* architecture) scores higher than one of the code (complexity or duplication),
\* the file would not be less urgent the other way round; and a file whose
\* complexity or duplication is beyond every threshold is in the upper bands,
\* however good the rest is.
CodeLocalFindingsLead ==
    /\ \A code \in {"complexity", "duplication"} \cap Available(scores),
          exposure \in {"history", "architecture"} \cap Available(scores) :
        scores[exposure] > scores[code] =>
            RefactorScore([scores EXCEPT ![code] = scores[exposure], ![exposure] = scores[code]])
                >= RefactorScore(scores)
    /\ (\E code \in {"complexity", "duplication"} : scores[code] = One) =>
        PriorityBand(RefactorScore(scores)) \in {"high", "critical"}

\* The summary of a scan and the bands of its files are decided by thresholds in
\* two places (_build_summary_vector, _priority_band), and agree: each file is
\* counted in its band, and the counts make up the files there are.  The average
\* is of the files that have a score, the highest score is that of the first
\* candidate, and no file that is left out is more urgent than a candidate.
SummaryAgrees ==
    LET all      == Append(Others, RefactorScore(scores))
        summary  == Summary(all)
        in(band) == Cardinality({i \in DOMAIN all : PriorityBand(all[i]) = band})
        least    == summary.top[Len(summary.top)] IN
    /\ <<summary.critical, summary.high, summary.medium, summary.low, summary.unscored>>
          = <<in("critical"), in("high"), in("medium"), in("low"), in("unknown")>>
    /\ summary.critical + summary.high + summary.medium + summary.low + summary.unscored
          = summary.evaluated
    /\ summary.scored # 0 =>
          /\ summary.max = summary.top[1]
          /\ summary.average <= summary.max /\ \E i \in Scored(all) : all[i] <= summary.average
          /\ Cardinality({i \in Scored(all) : all[i] > least}) < Len(summary.top)

\* The metrics that weigh against a file; fewer tests do, and neither do the
\* counts others are set in relation to.
Against == Metrics \ {"lines_of_code", "source_lines_of_code", "logical_lines_of_code",
                      "update_count", "testing_coverage"}

OneMetricWorse ==
    \E x \in Against :
        /\ metrics[x] # NoValue /\ metrics'[x] # NoValue /\ metrics[x] < metrics'[x]
        /\ \A y \in Metrics \ {x} : metrics'[y] = metrics[y]

NoComponentBetter ==
    /\ Available(scores) = Available(scores')
    /\ \A n \in Available(scores) : scores[n] <= scores'[n]

\* A single metric that got worse never improves the score of a component; and a
\* file that got worse in some components, and better in none, does not get less
\* urgent, although the mean the dominant component is compared with rises.
WorseNeverHelps ==
    [][/\ OneMetricWorse => NoComponentBetter
       /\ NoComponentBetter /\ Available(scores) # {} => RefactorScore(scores) <= RefactorScore(scores')]_fileVars
=============================================================================
