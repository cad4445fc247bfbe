-------------------------- MODULE MCDecisionScoring --------------------------
(***************************************************************************)
(* The metrics of one file, as scan after scan the layers report them: a   *)
(* layer reports all of its metrics, in one of a few profiles, or fails;   *)
(* and one metric at a time may come out otherwise, or not at all.         *)
(***************************************************************************)
EXTENDS FileScoring, TLC

CONSTANT MaxChanges     \* bound on the metrics that come out otherwise

VARIABLE changes        \* how many metrics came out otherwise
vars == <<metrics, scores, changes>>

\* The metrics of each layer: in a file nobody needs to touch, in a file with
\* some debt, and in one beyond every saturation.
Profiles == [
    static |-> [
        max_cyclomatic        |-> <<1, 8, 30>>,    max_cognitive        |-> <<0, 12, 50>>,
        average_cyclomatic    |-> <<1, 4, 16>>,    average_cognitive    |-> <<0, 6, 24>>,
        lines_of_code         |-> <<40, 200, 900>>, source_lines_of_code |-> <<30, 150, 700>>,
        logical_lines_of_code |-> <<25, 140, 650>>, long_conditions      |-> <<0, 1, 20>>,
        if_else_chain         |-> <<0, 3, 9>>,     parameters           |-> <<1, 4, 9>>,
        fixme                 |-> <<0, 1, 20>>,    empty_except         |-> <<0, 1, 9>>,
        testing_coverage      |-> <<100, 60, 0>>],
    history |-> [
        churn             |-> <<0, 3, 20>>, update_count      |-> <<1, 7, 40>>,
        recent_update_count |-> <<1, 4, 30>>, bug_fix_ratio   |-> <<0, 300, 900>>,
        complexity_growth |-> <<-2, 2, 9>>, bug_fixes         |-> <<0, 2, 20>>,
        co_changes        |-> <<0, 5, 24>>, contributors      |-> <<1, 3, 9>>],
    duplication |-> [
        duplicate_loc |-> <<0, 20, 200>>, blocks     |-> <<0, 2, 9>>,
        semantic_blocks |-> <<0, 1, 9>>,  group      |-> <<0, 3, 9>>,
        candidates    |-> <<0, 2, 9>>,    similarity |-> <<0, 850, 1000>>],
    architecture |-> [
        runtime_cycle |-> <<0, 0, 5>>, cycle |-> <<0, 2, 5>>, betweenness |-> <<0, 20, 200>>,
        dependents |-> <<0, 10, 60>>, fan_out |-> <<0, 6, 40>>, fan_in |-> <<1, 5, 40>>,
        instability |-> <<0, 545, 900>>]]

Layers     == DOMAIN Profiles
LayerOf(x) == CHOOSE layer \in Layers : x \in MetricsOf[layer]

MCInit == Init /\ changes = 0

Report(layer, profile) ==
    /\ changes = 0
    /\ Scan([x \in Metrics |-> IF x \in MetricsOf[layer] THEN Profiles[layer][x][profile] ELSE metrics[x]])
    /\ UNCHANGED changes

LayerFails(layer) ==
    /\ changes = 0
    /\ Scan([x \in Metrics |-> IF x \in MetricsOf[layer] THEN NoValue ELSE metrics[x]])
    /\ UNCHANGED changes

Change(x, v) ==
    /\ changes < MaxChanges
    /\ metrics[x] \notin {NoValue, v}
    /\ Scan([metrics EXCEPT ![x] = v])
    /\ changes' = changes + 1

MCNext ==
    \/ \E layer \in Layers : LayerFails(layer) \/ \E profile \in 1..3 : Report(layer, profile)
    \/ \E x \in Metrics : \E v \in {NoValue} \cup Range(Profiles[LayerOf(x)][x]) : Change(x, v)

MCSpec == MCInit /\ [][MCNext]_vars

-----------------------------------------------------------------------------
\* Other files of the scan: on every threshold and just below it, and unscored.
OtherScores ==
    <<1000000, NoValue, 309999, 700000, 550000, 310000, 0, 549999, 699999, 550000, NoValue, 310000>>
=============================================================================
