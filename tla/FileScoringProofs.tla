-------------------------- MODULE FileScoringProofs --------------------------
(***************************************************************************)
(* What the refactor score of a file is, whatever its layers report; and   *)
(* what the duplication layer finds in a project, whatever its files are.  *)
(***************************************************************************)
EXTENDS FileScoring, SourceFiles, Counting

Reported == [Metrics -> Int \cup {NoValue}]
Score == (0..One) \cup {NoValue}

\* n scores, weighed by natural numbers.
Weighs(N, s, w) ==
    IsFiniteSet(N) /\ s \in [N -> Int \cup {NoValue}] /\ w \in [N -> Nat]

LEMMA AvailableScores ==
    ASSUME NEW N, NEW s, NEW w, Weighs(N, s, w)
    PROVE  /\ Available(s) \subseteq N /\ IsFiniteSet(Available(s))
           /\ \A n \in Available(s) : s[n] \in Int /\ w[n] \in Nat
           /\ Coverage(s, w) \in Nat /\ Weighted(s, w) \in Int
<1>1. /\ Available(s) \subseteq N /\ IsFiniteSet(Available(s))
      /\ \A n \in Available(s) : s[n] \in Int /\ w[n] \in Nat
  BY FS_Subset DEF Weighs, Available
<1>2. Coverage(s, w) \in Int /\ Weighted(s, w) \in Int
  <2> DEFINE f == [n \in Available(s) |-> s[n] * w[n]]
  <2>1. \A n \in Available(s) : f[n] \in Int
    BY <1>1
  <2>2. QED  BY <1>1, <2>1, SumType DEF Coverage, Weighted
<1>3. 0 \leq Coverage(s, w)
  <2> DEFINE zero == [n \in Available(s) |-> 0]
  <2>1. SumFunctionOnSet(zero, Available(s)) = 0 * SumFunctionOnSet(zero, Available(s))
    BY <1>1, SumTimes
  <2>2. SumFunctionOnSet(zero, Available(s)) \in Int
    BY <1>1, SumType
  <2>3. SumFunctionOnSet(zero, Available(s)) \leq SumFunctionOnSet(w, Available(s))
    BY <1>1, SumAtMost
  <2> HIDE DEF zero
  <2>4. QED  BY <1>2, <2>1, <2>2, <2>3 DEF Coverage
<1>4. QED  BY <1>1, <1>2, <1>3

\* A mean is between the lowest and the highest score.
LEMMA WeightedBetween ==
    ASSUME NEW N, NEW s, NEW w, Weighs(N, s, w), NEW k \in Int
    PROVE  /\ (\A n \in Available(s) : s[n] \leq k) => Weighted(s, w) \leq k * Coverage(s, w)
           /\ (\A n \in Available(s) : k \leq s[n]) => k * Coverage(s, w) \leq Weighted(s, w)
<1> DEFINE f == [n \in Available(s) |-> s[n] * w[n]]
           g == [n \in Available(s) |-> k * w[n]]
<1>1. \A n \in Available(s) : s[n] \in Int /\ w[n] \in Nat /\ f[n] \in Int /\ g[n] \in Int
  BY AvailableScores
<1>2. IsFiniteSet(Available(s))
  BY AvailableScores
<1>3. SumFunctionOnSet(g, Available(s)) = k * Coverage(s, w)
  BY <1>1, <1>2, SumTimes DEF Coverage
<1>4. SumFunctionOnSet(f, Available(s)) = Weighted(s, w)
  BY DEF Weighted
<1>5. ASSUME \A n \in Available(s) : s[n] \leq k PROVE Weighted(s, w) \leq k * Coverage(s, w)
  <2>1. \A n \in Available(s) : f[n] \leq g[n]
    BY <1>1, <1>5
  <2> HIDE DEF f, g
  <2>2. SumFunctionOnSet(f, Available(s)) \leq SumFunctionOnSet(g, Available(s))
    BY <1>1, <1>2, <2>1, SumAtMost
  <2>3. QED  BY <1>3, <1>4, <2>2
<1>6. ASSUME \A n \in Available(s) : k \leq s[n] PROVE k * Coverage(s, w) \leq Weighted(s, w)
  <2>1. \A n \in Available(s) : g[n] \leq f[n]
    BY <1>1, <1>6
  <2> HIDE DEF f, g
  <2>2. SumFunctionOnSet(g, Available(s)) \leq SumFunctionOnSet(f, Available(s))
    BY <1>1, <1>2, <2>1, SumAtMost
  <2>3. QED  BY <1>3, <1>4, <2>2
<1>7. QED  BY <1>5, <1>6

\* It does not fall when no score does.
LEMMA WeightedMonotone ==
    ASSUME NEW N, NEW s, NEW t, NEW w, Weighs(N, s, w), Weighs(N, t, w), Available(s) = Available(t),
           \A n \in Available(s) : s[n] \leq t[n]
    PROVE  Coverage(s, w) = Coverage(t, w) /\ Weighted(s, w) \leq Weighted(t, w)
<1> DEFINE f == [n \in Available(s) |-> s[n] * w[n]]
           g == [n \in Available(s) |-> t[n] * w[n]]
<1>1. \A n \in Available(s) : s[n] \in Int /\ t[n] \in Int /\ w[n] \in Nat
  BY AvailableScores
<1>2. \A n \in Available(s) : f[n] \in Int /\ g[n] \in Int /\ f[n] \leq g[n]
  BY <1>1
<1>3. SumFunctionOnSet(f, Available(s)) \leq SumFunctionOnSet(g, Available(s))
  <2> HIDE DEF f, g
  <2>1. QED  BY <1>2, AvailableScores, SumAtMost
<1>4. QED  BY <1>3 DEF Coverage, Weighted

\* A component score is a score.
LEMMA ComponentScoreType ==
    ASSUME NEW N, NEW s, NEW w, Weighs(N, s, w), s \in [N -> Score]
    PROVE  ComponentScore(s, w) \in Score
<1> DEFINE C == Coverage(s, w)
           W == Weighted(s, w)
<1>1. C \in Nat /\ W \in Int
  BY AvailableScores
<1>2. \A n \in Available(s) : 0 \leq s[n] /\ s[n] \leq 1000
  BY ScoringAssumption DEF Available, Score, One
<1>3. 0 * C \leq W /\ W \leq 1000 * C
  BY <1>2, WeightedBetween
<1> HIDE DEF C, W
<1>4. ASSUME C \geq 50 PROVE W \div C \in 0..1000
  <2>1. 0 \leq W \div C /\ W \div C \leq 1000
    BY <1>1, <1>3, <1>4, QuotientBetween
  <2>2. QED  BY <1>1, <1>4, <2>1, Quotient
<1>5. ComponentScore(s, w) = IF C < 50 THEN NoValue ELSE W \div C
  BY DEF ComponentScore, MinCoverage, C, W
<1>6. CASE C < 50
  BY <1>5, <1>6 DEF Score
<1>7. CASE C \geq 50
  <2>1. ComponentScore(s, w) = W \div C
    BY <1>1, <1>5, <1>7
  <2>2. QED  BY <1>4, <1>7, <2>1 DEF Score, One
<1>8. QED  BY <1>1, <1>6, <1>7

-----------------------------------------------------------------------------
(* Normalised metrics are scores, and follow their metric.                 *)

Metric == Int \cup {NoValue}

LEMMA ClampedScore ==
    /\ \A n \in Int : Clamp(n) \in 0..One /\ Clamp(n) \in Score /\ Clamp(n) # NoValue
    /\ \A n, k \in Int : n \leq k => Clamp(n) \leq Clamp(k)
BY ScoringAssumption DEF Clamp, One, Score

LEMMA SaturatedScore ==
    ASSUME NEW v \in Metric, NEW offset \in Int, NEW saturation \in Int, saturation > 0
    PROVE  /\ Saturated(v, offset, saturation) \in Score
           /\ Saturated(v, offset, saturation) = NoValue <=> v = NoValue
           /\ \A u \in Int : v # NoValue /\ v \leq u =>
                  Saturated(v, offset, saturation) \leq Saturated(u, offset, saturation)
<1> DEFINE Q(n) == ((n - offset) * One) \div saturation
<1>1. ASSUME NEW n \in Int PROVE Q(n) \in Int /\ n # NoValue /\ Saturated(n, offset, saturation) = Clamp(Q(n))
  BY Quotient, ScoringAssumption DEF Saturated, One
<1>2. ASSUME v # NoValue, NEW u \in Int, v \leq u PROVE Q(v) \leq Q(u)
  <2>1. v \in Int /\ (v - offset) * One \leq (u - offset) * One /\ (v - offset) * One \in Int /\ (u - offset) * One \in Int
    BY <1>2 DEF Metric, One
  <2>2. QED  BY <2>1, QuotientMonotone
<1>3. CASE v = NoValue
  BY <1>3 DEF Saturated, Score
<1>4. CASE v # NoValue
  <2>1. v \in Int
    BY <1>4 DEF Metric
  <2> HIDE DEF Q
  <2>2. QED  BY <1>1, <1>2, <1>4, <2>1, ClampedScore
<1>5. QED  BY <1>3, <1>4

LEMMA DenseScore ==
    ASSUME NEW v \in Metric, NEW loc \in Metric, NEW saturation \in Int, saturation > 0
    PROVE  /\ Dense(v, loc, saturation) \in Score
           /\ \A u \in Int : v # NoValue /\ v \leq u =>
                 /\ Dense(v, loc, saturation) = NoValue <=> Dense(u, loc, saturation) = NoValue
                 /\ Dense(v, loc, saturation) # NoValue =>
                        Dense(v, loc, saturation) \leq Dense(u, loc, saturation)
<1> DEFINE d == Larger(loc, 1) * saturation
           Q(n) == (Positive(n) * 500 * One) \div d
<1>1. CASE v = NoValue \/ loc = NoValue
  BY <1>1 DEF Dense, Score
<1>2. CASE v # NoValue /\ loc # NoValue
  <2>1. v \in Int /\ loc \in Int
    BY <1>2 DEF Metric
  <2>2. Larger(loc, 1) \in Int /\ Larger(loc, 1) \geq 1
    BY <2>1 DEF Larger
  <2>3. d \in Int /\ d > 0
    BY <2>2
  <2> HIDE DEF d
  <2>4. \A n \in Int : Positive(n) * 500 * One \in Int
    BY DEF Positive, One
  <2>5. ASSUME NEW n \in Int PROVE Q(n) \in Int /\ n # NoValue /\ Dense(n, loc, saturation) = Clamp(Q(n))
    BY <1>2, <2>3, <2>4, Quotient, ScoringAssumption DEF Dense, d
  <2>6. ASSUME NEW u \in Int, v \leq u PROVE Q(v) \leq Q(u)
    <3>1. Positive(v) * 500 * One \leq Positive(u) * 500 * One
      BY <2>1, <2>6 DEF Positive, One
    <3>2. QED  BY <2>1, <2>3, <2>4, <3>1, QuotientMonotone
  <2> HIDE DEF Q
  <2>7. QED  BY <2>1, <2>5, <2>6, ClampedScore
<1>3. QED  BY <1>1, <1>2

LEMMA CodeLocType ==
    ASSUME NEW m \in Reported
    PROVE  CodeLoc(m) \in Metric /\ PhysicalLoc(m) \in Metric
<1>1. m.lines_of_code \in Metric /\ m.source_lines_of_code \in Metric /\ m.logical_lines_of_code \in Metric
  BY DEF Reported, Metrics, MetricsOf, Metric
<1> DEFINE counts == {m.lines_of_code, m.source_lines_of_code, m.logical_lines_of_code} \ {NoValue}
<1>2. ASSUME counts # {} PROVE \E n \in counts : \A k \in counts : k \leq n
  <2>1. counts \subseteq Int /\ IsFiniteSet(counts)
    <3>1. ASSUME NEW a, NEW b, NEW c PROVE IsFiniteSet({a, b, c})
      <4>1. IsFiniteSet({a} \cup {b}) /\ IsFiniteSet(({a} \cup {b}) \cup {c})
        BY FS_Singleton, FS_AddElement
      <4>2. {a, b, c} = ({a} \cup {b}) \cup {c}
        OBVIOUS
      <4>3. QED  BY <4>1, <4>2
    <3>2. QED  BY <1>1, <3>1, FS_Subset DEF Metric
  <2> DEFINE id == [n \in counts |-> n]
  <2>2. \A n \in counts : id[n] \in Int
    BY <2>1
  <2>3. \E n \in counts : \A k \in counts : id[k] \leq id[n]
    <3> HIDE DEF id, counts
    <3>1. QED  BY <1>2, <2>1, <2>2, LargestValue
  <2>4. QED  BY <2>3
<1>3. CodeLoc(m) \in Metric
  BY <1>1 DEF CodeLoc
<1>4. PhysicalLoc(m) \in Metric
  BY <1>1, <1>2 DEF PhysicalLoc, Metric
<1>5. QED  BY <1>3, <1>4

-----------------------------------------------------------------------------
(* The components.                                                         *)

\* Some of what weighs against a file got worse, nothing else changed.
Worse(m, u) ==
    /\ \A x \in Against : m[x] = u[x] \/ (m[x] \in Int /\ u[x] \in Int /\ m[x] \leq u[x])
    /\ \A x \in Metrics \ Against : m[x] = u[x]

NotBetter(s, t) ==
    /\ DOMAIN s = DOMAIN t
    /\ \A n \in DOMAIN s : /\ s[n] = NoValue <=> t[n] = NoValue
                           /\ s[n] # NoValue => s[n] \leq t[n]

\* The same for one score.
NotLess(a, b) == (a = NoValue <=> b = NoValue) /\ (a # NoValue => a \leq b)

LEMMA SaturatedWorse ==
    ASSUME NEW v \in Metric, NEW u \in Metric, NotLess(v, u),
           NEW offset \in Int, NEW saturation \in Int, saturation > 0
    PROVE  NotLess(Saturated(v, offset, saturation), Saturated(u, offset, saturation))
<1>1. CASE v = NoValue
  BY <1>1, SaturatedScore DEF NotLess
<1>2. CASE v # NoValue
  <2>1. u \in Int /\ v \leq u
    BY <1>2 DEF NotLess, Metric
  <2>2. Saturated(v, offset, saturation) \leq Saturated(u, offset, saturation)
    BY <1>2, <2>1, SaturatedScore
  <2>3. QED  BY <1>2, <2>2, SaturatedScore DEF NotLess
<1>3. QED  BY <1>1, <1>2

LEMMA DenseWorse ==
    ASSUME NEW v \in Metric, NEW u \in Metric, NotLess(v, u), NEW loc \in Metric,
           NEW saturation \in Int, saturation > 0
    PROVE  NotLess(Dense(v, loc, saturation), Dense(u, loc, saturation))
<1>1. CASE v = NoValue
  BY <1>1 DEF NotLess, Dense
<1>2. CASE v # NoValue
  <2>1. u \in Int /\ v \leq u
    BY <1>2 DEF NotLess, Metric
  <2>2. QED  BY <1>2, <2>1, DenseScore DEF NotLess
<1>3. QED  BY <1>1, <1>2

LEMMA WorseMetric ==
    ASSUME NEW m \in Reported, NEW u \in Reported, Worse(m, u)
    PROVE  /\ \A x \in Against : m[x] \in Metric /\ u[x] \in Metric /\ NotLess(m[x], u[x])
           /\ \A x \in Metrics \ Against : m[x] \in Metric /\ u[x] = m[x]
           /\ CodeLoc(m) = CodeLoc(u) /\ PhysicalLoc(m) = PhysicalLoc(u)
<1>1. \A x \in Metrics : m[x] \in Metric /\ u[x] \in Metric
  BY DEF Reported, Metric
<1>2. ASSUME NEW x \in Against PROVE m[x] \in Metric /\ u[x] \in Metric /\ NotLess(m[x], u[x])
  <2>1. m[x] \in Metric /\ u[x] \in Metric /\ (m[x] = u[x] \/ (m[x] \in Int /\ u[x] \in Int /\ m[x] \leq u[x]))
    BY <1>1 DEF Worse, Against
  <2>2. QED  BY <2>1, ScoringAssumption DEF NotLess, Metric
<1>3. \A x \in Metrics \ Against : m[x] \in Metric /\ u[x] = m[x]
  BY <1>1 DEF Worse
<1>4. {"lines_of_code", "source_lines_of_code", "logical_lines_of_code"} \subseteq Metrics \ Against
  BY DEF Against, Metrics, MetricsOf
<1>5. m.lines_of_code = u.lines_of_code /\ m.source_lines_of_code = u.source_lines_of_code
      /\ m.logical_lines_of_code = u.logical_lines_of_code
  BY <1>3, <1>4
<1>6. CodeLoc(m) = CodeLoc(u) /\ PhysicalLoc(m) = PhysicalLoc(u)
  BY <1>5 DEF CodeLoc, PhysicalLoc
<1>7. QED  BY <1>2, <1>3, <1>6

LEMMA ComplexityType ==
    ASSUME NEW m \in Reported
    PROVE  ComplexityScores(m) \in [DOMAIN ComplexityWeights -> Score]
<1>1. \A x \in Metrics : m[x] \in Metric
  BY DEF Reported, Metric
<1>2. MetricsOf.static \subseteq Metrics
  BY DEF Metrics, MetricsOf
<1>3. \A v \in Metric : /\ Saturated(v, 0, 15) \in Score /\ Saturated(v, 0, 25) \in Score
                        /\ Saturated(v, 0, 8) \in Score /\ Saturated(v, 0, 12) \in Score
                        /\ Saturated(v, 0, 300) \in Score /\ Saturated(v, 1, 5) \in Score
                        /\ Saturated(v, 3, 4) \in Score
  BY SaturatedScore
<1>4. \A v \in Metric : Dense(v, CodeLoc(m), 5) \in Score /\ Dense(v, CodeLoc(m), 3) \in Score
  BY CodeLocType, DenseScore
<1>5. \A v \in Metric : CoverageGap(v) \in Score
  <2>1. \A n \in Int : Clamp(n) \in 0..One
    BY ClampedScore
  <2>2. \A v \in Int : v * 10 \in Int /\ v # NoValue
    BY ScoringAssumption
  <2>3. \A k \in 0..One : One - k \in Score
    BY DEF One, Score
  <2>4. \A v \in Int : CoverageGap(v) \in Score
    BY <2>1, <2>2, <2>3 DEF CoverageGap
  <2>5. CoverageGap(NoValue) \in Score
    BY DEF CoverageGap, Score
  <2>6. QED  BY <2>4, <2>5 DEF Metric
<1>6. PhysicalLoc(m) \in Metric
  BY CodeLocType
<1>7. QED
  BY <1>1, <1>2, <1>3, <1>4, <1>5, <1>6 DEF ComplexityScores, ComplexityWeights, MetricsOf

LEMMA ComplexityWorse ==
    ASSUME NEW m \in Reported, NEW u \in Reported, Worse(m, u)
    PROVE  NotBetter(ComplexityScores(m), ComplexityScores(u))
<1> DEFINE s == ComplexityScores(m)
           t == ComplexityScores(u)
<1>1. MetricsOf.static \ {"lines_of_code", "source_lines_of_code", "logical_lines_of_code", "testing_coverage"} \subseteq Against
  BY DEF Against, Metrics, MetricsOf
<1>2. \A x \in Against : m[x] \in Metric /\ u[x] \in Metric /\ NotLess(m[x], u[x])
  BY WorseMetric
<1>3. \A v, w \in Metric : NotLess(v, w) =>
        /\ NotLess(Saturated(v, 0, 15), Saturated(w, 0, 15)) /\ NotLess(Saturated(v, 0, 25), Saturated(w, 0, 25))
        /\ NotLess(Saturated(v, 0, 8), Saturated(w, 0, 8)) /\ NotLess(Saturated(v, 0, 12), Saturated(w, 0, 12))
        /\ NotLess(Saturated(v, 1, 5), Saturated(w, 1, 5)) /\ NotLess(Saturated(v, 3, 4), Saturated(w, 3, 4))
  BY SaturatedWorse
<1>4. \A v, w \in Metric : NotLess(v, w) =>
        /\ NotLess(Dense(v, CodeLoc(m), 5), Dense(w, CodeLoc(u), 5))
        /\ NotLess(Dense(v, CodeLoc(m), 3), Dense(w, CodeLoc(u), 3))
  BY CodeLocType, DenseWorse, WorseMetric
<1>5. /\ NotLess(s.max_cyclomatic, t.max_cyclomatic) /\ NotLess(s.max_cognitive, t.max_cognitive)
      /\ NotLess(s.average_cyclomatic, t.average_cyclomatic) /\ NotLess(s.average_cognitive, t.average_cognitive)
      /\ NotLess(s.if_else_chain, t.if_else_chain) /\ NotLess(s.parameters, t.parameters)
  BY <1>1, <1>2, <1>3 DEF ComplexityScores, MetricsOf
<1>6. /\ NotLess(s.long_conditions, t.long_conditions) /\ NotLess(s.fixme, t.fixme)
      /\ NotLess(s.empty_except, t.empty_except)
  BY <1>1, <1>2, <1>4 DEF ComplexityScores, MetricsOf
<1>7. s.size = t.size /\ s.coverage_gap = t.coverage_gap
  <2>1. "testing_coverage" \in Metrics \ Against
    BY DEF Against, Metrics, MetricsOf
  <2>2. QED  BY <2>1, WorseMetric DEF ComplexityScores
<1>8. s.size \in Score /\ s.coverage_gap \in Score
  BY ComplexityType DEF ComplexityWeights
<1>9. NotLess(s.size, t.size) /\ NotLess(s.coverage_gap, t.coverage_gap)
  <2>1. \A a \in Score : NotLess(a, a)
    BY DEF NotLess, Score, One
  <2> HIDE DEF s, t
  <2>2. QED  BY <1>7, <1>8, <2>1
<1>10. DOMAIN s = DOMAIN ComplexityWeights /\ DOMAIN t = DOMAIN ComplexityWeights
  BY DEF ComplexityScores, ComplexityWeights
<1>11. \A n \in DOMAIN ComplexityWeights : NotLess(s[n], t[n])
  <2> HIDE DEF s, t
  <2>1. QED  BY <1>5, <1>6, <1>9 DEF ComplexityWeights
<1>12. QED  BY <1>10, <1>11 DEF NotBetter, NotLess

LEMMA ArchitectureType ==
    ASSUME NEW m \in Reported
    PROVE  ArchitectureScores(m) \in [DOMAIN ArchitectureWeights -> Score]
<1>1. \A x \in Metrics : m[x] \in Metric
  BY DEF Reported, Metric
<1>2. MetricsOf.architecture \subseteq Metrics
  BY DEF Metrics, MetricsOf
<1>3. \A v \in Metric : /\ Saturated(v, 1, 2) \in Score /\ Saturated(v, 0, 50) \in Score
                        /\ Saturated(v, 0, 30) \in Score /\ Saturated(v, 0, 15) \in Score
                        /\ Saturated(v, 0, One) \in Score
  BY SaturatedScore DEF One
<1>4. QED  BY <1>1, <1>2, <1>3 DEF ArchitectureScores, ArchitectureWeights, MetricsOf

LEMMA ArchitectureWorse ==
    ASSUME NEW m \in Reported, NEW u \in Reported, Worse(m, u)
    PROVE  NotBetter(ArchitectureScores(m), ArchitectureScores(u))
<1> DEFINE s == ArchitectureScores(m)
           t == ArchitectureScores(u)
<1>1. MetricsOf.architecture \subseteq Against
  BY DEF Against, Metrics, MetricsOf
<1>2. \A x \in Against : m[x] \in Metric /\ u[x] \in Metric /\ NotLess(m[x], u[x])
  BY WorseMetric
<1>3. \A v, w \in Metric : NotLess(v, w) =>
        /\ NotLess(Saturated(v, 1, 2), Saturated(w, 1, 2)) /\ NotLess(Saturated(v, 0, 50), Saturated(w, 0, 50))
        /\ NotLess(Saturated(v, 0, 30), Saturated(w, 0, 30)) /\ NotLess(Saturated(v, 0, 15), Saturated(w, 0, 15))
        /\ NotLess(Saturated(v, 0, One), Saturated(w, 0, One))
  BY SaturatedWorse DEF One
<1>4. /\ NotLess(s.runtime_cycle, t.runtime_cycle) /\ NotLess(s.cycle, t.cycle)
      /\ NotLess(s.betweenness, t.betweenness) /\ NotLess(s.dependents, t.dependents)
      /\ NotLess(s.fan_out, t.fan_out) /\ NotLess(s.fan_in, t.fan_in)
      /\ NotLess(s.instability, t.instability)
  BY <1>1, <1>2, <1>3 DEF ArchitectureScores, MetricsOf
<1>5. DOMAIN s = DOMAIN ArchitectureWeights /\ DOMAIN t = DOMAIN ArchitectureWeights
  BY DEF ArchitectureScores, ArchitectureWeights
<1>6. \A n \in DOMAIN ArchitectureWeights : NotLess(s[n], t[n])
  <2> HIDE DEF s, t
  <2>1. QED  BY <1>4 DEF ArchitectureWeights
<1>7. QED  BY <1>5, <1>6 DEF NotBetter, NotLess

LEMMA ProductsOfScores ==
    ASSUME NEW a \in 0..One, NEW b \in 0..One, NEW c \in 0..One, NEW d \in 0..One, a \leq c, b \leq d
    PROVE  a * b \in Nat /\ c * d \in Nat /\ a * b \leq c * d /\ c * d \leq One * One
<1>1. a \in 0..1000 /\ b \in 0..1000 /\ c \in 0..1000 /\ d \in 0..1000
  BY DEF One
<1>2. a * b \leq c * b
  BY <1>1
<1>3. c * b \leq c * d
  BY <1>1
<1>4. c * d \leq 1000 * d /\ 1000 * d \leq 1000 * 1000
  BY <1>1
<1>5. a * b \in Nat /\ c * d \in Nat /\ c * b \in Nat
  BY <1>1
<1>6. a * b \leq c * d
  <2>1. \A p, q, r \in Nat : p \leq q /\ q \leq r => p \leq r
    OBVIOUS
  <2>2. QED  BY <1>2, <1>3, <1>5, <2>1, Zenon
<1>7. QED  BY <1>1, <1>4, <1>5, <1>6 DEF One

\* How much of a file is duplicated: a share, and a share of what matters.
Share(v, loc) == Clamp((v * One) \div Larger(loc, 1))
SharedLoc(v, loc) == (Share(v, loc) * Saturated(v, 0, 30)) \div One

LEMMA ShareScore ==
    ASSUME NEW loc \in Int, NEW v \in Int, NEW w \in Int, v \leq w
    PROVE  Share(v, loc) \in 0..One /\ Share(w, loc) \in 0..One /\ Share(v, loc) \leq Share(w, loc)
<1> DEFINE d == Larger(loc, 1)
<1>1. d \in Int /\ d > 0
  BY DEF Larger
<1> HIDE DEF d
<1>2. v * One \in Int /\ w * One \in Int /\ v * One \leq w * One
  BY DEF One
<1>3. (v * One) \div d \in Int /\ (w * One) \div d \in Int
  BY <1>1, <1>2, Quotient
<1>4. (v * One) \div d \leq (w * One) \div d
  BY <1>1, <1>2, QuotientMonotone
<1>5. QED  BY <1>3, <1>4, ClampedScore DEF Share, d

LEMMA SharedLocScore ==
    ASSUME NEW loc \in Int, NEW v \in Int, NEW w \in Int, v \leq w
    PROVE  /\ SharedLoc(v, loc) \in 0..One /\ SharedLoc(w, loc) \in 0..One
           /\ SharedLoc(v, loc) \leq SharedLoc(w, loc)
<1> DEFINE a == Share(v, loc)
           b == Saturated(v, 0, 30)
           c == Share(w, loc)
           d == Saturated(w, 0, 30)
<1>1. a \in 0..One /\ c \in 0..One /\ a \leq c
  BY ShareScore
<1>2. v \in Metric /\ w \in Metric /\ v # NoValue /\ w # NoValue
  BY ScoringAssumption DEF Metric
<1>3. b \in 0..One /\ d \in 0..One
  BY <1>2, SaturatedScore DEF Score
<1>4. b \leq d
  BY <1>2, SaturatedScore
<1> HIDE DEF a, b, c, d
<1>5. a * b \in Nat /\ c * d \in Nat /\ a * b \leq c * d /\ c * d \leq One * One
  BY <1>1, <1>3, <1>4, ProductsOfScores
<1>6. One \in Int /\ One > 0 /\ 0 * One = 0
  BY DEF One
<1> DEFINE p == a * b
           q == c * d
<1>7. p \in Int /\ q \in Int /\ p \leq q /\ 0 * One \leq p /\ q \leq One * One
  BY <1>5, <1>6
<1> HIDE DEF p, q
<1>8. p \div One \leq q \div One
  BY <1>6, <1>7, QuotientMonotone
<1>9. 0 \leq p \div One /\ q \div One \leq One
  BY <1>6, <1>7, QuotientBetween
<1>10. p \div One \in Int /\ q \div One \in Int
  BY <1>6, <1>7, Quotient
<1>11. p \div One \in 0..One /\ q \div One \in 0..One
  BY <1>6, <1>8, <1>9, <1>10
<1>12. SharedLoc(v, loc) = p \div One /\ SharedLoc(w, loc) = q \div One
  BY DEF SharedLoc, a, b, c, d, p, q
<1>13. QED  BY <1>8, <1>11, <1>12

LEMMA DuplicateLocScore ==
    ASSUME NEW m \in Reported
    PROVE  /\ DuplicateLoc(m) \in Score
           /\ \A u \in Reported : CodeLoc(u) = CodeLoc(m) /\ NotLess(m.duplicate_loc, u.duplicate_loc)
                  => NotLess(DuplicateLoc(m), DuplicateLoc(u))
<1>1. ASSUME NEW u \in Reported PROVE u.duplicate_loc \in Metric
  BY DEF Reported, Metric, Metrics, MetricsOf
<1>2. CASE CodeLoc(m) = NoValue
  BY <1>2 DEF DuplicateLoc, Score, NotLess
<1>3. CASE CodeLoc(m) # NoValue
  <2>1. CodeLoc(m) \in Int
    BY <1>3, CodeLocType DEF Metric
  <2>2. ASSUME NEW u \in Reported, CodeLoc(u) = CodeLoc(m), u.duplicate_loc # NoValue
        PROVE  DuplicateLoc(u) = SharedLoc(u.duplicate_loc, CodeLoc(m)) /\ u.duplicate_loc \in Int
    <3>1. u.duplicate_loc \in Int
      BY <1>1, <2>2 DEF Metric
    <3>2. QED  BY <1>3, <2>2, <3>1 DEF DuplicateLoc, SharedLoc, Share
  <2>3. ASSUME NEW u \in Reported, CodeLoc(u) = CodeLoc(m)
        PROVE  DuplicateLoc(u) \in Score /\ (DuplicateLoc(u) = NoValue <=> u.duplicate_loc = NoValue)
    <3>1. CASE u.duplicate_loc = NoValue
      BY <3>1 DEF DuplicateLoc, Score
    <3>2. CASE u.duplicate_loc # NoValue
      <4>1. u.duplicate_loc \in Int /\ u.duplicate_loc \leq u.duplicate_loc
        BY <2>2, <2>3, <3>2
      <4>2. DuplicateLoc(u) \in 0..One
        BY <2>1, <2>2, <2>3, <3>2, <4>1, SharedLocScore
      <4>3. NoValue \notin 0..One
        BY ScoringAssumption
      <4>4. QED  BY <3>2, <4>2, <4>3 DEF Score
    <3>3. QED  BY <3>1, <3>2
  <2>4. ASSUME NEW u \in Reported, CodeLoc(u) = CodeLoc(m), NotLess(m.duplicate_loc, u.duplicate_loc)
        PROVE  NotLess(DuplicateLoc(m), DuplicateLoc(u))
    <3>1. CASE m.duplicate_loc = NoValue
      BY <2>3, <2>4, <3>1 DEF NotLess
    <3>2. CASE m.duplicate_loc # NoValue
      <4>1. u.duplicate_loc # NoValue /\ m.duplicate_loc \leq u.duplicate_loc
        BY <2>4, <3>2 DEF NotLess
      <4>2. DuplicateLoc(m) \leq DuplicateLoc(u)
        BY <2>1, <2>2, <2>4, <3>2, <4>1, SharedLocScore
      <4>3. QED  BY <2>3, <2>4, <3>2, <4>1, <4>2 DEF NotLess
    <3>3. QED  BY <3>1, <3>2
  <2>5. QED  BY <2>3, <2>4
<1>4. QED  BY <1>2, <1>3

LEMMA DuplicationType ==
    ASSUME NEW m \in Reported
    PROVE  DuplicationScores(m) \in [DOMAIN DuplicationWeights -> Score]
<1>1. \A x \in Metrics : m[x] \in Metric
  BY DEF Reported, Metric
<1>2. MetricsOf.duplication \subseteq Metrics
  BY DEF Metrics, MetricsOf
<1>3. \A v \in Metric : /\ Saturated(v, 0, 4) \in Score /\ Saturated(v, 0, 3) \in Score
                        /\ Saturated(v, 1, 4) \in Score /\ Saturated(v, 0, 5) \in Score
                        /\ Saturated(v, 750, 250) \in Score
  BY SaturatedScore
<1>4. DuplicateLoc(m) \in Score
  BY DuplicateLocScore
<1>5. QED  BY <1>1, <1>2, <1>3, <1>4 DEF DuplicationScores, DuplicationWeights, MetricsOf

LEMMA DuplicationWorse ==
    ASSUME NEW m \in Reported, NEW u \in Reported, Worse(m, u)
    PROVE  NotBetter(DuplicationScores(m), DuplicationScores(u))
<1> DEFINE s == DuplicationScores(m)
           t == DuplicationScores(u)
<1>1. MetricsOf.duplication \subseteq Against
  BY DEF Against, Metrics, MetricsOf
<1>2. /\ \A x \in Against : m[x] \in Metric /\ u[x] \in Metric /\ NotLess(m[x], u[x])
      /\ CodeLoc(m) = CodeLoc(u)
  BY WorseMetric
<1>3. \A v, w \in Metric : NotLess(v, w) =>
        /\ NotLess(Saturated(v, 0, 4), Saturated(w, 0, 4)) /\ NotLess(Saturated(v, 0, 3), Saturated(w, 0, 3))
        /\ NotLess(Saturated(v, 1, 4), Saturated(w, 1, 4)) /\ NotLess(Saturated(v, 0, 5), Saturated(w, 0, 5))
        /\ NotLess(Saturated(v, 750, 250), Saturated(w, 750, 250))
  BY SaturatedWorse
<1>4. /\ NotLess(s.blocks, t.blocks) /\ NotLess(s.semantic_blocks, t.semantic_blocks)
      /\ NotLess(s.group, t.group) /\ NotLess(s.candidates, t.candidates)
      /\ NotLess(s.similarity, t.similarity)
  BY <1>1, <1>2, <1>3 DEF DuplicationScores, MetricsOf
<1>5. NotLess(s.duplicate_loc, t.duplicate_loc)
  <2>1. NotLess(m.duplicate_loc, u.duplicate_loc)
    BY <1>1, <1>2 DEF MetricsOf
  <2>2. NotLess(DuplicateLoc(m), DuplicateLoc(u))
    BY <1>2, <2>1, DuplicateLocScore
  <2>3. QED  BY <2>2 DEF DuplicationScores
<1>6. DOMAIN s = DOMAIN DuplicationWeights /\ DOMAIN t = DOMAIN DuplicationWeights
  BY DEF DuplicationScores, DuplicationWeights
<1>7. \A n \in DOMAIN DuplicationWeights : NotLess(s[n], t[n])
  <2> HIDE DEF s, t
  <2>1. QED  BY <1>4, <1>5 DEF DuplicationWeights
<1>8. QED  BY <1>6, <1>7 DEF NotBetter, NotLess

\* Counts in relation to the number of modifications, which are as many before as after.
LEMMA ModificationsType ==
    ASSUME NEW m \in Reported
    PROVE  /\ m.update_count \in Metric /\ m.recent_update_count \in Metric /\ m.bug_fix_ratio \in Metric
           /\ Modifications(m) \in Nat \cup {NoValue}
<1>1. m.update_count \in Metric /\ m.recent_update_count \in Metric /\ m.bug_fix_ratio \in Metric
  BY DEF Reported, Metric, Metrics, MetricsOf
<1>2. QED  BY <1>1 DEF Modifications, Positive, Metric

LEMMA RecentChangesType ==
    ASSUME NEW m \in Reported
    PROVE  RecentChanges(m) \in Metric
BY ModificationsType DEF RecentChanges, Positive, Metric

LEMMA RecentRatioType ==
    ASSUME NEW m \in Reported
    PROVE  RecentRatio(m) \in Score
<1>1. RecentChanges(m) \in Metric /\ Modifications(m) \in Nat \cup {NoValue}
  BY RecentChangesType, ModificationsType
<1>2. CASE Modifications(m) = 0 \/ RecentChanges(m) = NoValue
  BY <1>2 DEF RecentRatio, Score, One
<1>3. CASE Modifications(m) # 0 /\ RecentChanges(m) # NoValue
  <2>1. Modifications(m) # NoValue
    BY <1>3 DEF RecentChanges
  <2>2. Modifications(m) \in Int /\ Modifications(m) > 0 /\ RecentChanges(m) * One \in Int
    BY <1>1, <1>3, <2>1 DEF Metric, One
  <2>3. (RecentChanges(m) * One) \div Modifications(m) \in Int
    BY <2>2, Quotient
  <2>4. QED  BY <1>3, <2>3, ClampedScore DEF RecentRatio
<1>4. QED  BY <1>2, <1>3

LEMMA SupportedBugFixRatioType ==
    ASSUME NEW m \in Reported
    PROVE  SupportedBugFixRatio(m) \in Metric
<1>1. m.bug_fix_ratio \in Metric /\ Modifications(m) \in Nat \cup {NoValue}
  BY ModificationsType
<1>2. CASE m.bug_fix_ratio = NoValue \/ Modifications(m) = NoValue
  BY <1>2 DEF SupportedBugFixRatio, Metric
<1>3. CASE m.bug_fix_ratio # NoValue /\ Modifications(m) # NoValue
  <2>1. m.bug_fix_ratio * Modifications(m) \in Int /\ Modifications(m) + 2 \in Int /\ Modifications(m) + 2 > 0
    BY <1>1, <1>3 DEF Metric
  <2>2. (m.bug_fix_ratio * Modifications(m)) \div (Modifications(m) + 2) \in Int
    BY <2>1, Quotient
  <2>3. QED  BY <1>3, <2>2 DEF SupportedBugFixRatio, Metric
<1>4. QED  BY <1>2, <1>3

LEMMA HistoryType ==
    ASSUME NEW m \in Reported
    PROVE  HistoryScores(m) \in [DOMAIN HistoryWeights -> Score]
<1>1. \A x \in Metrics : m[x] \in Metric
  BY DEF Reported, Metric
<1>2. MetricsOf.history \subseteq Metrics
  BY DEF Metrics, MetricsOf
<1>3. \A v \in Metric : /\ Saturated(v, 0, 8) \in Score /\ Saturated(v, 0, 12) \in Score
                        /\ Saturated(v, 0, 500) \in Score /\ Saturated(v, 0, 5) \in Score
                        /\ Saturated(v, 0, 6) \in Score /\ Saturated(v, 1, 5) \in Score
  BY SaturatedScore
<1>4. RecentChanges(m) \in Metric /\ SupportedBugFixRatio(m) \in Metric /\ RecentRatio(m) \in Score
  BY RecentChangesType, SupportedBugFixRatioType, RecentRatioType
<1>5. QED  BY <1>1, <1>2, <1>3, <1>4 DEF HistoryScores, HistoryWeights, MetricsOf

LEMMA HistoryRatiosWorse ==
    ASSUME NEW m \in Reported, NEW u \in Reported, Modifications(m) = Modifications(u),
           NotLess(m.recent_update_count, u.recent_update_count), NotLess(m.bug_fix_ratio, u.bug_fix_ratio)
    PROVE  /\ NotLess(RecentChanges(m), RecentChanges(u))
           /\ NotLess(RecentRatio(m), RecentRatio(u))
           /\ NotLess(SupportedBugFixRatio(m), SupportedBugFixRatio(u))
<1>1. /\ m.recent_update_count \in Metric /\ m.bug_fix_ratio \in Metric
      /\ u.recent_update_count \in Metric /\ u.bug_fix_ratio \in Metric
      /\ Modifications(m) \in Nat \cup {NoValue}
      /\ RecentChanges(m) \in Metric /\ RecentChanges(u) \in Metric
      /\ SupportedBugFixRatio(m) \in Metric /\ SupportedBugFixRatio(u) \in Metric
  BY ModificationsType, RecentChangesType, SupportedBugFixRatioType
<1>2. NotLess(RecentChanges(m), RecentChanges(u))
  <2>1. CASE m.recent_update_count = NoValue \/ Modifications(m) = NoValue
    BY <2>1 DEF RecentChanges, NotLess
  <2>2. CASE m.recent_update_count # NoValue /\ Modifications(m) # NoValue
    <3>1. /\ m.recent_update_count \in Int /\ u.recent_update_count \in Int /\ Modifications(m) \in Int
          /\ m.recent_update_count \leq u.recent_update_count /\ u.recent_update_count # NoValue
      BY <1>1, <2>2 DEF NotLess, Metric
    <3>2. QED  BY <2>2, <3>1, ScoringAssumption DEF RecentChanges, NotLess, Positive
  <2>3. QED  BY <2>1, <2>2
<1>3. NotLess(RecentRatio(m), RecentRatio(u))
  <2>1. CASE Modifications(m) = 0
    BY <2>1 DEF RecentRatio, NotLess
  <2>2. CASE Modifications(m) # 0 /\ RecentChanges(m) = NoValue
    BY <1>2, <2>2 DEF RecentRatio, NotLess
  <2>3. CASE Modifications(m) # 0 /\ RecentChanges(m) # NoValue
    <3>1. RecentChanges(u) # NoValue /\ RecentChanges(m) \leq RecentChanges(u) /\ Modifications(m) # NoValue
      BY <1>2, <2>3 DEF NotLess, RecentChanges
    <3>2. /\ Modifications(m) \in Int /\ Modifications(m) > 0
          /\ RecentChanges(m) * One \in Int /\ RecentChanges(u) * One \in Int
          /\ RecentChanges(m) * One \leq RecentChanges(u) * One
      BY <1>1, <2>3, <3>1 DEF Metric, One
    <3> DEFINE q == (RecentChanges(m) * One) \div Modifications(m)
               r == (RecentChanges(u) * One) \div Modifications(m)
    <3>3. q \in Int /\ r \in Int /\ q \leq r
      BY <3>2, Quotient, QuotientMonotone
    <3>4. RecentRatio(m) = Clamp(q) /\ RecentRatio(u) = Clamp(r)
      BY <2>3, <3>1 DEF RecentRatio
    <3> HIDE DEF q, r
    <3>5. QED  BY <3>3, <3>4, ClampedScore DEF NotLess
  <2>4. QED  BY <2>1, <2>2, <2>3
<1>4. NotLess(SupportedBugFixRatio(m), SupportedBugFixRatio(u))
  <2>1. CASE m.bug_fix_ratio = NoValue \/ Modifications(m) = NoValue
    BY <2>1 DEF SupportedBugFixRatio, NotLess
  <2>2. CASE m.bug_fix_ratio # NoValue /\ Modifications(m) # NoValue
    <3> DEFINE a == m.bug_fix_ratio
               b == u.bug_fix_ratio
               k == Modifications(m)
    <3>1. a \in Int /\ b \in Int /\ k \in Nat /\ a \leq b /\ b # NoValue
      BY <1>1, <2>2 DEF NotLess, Metric
    <3>2. SupportedBugFixRatio(m) = (a * k) \div (k + 2) /\ SupportedBugFixRatio(u) = (b * k) \div (k + 2)
      BY <2>2, <3>1 DEF SupportedBugFixRatio
    <3> HIDE DEF a, b, k
    <3>3. a * k \in Int /\ b * k \in Int /\ a * k \leq b * k /\ k + 2 \in Int /\ k + 2 > 0
      BY <3>1
    <3>4. (a * k) \div (k + 2) \in Int /\ (b * k) \div (k + 2) \in Int
          /\ (a * k) \div (k + 2) \leq (b * k) \div (k + 2)
      BY <3>3, Quotient, QuotientMonotone
    <3>5. QED  BY <3>2, <3>4, ScoringAssumption DEF NotLess
  <2>3. QED  BY <2>1, <2>2
<1>5. QED  BY <1>2, <1>3, <1>4

LEMMA HistoryWorse ==
    ASSUME NEW m \in Reported, NEW u \in Reported, Worse(m, u)
    PROVE  NotBetter(HistoryScores(m), HistoryScores(u))
<1> DEFINE s == HistoryScores(m)
           t == HistoryScores(u)
<1>1. MetricsOf.history \ {"update_count"} \subseteq Against /\ "update_count" \in Metrics \ Against
  BY DEF Against, Metrics, MetricsOf
<1>2. /\ \A x \in Against : m[x] \in Metric /\ u[x] \in Metric /\ NotLess(m[x], u[x])
      /\ m.update_count = u.update_count
  BY <1>1, WorseMetric
<1>3. Modifications(m) = Modifications(u)
  BY <1>2 DEF Modifications
<1>4. \A v, w \in Metric : NotLess(v, w) =>
        /\ NotLess(Saturated(v, 0, 8), Saturated(w, 0, 8)) /\ NotLess(Saturated(v, 0, 12), Saturated(w, 0, 12))
        /\ NotLess(Saturated(v, 0, 500), Saturated(w, 0, 500)) /\ NotLess(Saturated(v, 0, 5), Saturated(w, 0, 5))
        /\ NotLess(Saturated(v, 0, 6), Saturated(w, 0, 6)) /\ NotLess(Saturated(v, 1, 5), Saturated(w, 1, 5))
  BY SaturatedWorse
<1>5. /\ NotLess(s.churn, t.churn) /\ NotLess(s.complexity_growth, t.complexity_growth)
      /\ NotLess(s.bug_fixes, t.bug_fixes) /\ NotLess(s.co_changes, t.co_changes)
      /\ NotLess(s.contributors, t.contributors)
  BY <1>1, <1>2, <1>4 DEF HistoryScores, MetricsOf
<1>6. /\ NotLess(RecentChanges(m), RecentChanges(u)) /\ NotLess(RecentRatio(m), RecentRatio(u))
      /\ NotLess(SupportedBugFixRatio(m), SupportedBugFixRatio(u))
  <2>1. NotLess(m.recent_update_count, u.recent_update_count) /\ NotLess(m.bug_fix_ratio, u.bug_fix_ratio)
    BY <1>1, <1>2 DEF MetricsOf
  <2>2. QED  BY <1>3, <2>1, HistoryRatiosWorse
<1>7. /\ NotLess(s.recent_changes, t.recent_changes) /\ NotLess(s.recent_ratio, t.recent_ratio)
      /\ NotLess(s.bug_fix_ratio, t.bug_fix_ratio)
  BY <1>4, <1>6, RecentChangesType, SupportedBugFixRatioType DEF HistoryScores
<1>8. DOMAIN s = DOMAIN HistoryWeights /\ DOMAIN t = DOMAIN HistoryWeights
  BY DEF HistoryScores, HistoryWeights
<1>9. \A n \in DOMAIN HistoryWeights : NotLess(s[n], t[n])
  <2> HIDE DEF s, t
  <2>1. QED  BY <1>5, <1>7 DEF HistoryWeights
<1>10. QED  BY <1>8, <1>9 DEF NotBetter, NotLess

-----------------------------------------------------------------------------
(* The weights of each component add up to 100.                            *)

LEMMA ComplexityTotal ==
    /\ IsFiniteSet(DOMAIN ComplexityWeights) /\ ComplexityWeights \in [DOMAIN ComplexityWeights -> Nat]
    /\ SumFunctionOnSet(ComplexityWeights, DOMAIN ComplexityWeights) = 100
<1> DEFINE w == ComplexityWeights
           S1 == {"max_cyclomatic"}
           S2 == S1 \cup {"max_cognitive"}
           S3 == S2 \cup {"average_cyclomatic"}
           S4 == S3 \cup {"average_cognitive"}
           S5 == S4 \cup {"size"}
           S6 == S5 \cup {"long_conditions"}
           S7 == S6 \cup {"if_else_chain"}
           S8 == S7 \cup {"parameters"}
           S9 == S8 \cup {"fixme"}
           S10 == S9 \cup {"empty_except"}
           S11 == S10 \cup {"coverage_gap"}
<1>1. w \in [DOMAIN ComplexityWeights -> Nat] /\ S11 = DOMAIN ComplexityWeights
  BY DEF ComplexityWeights
<1>2. /\ w["max_cyclomatic"] = 18 /\ w["max_cognitive"] = 18 /\ w["average_cyclomatic"] = 7 /\ w["average_cognitive"] = 7
      /\ w["size"] = 18 /\ w["long_conditions"] = 7 /\ w["if_else_chain"] = 6 /\ w["parameters"] = 7
      /\ w["fixme"] = 6 /\ w["empty_except"] = 4 /\ w["coverage_gap"] = 2
  BY DEF ComplexityWeights
<1>3. /\ "max_cognitive" \notin S1
      /\ "average_cyclomatic" \notin S2 /\ "average_cognitive" \notin S3 /\ "size" \notin S4
      /\ "long_conditions" \notin S5 /\ "if_else_chain" \notin S6 /\ "parameters" \notin S7
      /\ "fixme" \notin S8 /\ "empty_except" \notin S9 /\ "coverage_gap" \notin S10
  OBVIOUS
<1> HIDE DEF w, S1, S2, S3, S4, S5, S6, S7, S8, S9, S10, S11
<1>4. Adds(w, S1, 18)
  BY <1>2, FirstAdds DEF S1
<1>5. Adds(w, S2, 36)
  <2>1. w["max_cognitive"] = 18 /\ "max_cognitive" \notin S1 /\ S2 = S1 \cup {"max_cognitive"} /\ 18 \in Int
    BY <1>2, <1>3 DEF S2
  <2>2. Adds(w, S2, 18 + 18)
    BY <1>4, <2>1, OneMoreAdds, Zenon
  <2>3. QED  BY <2>2
<1>6. Adds(w, S3, 43)
  BY <1>2, <1>3, <1>5, OneMoreAdds DEF S3
<1>7. Adds(w, S4, 50)
  BY <1>2, <1>3, <1>6, OneMoreAdds DEF S4
<1>8. Adds(w, S5, 68)
  BY <1>2, <1>3, <1>7, OneMoreAdds DEF S5
<1>9. Adds(w, S6, 75)
  BY <1>2, <1>3, <1>8, OneMoreAdds DEF S6
<1>10. Adds(w, S7, 81)
  BY <1>2, <1>3, <1>9, OneMoreAdds DEF S7
<1>11. Adds(w, S8, 88)
  BY <1>2, <1>3, <1>10, OneMoreAdds DEF S8
<1>12. Adds(w, S9, 94)
  BY <1>2, <1>3, <1>11, OneMoreAdds DEF S9
<1>13. Adds(w, S10, 98)
  BY <1>2, <1>3, <1>12, OneMoreAdds DEF S10
<1>14. Adds(w, S11, 100)
  BY <1>2, <1>3, <1>13, OneMoreAdds DEF S11
<1>15. QED  BY <1>1, <1>14 DEF Adds, w

LEMMA HistoryTotal ==
    /\ IsFiniteSet(DOMAIN HistoryWeights) /\ HistoryWeights \in [DOMAIN HistoryWeights -> Nat]
    /\ SumFunctionOnSet(HistoryWeights, DOMAIN HistoryWeights) = 100
<1> DEFINE w == HistoryWeights
           S1 == {"churn"}
           S2 == S1 \cup {"recent_changes"}
           S3 == S2 \cup {"bug_fix_ratio"}
           S4 == S3 \cup {"complexity_growth"}
           S5 == S4 \cup {"bug_fixes"}
           S6 == S5 \cup {"co_changes"}
           S7 == S6 \cup {"contributors"}
           S8 == S7 \cup {"recent_ratio"}
<1>1. w \in [DOMAIN HistoryWeights -> Nat] /\ S8 = DOMAIN HistoryWeights
  BY DEF HistoryWeights
<1>2. /\ w["churn"] = 25 /\ w["recent_changes"] = 18 /\ w["bug_fix_ratio"] = 18 /\ w["complexity_growth"] = 12
      /\ w["bug_fixes"] = 10 /\ w["co_changes"] = 10 /\ w["contributors"] = 4 /\ w["recent_ratio"] = 3
  BY DEF HistoryWeights
<1>3. /\ "recent_changes" \notin S1
      /\ "bug_fix_ratio" \notin S2 /\ "complexity_growth" \notin S3 /\ "bug_fixes" \notin S4
      /\ "co_changes" \notin S5 /\ "contributors" \notin S6 /\ "recent_ratio" \notin S7
  OBVIOUS
<1> HIDE DEF w, S1, S2, S3, S4, S5, S6, S7, S8
<1>4. Adds(w, S1, 25)
  BY <1>2, FirstAdds DEF S1
<1>5. Adds(w, S2, 43)
  BY <1>2, <1>3, <1>4, OneMoreAdds DEF S2
<1>6. Adds(w, S3, 61)
  BY <1>2, <1>3, <1>5, OneMoreAdds DEF S3
<1>7. Adds(w, S4, 73)
  BY <1>2, <1>3, <1>6, OneMoreAdds DEF S4
<1>8. Adds(w, S5, 83)
  BY <1>2, <1>3, <1>7, OneMoreAdds DEF S5
<1>9. Adds(w, S6, 93)
  BY <1>2, <1>3, <1>8, OneMoreAdds DEF S6
<1>10. Adds(w, S7, 97)
  BY <1>2, <1>3, <1>9, OneMoreAdds DEF S7
<1>11. Adds(w, S8, 100)
  BY <1>2, <1>3, <1>10, OneMoreAdds DEF S8
<1>12. QED  BY <1>1, <1>11 DEF Adds, w

LEMMA DuplicationTotal ==
    /\ IsFiniteSet(DOMAIN DuplicationWeights) /\ DuplicationWeights \in [DOMAIN DuplicationWeights -> Nat]
    /\ SumFunctionOnSet(DuplicationWeights, DOMAIN DuplicationWeights) = 100
<1> DEFINE w == DuplicationWeights
           S1 == {"duplicate_loc"}
           S2 == S1 \cup {"blocks"}
           S3 == S2 \cup {"semantic_blocks"}
           S4 == S3 \cup {"group"}
           S5 == S4 \cup {"candidates"}
           S6 == S5 \cup {"similarity"}
<1>1. w \in [DOMAIN DuplicationWeights -> Nat] /\ S6 = DOMAIN DuplicationWeights
  BY DEF DuplicationWeights
<1>2. /\ w["duplicate_loc"] = 24 /\ w["blocks"] = 22 /\ w["semantic_blocks"] = 22 /\ w["group"] = 12
      /\ w["candidates"] = 10 /\ w["similarity"] = 10
  BY DEF DuplicationWeights
<1>3. /\ "blocks" \notin S1
      /\ "semantic_blocks" \notin S2 /\ "group" \notin S3 /\ "candidates" \notin S4
      /\ "similarity" \notin S5
  OBVIOUS
<1> HIDE DEF w, S1, S2, S3, S4, S5, S6
<1>4. Adds(w, S1, 24)
  BY <1>2, FirstAdds DEF S1
<1>5. Adds(w, S2, 46)
  BY <1>2, <1>3, <1>4, OneMoreAdds DEF S2
<1>6. Adds(w, S3, 68)
  BY <1>2, <1>3, <1>5, OneMoreAdds DEF S3
<1>7. Adds(w, S4, 80)
  BY <1>2, <1>3, <1>6, OneMoreAdds DEF S4
<1>8. Adds(w, S5, 90)
  BY <1>2, <1>3, <1>7, OneMoreAdds DEF S5
<1>9. Adds(w, S6, 100)
  BY <1>2, <1>3, <1>8, OneMoreAdds DEF S6
<1>10. QED  BY <1>1, <1>9 DEF Adds, w

LEMMA ArchitectureTotal ==
    /\ IsFiniteSet(DOMAIN ArchitectureWeights) /\ ArchitectureWeights \in [DOMAIN ArchitectureWeights -> Nat]
    /\ SumFunctionOnSet(ArchitectureWeights, DOMAIN ArchitectureWeights) = 100
<1> DEFINE w == ArchitectureWeights
           S1 == {"runtime_cycle"}
           S2 == S1 \cup {"cycle"}
           S3 == S2 \cup {"betweenness"}
           S4 == S3 \cup {"dependents"}
           S5 == S4 \cup {"fan_out"}
           S6 == S5 \cup {"fan_in"}
           S7 == S6 \cup {"instability"}
<1>1. w \in [DOMAIN ArchitectureWeights -> Nat] /\ S7 = DOMAIN ArchitectureWeights
  BY DEF ArchitectureWeights
<1>2. /\ w["runtime_cycle"] = 18 /\ w["cycle"] = 5 /\ w["betweenness"] = 15 /\ w["dependents"] = 14
      /\ w["fan_out"] = 30 /\ w["fan_in"] = 12 /\ w["instability"] = 6
  BY DEF ArchitectureWeights
<1>3. /\ "cycle" \notin S1
      /\ "betweenness" \notin S2 /\ "dependents" \notin S3 /\ "fan_out" \notin S4
      /\ "fan_in" \notin S5 /\ "instability" \notin S6
  OBVIOUS
<1> HIDE DEF w, S1, S2, S3, S4, S5, S6, S7
<1>4. Adds(w, S1, 18)
  BY <1>2, FirstAdds DEF S1
<1>5. Adds(w, S2, 23)
  BY <1>2, <1>3, <1>4, OneMoreAdds DEF S2
<1>6. Adds(w, S3, 38)
  BY <1>2, <1>3, <1>5, OneMoreAdds DEF S3
<1>7. Adds(w, S4, 52)
  BY <1>2, <1>3, <1>6, OneMoreAdds DEF S4
<1>8. Adds(w, S5, 82)
  BY <1>2, <1>3, <1>7, OneMoreAdds DEF S5
<1>9. Adds(w, S6, 94)
  BY <1>2, <1>3, <1>8, OneMoreAdds DEF S6
<1>10. Adds(w, S7, 100)
  BY <1>2, <1>3, <1>9, OneMoreAdds DEF S7
<1>11. QED  BY <1>1, <1>10 DEF Adds, w

LEMMA ComponentTotal ==
    /\ IsFiniteSet(Components) /\ ComponentWeights \in [Components -> Nat]
    /\ SumFunctionOnSet(ComponentWeights, Components) = 100
<1> DEFINE w == ComponentWeights
           S1 == {"complexity"}
           S2 == S1 \cup {"history"}
           S3 == S2 \cup {"duplication"}
           S4 == S3 \cup {"architecture"}
<1>1. w \in [Components -> Nat] /\ S4 = Components
  BY DEF ComponentWeights, Components
<1>2. w["complexity"] = 30 /\ w["history"] = 25 /\ w["duplication"] = 25 /\ w["architecture"] = 20
  BY DEF ComponentWeights
<1>3. /\ "history" \notin S1
      /\ "duplication" \notin S2 /\ "architecture" \notin S3
  OBVIOUS
<1> HIDE DEF w, S1, S2, S3, S4
<1>4. Adds(w, S1, 30)
  BY <1>2, FirstAdds DEF S1
<1>5. Adds(w, S2, 55)
  BY <1>2, <1>3, <1>4, OneMoreAdds DEF S2
<1>6. Adds(w, S3, 80)
  BY <1>2, <1>3, <1>5, OneMoreAdds DEF S3
<1>7. Adds(w, S4, 100)
  BY <1>2, <1>3, <1>6, OneMoreAdds DEF S4
<1>8. QED  BY <1>1, <1>7 DEF Adds, w

\* However many of a component's metrics there are, they make up a percentage.
LEMMA CoveragePercent ==
    ASSUME NEW N, NEW s, NEW w, Weighs(N, s, w), SumFunctionOnSet(w, N) = 100
    PROVE  Coverage(s, w) \in 0..100
<1>1. Available(s) \in SUBSET N /\ Coverage(s, w) \in Nat
  BY AvailableScores
<1>2. Coverage(s, w) \leq 100
  BY <1>1, SumOfPart DEF Weighs, Coverage
<1>3. QED  BY <1>1, <1>2

LEMMA ScoresOfComponents ==
    ASSUME NEW m \in Reported
    PROVE  /\ ComponentScores(m) \in [Components -> Score]
           /\ Coverages(m) \in [Components -> 0..100]
           /\ \A n \in Components : ComponentScores(m)[n] = NoValue <=> Coverages(m)[n] < MinCoverage
<1>1. ASSUME NEW N, NEW s \in [N -> Score], NEW w \in [N -> Nat], IsFiniteSet(N), SumFunctionOnSet(w, N) = 100
      PROVE  /\ Weighs(N, s, w) /\ ComponentScore(s, w) \in Score /\ Coverage(s, w) \in 0..100
             /\ ComponentScore(s, w) = NoValue <=> Coverage(s, w) < MinCoverage
  <2>1. Weighs(N, s, w)
    BY <1>1 DEF Weighs, Score, One
  <2>2. ComponentScore(s, w) \in Score /\ Coverage(s, w) \in 0..100
    BY <1>1, <2>1, ComponentScoreType, CoveragePercent
  <2>3. Weighted(s, w) \in Int
    BY <2>1, AvailableScores
  <2>4. ASSUME Coverage(s, w) \geq 50 PROVE Weighted(s, w) \div Coverage(s, w) # NoValue
    BY <2>2, <2>3, <2>4, Quotient, ScoringAssumption
  <2>5. QED  BY <2>1, <2>2, <2>4 DEF ComponentScore, MinCoverage
<1> DEFINE c == ComplexityScores(m)
           h == HistoryScores(m)
           d == DuplicationScores(m)
           a == ArchitectureScores(m)
<1>2. /\ ComponentScore(c, ComplexityWeights) \in Score /\ Coverage(c, ComplexityWeights) \in 0..100
      /\ ComponentScore(c, ComplexityWeights) = NoValue <=> Coverage(c, ComplexityWeights) < MinCoverage
  <2> HIDE DEF c
  <2>1. QED  BY <1>1, ComplexityType, ComplexityTotal DEF c
<1>3. /\ ComponentScore(h, HistoryWeights) \in Score /\ Coverage(h, HistoryWeights) \in 0..100
      /\ ComponentScore(h, HistoryWeights) = NoValue <=> Coverage(h, HistoryWeights) < MinCoverage
  BY <1>1, HistoryType, HistoryTotal
<1>4. /\ ComponentScore(d, DuplicationWeights) \in Score /\ Coverage(d, DuplicationWeights) \in 0..100
      /\ ComponentScore(d, DuplicationWeights) = NoValue <=> Coverage(d, DuplicationWeights) < MinCoverage
  BY <1>1, DuplicationType, DuplicationTotal
<1>5. /\ ComponentScore(a, ArchitectureWeights) \in Score /\ Coverage(a, ArchitectureWeights) \in 0..100
      /\ ComponentScore(a, ArchitectureWeights) = NoValue <=> Coverage(a, ArchitectureWeights) < MinCoverage
  BY <1>1, ArchitectureType, ArchitectureTotal
<1> HIDE DEF c, h, d, a
<1>6. /\ ComponentScores(m) = [complexity |-> ComponentScore(c, ComplexityWeights),
                               history |-> ComponentScore(h, HistoryWeights),
                               duplication |-> ComponentScore(d, DuplicationWeights),
                               architecture |-> ComponentScore(a, ArchitectureWeights)]
      /\ Coverages(m) = [complexity |-> Coverage(c, ComplexityWeights),
                         history |-> Coverage(h, HistoryWeights),
                         duplication |-> Coverage(d, DuplicationWeights),
                         architecture |-> Coverage(a, ArchitectureWeights)]
  BY DEF ComponentScores, Coverages, c, h, d, a
<1>7. QED  BY <1>2, <1>3, <1>4, <1>5, <1>6 DEF Components

\* A component does not score lower when none of its metrics does.
LEMMA ComponentScoreWorse ==
    ASSUME NEW N, NEW s \in [N -> Score], NEW t \in [N -> Score], NEW w \in [N -> Nat], IsFiniteSet(N), NotBetter(s, t)
    PROVE  NotLess(ComponentScore(s, w), ComponentScore(t, w))
<1>1. Weighs(N, s, w) /\ Weighs(N, t, w)
  <2>1. Score \subseteq Int \cup {NoValue}
    BY DEF Score, One
  <2>2. s \in [N -> Int \cup {NoValue}] /\ t \in [N -> Int \cup {NoValue}]
    BY <2>1
  <2>3. QED  BY <2>2 DEF Weighs
<1>2. Available(s) = Available(t) /\ \A n \in Available(s) : s[n] \leq t[n]
  BY DEF NotBetter, Available
<1>3. Coverage(s, w) = Coverage(t, w) /\ Weighted(s, w) \leq Weighted(t, w)
  BY <1>1, <1>2, WeightedMonotone
<1>4. Coverage(s, w) \in Nat /\ Weighted(s, w) \in Int /\ Weighted(t, w) \in Int
  BY <1>1, AvailableScores
<1>5. CASE Coverage(s, w) < 50
  BY <1>3, <1>5 DEF ComponentScore, MinCoverage, NotLess
<1>6. CASE ~ (Coverage(s, w) < 50)
  <2>1. /\ Weighted(s, w) \div Coverage(s, w) \in Int /\ Weighted(t, w) \div Coverage(s, w) \in Int
        /\ Weighted(s, w) \div Coverage(s, w) \leq Weighted(t, w) \div Coverage(s, w)
    BY <1>3, <1>4, <1>6, Quotient, QuotientMonotone
  <2>2. /\ ComponentScore(s, w) = Weighted(s, w) \div Coverage(s, w)
        /\ ComponentScore(t, w) = Weighted(t, w) \div Coverage(s, w)
    BY <1>3, <1>6 DEF ComponentScore, MinCoverage
  <2>3. QED  BY <2>1, <2>2, ScoringAssumption DEF NotLess
<1>7. QED  BY <1>5, <1>6

LEMMA ComponentsWorse ==
    ASSUME NEW m \in Reported, NEW u \in Reported, Worse(m, u)
    PROVE  \A n \in Components : NotLess(ComponentScores(m)[n], ComponentScores(u)[n])
<1>1. NotLess(ComponentScores(m).complexity, ComponentScores(u).complexity)
  <2>1. NotLess(ComponentScore(ComplexityScores(m), ComplexityWeights), ComponentScore(ComplexityScores(u), ComplexityWeights))
    BY ComplexityType, ComplexityTotal, ComplexityWorse, ComponentScoreWorse
  <2>2. QED  BY <2>1 DEF ComponentScores
<1>2. NotLess(ComponentScores(m).history, ComponentScores(u).history)
  <2>1. NotLess(ComponentScore(HistoryScores(m), HistoryWeights), ComponentScore(HistoryScores(u), HistoryWeights))
    BY HistoryType, HistoryTotal, HistoryWorse, ComponentScoreWorse
  <2>2. QED  BY <2>1 DEF ComponentScores
<1>3. NotLess(ComponentScores(m).duplication, ComponentScores(u).duplication)
  <2>1. NotLess(ComponentScore(DuplicationScores(m), DuplicationWeights), ComponentScore(DuplicationScores(u), DuplicationWeights))
    BY DuplicationType, DuplicationTotal, DuplicationWorse, ComponentScoreWorse
  <2>2. QED  BY <2>1 DEF ComponentScores
<1>4. NotLess(ComponentScores(m).architecture, ComponentScores(u).architecture)
  <2>1. NotLess(ComponentScore(ArchitectureScores(m), ArchitectureWeights), ComponentScore(ArchitectureScores(u), ArchitectureWeights))
    BY ArchitectureType, ArchitectureTotal, ArchitectureWorse, ComponentScoreWorse
  <2>2. QED  BY <2>1 DEF ComponentScores
<1>5. QED  BY <1>1, <1>2, <1>3, <1>4 DEF Components

-----------------------------------------------------------------------------
(* The refactor score of any four component scores.                        *)

ScoresOfFile == [Components -> Score]

\* Ten thousand times the mean, times the weight that is available, and 65 times
\* what one component exceeds it by.
Term(s, n) == 10000 * Weighted(s, ComponentWeights) + DominantWeight * Excess(s)[n]

LEMMA Mean ==
    ASSUME NEW s \in ScoresOfFile
    PROVE  /\ Weighs(Components, s, ComponentWeights)
           /\ Available(s) \subseteq Components /\ IsFiniteSet(Available(s))
           /\ \A n \in Available(s) : s[n] \in 0..1000
           /\ Coverage(s, ComponentWeights) \in 0..100
           /\ Weighted(s, ComponentWeights) \in Nat
           /\ Available(s) # {} => Coverage(s, ComponentWeights) > 0
<1> DEFINE C == Coverage(s, ComponentWeights)
           W == Weighted(s, ComponentWeights)
<1>1. Weighs(Components, s, ComponentWeights)
  <2>1. Score \subseteq Int \cup {NoValue}
    BY DEF Score, One
  <2>2. s \in [Components -> Int \cup {NoValue}]
    BY <2>1 DEF ScoresOfFile
  <2>3. QED  BY <2>2, ComponentTotal DEF Weighs
<1>2. Available(s) \subseteq Components /\ IsFiniteSet(Available(s)) /\ C \in 0..100 /\ W \in Int
  BY <1>1, AvailableScores, CoveragePercent, ComponentTotal
<1>3. \A n \in Available(s) : s[n] \in 0..1000
  BY <1>2 DEF Available, ScoresOfFile, Score, One
<1>4. 0 \leq W
  <2>1. 0 \in Int /\ \A n \in Available(s) : 0 \leq s[n]
    BY <1>3
  <2>2. 0 * C \leq W
    BY <1>1, <2>1, WeightedBetween
  <2>3. QED  BY <1>2, <2>2
<1>5. ASSUME Available(s) # {} PROVE C > 0
  <2>1. PICK n \in Available(s) : TRUE
    BY <1>5
  <2>2. ComponentWeights[n] \in Int /\ ComponentWeights[n] > 0
    BY <1>2 DEF ComponentWeights, Components
  <2>3. SumFunctionOnSet(ComponentWeights, {n}) = ComponentWeights[n]
    BY <2>2, SumOfOne
  <2>4. SumFunctionOnSet(ComponentWeights, {n}) \leq C
    BY <1>2, ComponentTotal, SumOfPart DEF Coverage
  <2>5. QED  BY <1>2, <2>2, <2>3, <2>4
<1>6. QED  BY <1>1, <1>2, <1>3, <1>4, <1>5

LEMMA ScoreTypes ==
    ASSUME NEW s \in ScoresOfFile
    PROVE  /\ \A n \in Available(s) : s[n] \in Int /\ n \in Components
           /\ Coverage(s, ComponentWeights) \in Int /\ Weighted(s, ComponentWeights) \in Int
           /\ Available(s) # {} => Coverage(s, ComponentWeights) > 0
<1> DEFINE A == Available(s)
           C == Coverage(s, ComponentWeights)
           W == Weighted(s, ComponentWeights)
<1>1. (\A n \in A : s[n] \in 0..1000) /\ A \subseteq Components
  BY Mean
<1>2. C \in 0..100 /\ W \in Nat /\ (A # {} => C > 0)
  BY Mean
<1> HIDE DEF A, C, W
<1>3. ASSUME NEW n \in A PROVE s[n] \in Int /\ n \in Components
  <2>1. s[n] \in 0..1000 /\ n \in Components
    BY <1>1
  <2>2. QED  BY <2>1
<1>4. C \in Int /\ W \in Int
  BY <1>2
<1>5. QED  BY <1>2, <1>3, <1>4 DEF A, C, W

LEMMA ExcessType ==
    ASSUME NEW s \in ScoresOfFile
    PROVE  /\ DOMAIN Excess(s) = Available(s)
           /\ \A n \in Available(s) :
                 /\ Excess(s)[n] \in Nat
                 /\ Dominance[n] \in {70, 80, 90, 100}
                 /\ Excess(s)[n] = Dominance[n] * Positive(s[n] * Coverage(s, ComponentWeights)
                                                             - Weighted(s, ComponentWeights))
<1> DEFINE C == Coverage(s, ComponentWeights)
           W == Weighted(s, ComponentWeights)
<1>1. C \in Int /\ W \in Int /\ \A n \in Available(s) : s[n] \in Int /\ n \in Components
  BY ScoreTypes
<1>2. /\ DOMAIN Excess(s) = Available(s)
      /\ \A n \in Available(s) : Excess(s)[n] = Dominance[n] * Positive(s[n] * C - W)
  BY DEF Excess
<1>3. \A n \in Components : Dominance[n] \in {70, 80, 90, 100}
  BY DEF Components, Dominance
<1> HIDE DEF C, W
<1>4. ASSUME NEW n \in Available(s) PROVE Positive(s[n] * C - W) \in Nat
  BY <1>1 DEF Positive
<1>5. ASSUME NEW n \in Available(s) PROVE Excess(s)[n] \in Nat
  BY <1>1, <1>2, <1>3, <1>4
<1>6. QED  BY <1>1, <1>2, <1>3, <1>5 DEF C, W

\* Some component is the dominant one, and none exceeds the mean by more.
LEMMA DominantLargest ==
    ASSUME NEW s \in ScoresOfFile, Available(s) # {}
    PROVE  /\ Dominant(Excess(s)) \in Available(s)
           /\ \A n \in Available(s) : Excess(s)[n] \leq Excess(s)[Dominant(Excess(s))]
<1> DEFINE x == Excess(s)
           A == Available(s)
           f == [n \in A |-> 10 * x[n] - Place[n]]
<1>1. DOMAIN x = A /\ IsFiniteSet(A) /\ \A n \in A : x[n] \in Nat /\ Place[n] \in 1..4
  <2>1. \A n \in Components : Place[n] \in 1..4
    BY DEF Place, Components
  <2>2. QED  BY <2>1, ExcessType, Mean
<1>2. \A n \in A : f[n] \in Int
  BY <1>1
<1>3. PICK n \in A : \A k \in A : f[k] \leq f[n]
  <2> HIDE DEF x, A, f
  <2>1. QED  BY <1>1, <1>2, LargestValue DEF A
<1> HIDE DEF x, A
<1>4. ASSUME NEW k \in A PROVE x[n] > x[k] \/ (x[n] = x[k] /\ Place[n] \leq Place[k])
  <2>1. 10 * x[k] - Place[k] \leq 10 * x[n] - Place[n]
    BY <1>3
  <2>2. x[n] \in Nat /\ x[k] \in Nat /\ Place[n] \in 1..4 /\ Place[k] \in 1..4
    BY <1>1
  <2>3. QED  BY <2>1, <2>2
<1>5. Dominant(x) \in A /\ \A k \in A : x[Dominant(x)] > x[k] \/ (x[Dominant(x)] = x[k] /\ Place[Dominant(x)] \leq Place[k])
  BY <1>1, <1>4 DEF Dominant
<1>6. \A k \in A : x[k] \leq x[Dominant(x)]
  BY <1>1, <1>5
<1>7. QED  BY <1>5, <1>6 DEF x, A

LEMMA UnclampedIs ==
    ASSUME NEW s \in ScoresOfFile, Available(s) # {}
    PROVE  LET d == Dominant(Excess(s)) IN
           /\ Unclamped(s) = Term(s, d) \div (10 * Coverage(s, ComponentWeights))
           /\ 10 * Coverage(s, ComponentWeights) \in Int /\ 10 * Coverage(s, ComponentWeights) > 0
           /\ d \in Available(s)
           /\ \A n \in Available(s) : Term(s, n) \in Int /\ Term(s, n) \leq Term(s, d)
<1> DEFINE d == Dominant(Excess(s))
           C == Coverage(s, ComponentWeights)
           W == Weighted(s, ComponentWeights)
           x == Excess(s)
<1>1. C \in Int /\ C > 0 /\ W \in Int
  BY Mean
<1>2. d \in Available(s) /\ \A n \in Available(s) : x[n] \in Int /\ x[n] \leq x[d]
  BY DominantLargest, ExcessType
<1>3. Unclamped(s) = Term(s, d) \div (10 * C)
  BY DEF Unclamped, Term, Scale
<1>4. \A n \in Available(s) : Term(s, n) = 10000 * W + 65 * x[n]
  BY DEF Term, DominantWeight
<1> HIDE DEF d, C, W, x
<1>5. \A n \in Available(s) : Term(s, n) \in Int /\ Term(s, n) \leq Term(s, d)
  BY <1>1, <1>2, <1>4
<1>6. 10 * C \in Int /\ 10 * C > 0
  BY <1>1
<1>7. QED  BY <1>2, <1>3, <1>5, <1>6 DEF d, C

\* The term of a component of dominance D whose score is p, where the mean is W.
Whole(W) == 10000 * W
Amplified(W, D, p) == Whole(W) + 65 * (D * Positive(p - W))

LEMMA TermIs ==
    ASSUME NEW s \in ScoresOfFile, NEW n \in Available(s)
    PROVE  /\ Term(s, n) = Amplified(Weighted(s, ComponentWeights), Dominance[n],
                                     s[n] * Coverage(s, ComponentWeights))
           /\ Dominance[n] \in {70, 80, 90, 100}
           /\ s[n] * Coverage(s, ComponentWeights) \in Int
           /\ Term(s, n) \in Int
<1> DEFINE C == Coverage(s, ComponentWeights)
           W == Weighted(s, ComponentWeights)
           x == Excess(s)[n]
           y == Positive(s[n] * C - W)
<1>1. s[n] \in Int /\ C \in Int /\ W \in Int
  BY ScoreTypes
<1>2. x \in Nat /\ x = Dominance[n] * y /\ Dominance[n] \in {70, 80, 90, 100}
  BY ExcessType
<1>3. Term(s, n) = 10000 * W + 65 * x
  BY DEF Term, DominantWeight
<1>4. Amplified(W, Dominance[n], s[n] * C) = 10000 * W + 65 * (Dominance[n] * y)
  BY DEF Amplified, Whole
<1> HIDE DEF C, W, x, y
<1>5. s[n] * C \in Int
  BY <1>1
<1>6. Term(s, n) \in Int /\ Term(s, n) = 10000 * W + 65 * (Dominance[n] * y)
  BY <1>1, <1>2, <1>3, SMT
<1>7. Term(s, n) = Amplified(W, Dominance[n], s[n] * C)
  BY <1>4, <1>6, SMT
<1>8. QED  BY <1>2, <1>5, <1>6, <1>7 DEF C, W

\* What exceeds the mean counts for less than the mean does.
LEMMA TermBetween ==
    ASSUME NEW W \in Int, NEW p \in Int, NEW D \in {70, 80, 90, 100}, NEW q \in Int, p \leq q, W \leq q
    PROVE  Amplified(W, D, p) \leq Whole(q) /\ Whole(W) \leq Amplified(W, D, p)
BY SMT DEF Positive, Amplified, Whole

\* More of everything, and of a component that dominates more, is not less.
LEMMA TermMonotone ==
    ASSUME NEW V \in Int, NEW W \in Int, V \leq W, NEW p \in Int, NEW q \in Int, p \leq q,
           NEW D \in {70, 80, 90, 100}, NEW E \in {70, 80, 90, 100}, D \leq E
    PROVE  Amplified(V, D, p) \leq Amplified(W, E, q)
<1>1. Amplified(V, D, p) \leq Amplified(W, D, q)
  BY SMT DEF Positive, Amplified, Whole
<1>2. Amplified(W, D, q) \leq Amplified(W, E, q)
  <2>1. D * Positive(q - W) \leq E * Positive(q - W)
    BY SMT DEF Positive
  <2>2. D * Positive(q - W) \in Int /\ E * Positive(q - W) \in Int
    BY SMT DEF Positive
  <2> DEFINE b == D * Positive(q - W)
             c == E * Positive(q - W)
  <2>3. Amplified(W, D, q) = 10000 * W + 65 * b /\ Amplified(W, E, q) = 10000 * W + 65 * c
    BY DEF Amplified, Whole
  <2> HIDE DEF b, c
  <2>4. b \leq c /\ b \in Int /\ c \in Int
    BY <2>1, <2>2 DEF b, c
  <2>5. QED  BY <2>3, <2>4, SMT
<1>3. Amplified(V, D, p) \in Int /\ Amplified(W, D, q) \in Int /\ Amplified(W, E, q) \in Int
  BY SMT DEF Positive, Amplified, Whole
<1>4. QED  BY <1>1, <1>2, <1>3

\* The refactor score is between the lowest and the highest component score.
LEMMA UnclampedBetween ==
    ASSUME NEW s \in ScoresOfFile, Available(s) # {}
    PROVE  /\ \E n \in Available(s) : 1000 * s[n] \leq Unclamped(s)
           /\ \E n \in Available(s) : Unclamped(s) \leq 1000 * s[n]
           /\ Unclamped(s) \in Int
<1> DEFINE d == Dominant(Excess(s))
           C == Coverage(s, ComponentWeights)
           W == Weighted(s, ComponentWeights)
           A == Available(s)
           b == 10 * C
           neg == [n \in A |-> 0 - s[n]]
<1>1. /\ IsFiniteSet(A) /\ A # {} /\ \A n \in A : s[n] \in Int
      /\ C \in Int /\ C > 0 /\ W \in Int /\ Weighs(Components, s, ComponentWeights)
  <2>1. IsFiniteSet(A) /\ Weighs(Components, s, ComponentWeights)
    BY Mean
  <2>2. A # {} /\ (\A n \in A : s[n] \in Int) /\ C \in Int /\ C > 0 /\ W \in Int
    BY ScoreTypes
  <2>3. QED  BY <2>1, <2>2
<1>2. PICK high \in A : \A n \in A : s[n] \leq s[high]
  <2> HIDE DEF A
  <2>1. QED  BY <1>1, LargestValue
<1>3. PICK low \in A : \A n \in A : s[low] \leq s[n]
  <2>1. \A n \in A : neg[n] \in Int /\ neg[n] = 0 - s[n]
    BY <1>1
  <2> HIDE DEF neg, A
  <2>2. PICK n \in A : \A k \in A : neg[k] \leq neg[n]
    BY <1>1, <2>1, LargestValue
  <2>3. \A k \in A : s[n] \leq s[k]
    <3>1. ASSUME NEW k \in A PROVE s[n] \leq s[k]
      <4>1. 0 - s[k] \leq 0 - s[n] /\ s[k] \in Int /\ s[n] \in Int
        BY <1>1, <2>1, <2>2
      <4>2. QED  BY <4>1
    <3>2. QED  BY <3>1
  <2>4. QED  BY <2>3
<1>4. /\ Unclamped(s) = Term(s, d) \div b /\ b \in Int /\ b > 0 /\ d \in A /\ Term(s, d) \in Int
  BY UnclampedIs
<1>5. W \leq s[high] * C
  <2>1. s[high] \in Int /\ \A n \in Available(s) : s[n] \leq s[high]
    BY <1>1, <1>2
  <2>2. QED  BY <1>1, <2>1, WeightedBetween
<1>6. s[low] * C \leq W
  <2>1. s[low] \in Int /\ \A n \in Available(s) : s[low] \leq s[n]
    BY <1>1, <1>3
  <2>2. QED  BY <1>1, <2>1, WeightedBetween
<1>7. Term(s, d) = Amplified(W, Dominance[d], s[d] * C) /\ Dominance[d] \in {70, 80, 90, 100}
  BY <1>4, TermIs
<1> HIDE DEF d, C, W, A
<1>8. s[d] * C \leq s[high] * C /\ s[d] * C \in Int /\ s[high] * C \in Int
  BY <1>1, <1>2, <1>4
<1>9. Term(s, d) \leq 10000 * (s[high] * C) /\ 10000 * W \leq Term(s, d)
  <2> DEFINE p == s[d] * C
             q == s[high] * C
             D == Dominance[d]
             T == Term(s, d)
  <2>1. p \in Int /\ q \in Int /\ p \leq q /\ W \in Int /\ W \leq q /\ D \in {70, 80, 90, 100}
    BY <1>1, <1>5, <1>7, <1>8, SMT
  <2>2. T = Amplified(W, D, p)
    BY <1>7
  <2> HIDE DEF p, q, D, T, b, neg
  <2>3. T \leq Whole(q) /\ Whole(W) \leq T
    BY <2>1, <2>2, TermBetween
  <2>4. QED  BY <2>3, SMT DEF Whole, q, T
<1>10. Term(s, d) \leq (1000 * s[high]) * b
  <2>1. 10000 * (s[high] * C) = (1000 * s[high]) * b
    <3>1. s[high] \in Int
      BY <1>1
    <3>2. QED  BY <1>1, <3>1, SMT
  <2>2. QED  BY <1>9, <2>1
<1>11. (1000 * s[low]) * b \leq Term(s, d)
  <2>1. 10000 * (s[low] * C) = (1000 * s[low]) * b /\ s[low] * C \in Int
    <3>1. s[low] \in Int
      BY <1>1
    <3>2. QED  BY <1>1, <3>1, SMT
  <2>2. 10000 * (s[low] * C) \leq 10000 * W
    BY <1>1, <1>6, <2>1, SMT
  <2>3. 10000 * W \in Int /\ 10000 * (s[low] * C) \in Int
    BY <1>1, <2>1
  <2>4. QED  BY <1>4, <1>9, <2>1, <2>2, <2>3
<1> HIDE DEF b
<1>12. 1000 * s[high] \in Int /\ 1000 * s[low] \in Int
  BY <1>1
<1>13. Term(s, d) \div b \leq 1000 * s[high] /\ 1000 * s[low] \leq Term(s, d) \div b /\ Term(s, d) \div b \in Int
  BY <1>4, <1>10, <1>11, <1>12, Quotient, QuotientBetween
<1>14. QED  BY <1>4, <1>13 DEF A

\* The clamp never acts.
LEMMA NotClamped ==
    ASSUME NEW s \in ScoresOfFile, Available(s) # {}
    PROVE  RefactorScore(s) = Unclamped(s) /\ Unclamped(s) \in Int
<1>1. PICK n \in Available(s) : Unclamped(s) \leq 1000 * s[n]
  BY UnclampedBetween
<1>2. s[n] \in 0..1000 /\ Unclamped(s) \in Int
  BY Mean, UnclampedBetween
<1>3. ~ (Unclamped(s) > 1000000)
  BY <1>1, <1>2, SMT
<1>4. QED  BY <1>2, <1>3, SMT DEF RefactorScore

LEMMA ConfidenceBetween ==
    ASSUME NEW m \in Reported, NEW s, s = ComponentScores(m)
    PROVE  /\ Available(s) = {} => ScoreConfidence(m) < 5000
           /\ ScoreConfidence(m) \in (MinCoverage * Coverage(s, ComponentWeights))..10000
<1> DEFINE w == ComponentWeights
           c == Coverages(m)
           f == [n \in Components |-> w[n] * c[n]]
           A == Available(s)
<1>1. /\ s \in ScoresOfFile /\ c \in [Components -> 0..100]
      /\ \A n \in Components : s[n] = NoValue <=> c[n] < 50
  BY ScoresOfComponents DEF ScoresOfFile, MinCoverage
<1>2. /\ IsFiniteSet(Components) /\ w \in [Components -> Nat] /\ SumFunctionOnSet(w, Components) = 100
      /\ A \in SUBSET Components /\ IsFiniteSet(A)
      /\ \A n \in Components : n \in A <=> s[n] # NoValue
  <2>1. \A n \in Components : n \in A <=> s[n] # NoValue
    BY <1>1 DEF Available, ScoresOfFile
  <2>2. QED  BY <1>1, <2>1, ComponentTotal, Mean
<1>3. ScoreConfidence(m) = SumFunctionOnSet(f, Components)
  BY DEF ScoreConfidence, SumFunction
<1> HIDE DEF w, c, A
<1>4. \A n \in Components : f[n] \in Nat /\ w[n] \in Nat /\ c[n] \in 0..100 /\ f[n] = w[n] * c[n]
  BY <1>1, <1>2
<1>5. SumFunctionOnSet(f, Components) \in Int /\ SumFunctionOnSet(f, Components) \leq 10000
  <2> DEFINE g == [n \in Components |-> 100 * w[n]]
  <2>0. \A n \in Components : w[n] \in Int /\ g[n] = 100 * w[n]
    BY <1>4
  <2>1. SumFunctionOnSet(g, Components) = 100 * SumFunctionOnSet(w, Components)
    <3> HIDE DEF f, g
    <3>1. IsFiniteSet(Components) /\ 100 \in Int
      BY <1>2
    <3>2. QED  BY <2>0, <3>1, SumTimes
  <2>2. \A n \in Components : f[n] \in Int /\ g[n] \in Int /\ f[n] \leq g[n]
    <3>1. \A a \in Nat, e \in 0..100 : a * e \leq 100 * a /\ 100 * a \in Int /\ a * e \in Int
      OBVIOUS
    <3> HIDE DEF f, g
    <3>2. TAKE n \in Components
    <3>3. w[n] \in Nat /\ c[n] \in 0..100 /\ f[n] = w[n] * c[n] /\ g[n] = 100 * w[n]
      BY <1>4, <2>0
    <3>4. w[n] * c[n] \leq 100 * w[n] /\ 100 * w[n] \in Int /\ w[n] * c[n] \in Int
      BY <3>1, <3>3
    <3>5. QED  BY <3>3, <3>4
  <2>3. SumFunctionOnSet(f, Components) \leq SumFunctionOnSet(g, Components)
    <3> HIDE DEF f, g
    <3>1. QED  BY <1>2, <2>2, SumAtMost
  <2>4. SumFunctionOnSet(f, Components) \in Int
    <3> HIDE DEF f
    <3>1. QED  BY <1>2, <2>2, SumType
  <2>5. 100 * 100 = 10000
    BY SMT
  <2> HIDE DEF f, g
  <2>6. SumFunctionOnSet(f, Components) \leq 100 * 100
    BY <1>2, <2>1, <2>3, SMT
  <2>7. QED  BY <2>4, <2>5, <2>6, SMT
<1>6. ASSUME A = {} PROVE SumFunctionOnSet(f, Components) < 5000
  <2> DEFINE g == [n \in Components |-> 49 * w[n]]
  <2>1. SumFunctionOnSet(g, Components) = 49 * SumFunctionOnSet(w, Components)
    BY <1>2, <1>4, SumTimes
  <2>2. \A n \in Components : f[n] \in Int /\ g[n] \in Int /\ f[n] \leq g[n]
    <3>1. ASSUME NEW n \in Components PROVE f[n] \leq g[n]
      <4>1. c[n] \in 0..49 /\ w[n] \in Nat /\ f[n] = w[n] * c[n] /\ g[n] = 49 * w[n]
        BY <1>1, <1>2, <1>4, <1>6
      <4>2. \A a \in Nat, e \in 0..49 : a * e \leq 49 * a
        OBVIOUS
      <4>3. QED  BY <4>1, <4>2
    <3>2. QED  BY <1>4, <3>1
  <2>3. SumFunctionOnSet(f, Components) \leq SumFunctionOnSet(g, Components)
    <3> HIDE DEF f, g
    <3>1. QED  BY <1>2, <2>2, SumAtMost
  <2> HIDE DEF f, g
  <2>4. QED  BY <1>2, <1>5, <2>1, <2>3, SMT
<1>7. 50 * SumFunctionOnSet(w, A) \leq SumFunctionOnSet(f, Components)
  <2> DEFINE g == [n \in A |-> 50 * w[n]]
  <2>1. SumFunctionOnSet(g, A) = 50 * SumFunctionOnSet(w, A)
    BY <1>2, <1>4, SumTimes
  <2>2. \A n \in A : f[n] \in Int /\ g[n] \in Int /\ g[n] \leq f[n]
    <3>1. ASSUME NEW n \in A PROVE g[n] \leq f[n]
      <4>1. c[n] \in 50..100 /\ w[n] \in Nat /\ f[n] = w[n] * c[n] /\ g[n] = 50 * w[n]
        BY <1>1, <1>2, <1>4
      <4>2. \A a \in Nat, e \in 50..100 : 50 * a \leq a * e
        OBVIOUS
      <4>3. QED  BY <4>1, <4>2
    <3>2. QED  BY <1>2, <1>4, <3>1
  <2>3. SumFunctionOnSet(g, A) \leq SumFunctionOnSet(f, A)
    <3> HIDE DEF f, g
    <3>1. QED  BY <1>2, <2>2, SumAtMost
  <2>4. SumFunctionOnSet(f, A) \leq SumFunctionOnSet(f, Components) /\ SumFunctionOnSet(f, A) \in Int
    <3>1. \A n \in Components : f[n] \in Nat
      BY <1>4
    <3> HIDE DEF f
    <3>2. QED  BY <1>2, <2>2, <3>1, SumOfPart, SumType
  <2>5. SumFunctionOnSet(w, A) \in Int
    BY <1>2, <1>4, SumType
  <2> HIDE DEF f, g
  <2>6. QED  BY <1>5, <2>1, <2>3, <2>4, <2>5, SMT
<1> HIDE DEF f
<1>8. SumFunctionOnSet(w, A) \in Int
  BY <1>2, <1>4, SumType
<1>9. Coverage(s, ComponentWeights) = SumFunctionOnSet(w, A)
  BY DEF Coverage, w, A
<1>10. ScoreConfidence(m) \in (50 * SumFunctionOnSet(w, A))..10000
  BY <1>3, <1>5, <1>7, <1>8, SMT
<1>11. ScoreConfidence(m) \in (MinCoverage * Coverage(s, ComponentWeights))..10000
  BY <1>9, <1>10, SMT DEF MinCoverage
<1>12. Available(s) = {} => ScoreConfidence(m) < 5000
  BY <1>3, <1>6 DEF A
<1>13. QED  BY <1>11, <1>12

\* Scores that are not lower, and for which there is a component that dominates at
\* least as much as the dominant one, and scores at least as high, do not make a file
\* less urgent.
LEMMA RefactorScoreMonotone ==
    ASSUME NEW s \in ScoresOfFile, NEW t \in ScoresOfFile, Available(s) # {}, Available(t) = Available(s),
           Weighted(s, ComponentWeights) \leq Weighted(t, ComponentWeights),
           \A n \in Available(s) : \E k \in Available(s) : s[n] \leq t[k] /\ Dominance[n] \leq Dominance[k]
    PROVE  RefactorScore(s) \leq RefactorScore(t)
<1> DEFINE d == Dominant(Excess(s))
           e == Dominant(Excess(t))
           C == Coverage(s, ComponentWeights)
           V == Weighted(s, ComponentWeights)
           W == Weighted(t, ComponentWeights)
<1>1. /\ Unclamped(s) = Term(s, d) \div (10 * C) /\ 10 * C \in Int /\ 10 * C > 0
      /\ d \in Available(s) /\ Term(s, d) \in Int
  BY UnclampedIs
<1>2. Coverage(t, ComponentWeights) = C
  BY DEF Coverage
<1>3. /\ Unclamped(t) = Term(t, e) \div (10 * C) /\ e \in Available(s) /\ Term(t, e) \in Int
      /\ \A n \in Available(s) : Term(t, n) \in Int /\ Term(t, n) \leq Term(t, e)
  BY <1>2, UnclampedIs
<1>4. PICK k \in Available(s) : s[d] \leq t[k] /\ Dominance[d] \leq Dominance[k]
  BY <1>1
<1>5. Term(s, d) \leq Term(t, k)
  <2> DEFINE p == s[d] * C
             q == t[k] * C
             D == Dominance[d]
             E == Dominance[k]
  <2>1. Term(s, d) = Amplified(V, D, p) /\ D \in {70, 80, 90, 100} /\ p \in Int
    BY <1>1, TermIs
  <2>2. Term(t, k) = Amplified(W, E, q) /\ E \in {70, 80, 90, 100} /\ q \in Int
    BY <1>2, <1>4, TermIs
  <2>3. p \leq q
    <3>1. s[d] \in Int /\ t[k] \in Int /\ C \in Int /\ C > 0
      <4>1. \A n \in Available(s) : s[n] \in Int
        BY ScoreTypes
      <4>2. \A n \in Available(s) : t[n] \in Int
        BY ScoreTypes
      <4>3. C \in Int /\ C > 0
        BY ScoreTypes
      <4> HIDE DEF C, d, p, q, D, E, V, W, e
      <4>4. QED  BY <1>1, <1>4, <4>1, <4>2, <4>3
    <3> HIDE DEF C, d
    <3>2. \A x, y, z \in Int : x \leq y /\ z > 0 => x * z \leq y * z
      OBVIOUS
    <3>3. QED  BY <1>4, <3>1, <3>2
  <2>4. V \in Int /\ W \in Int /\ V \leq W
    BY Mean
  <2>5. D \leq E
    BY <1>4
  <2> HIDE DEF p, q, D, E, V, W, C, d
  <2>6. Amplified(V, D, p) \leq Amplified(W, E, q)
    BY <2>1, <2>2, <2>3, <2>4, <2>5, TermMonotone
  <2>7. QED  BY <2>1, <2>2, <2>6
<1> HIDE DEF d, e, C
<1>6. Term(s, d) \leq Term(t, e)
  BY <1>1, <1>3, <1>4, <1>5
<1>7. Unclamped(s) \leq Unclamped(t)
  BY <1>1, <1>3, <1>6, QuotientMonotone
<1>8. QED  BY <1>7, NotClamped

LEMMA ContributionsOf ==
    ASSUME NEW s \in ScoresOfFile, Available(s) # {}
    PROVE  SumFunction(Contributions(s)) \in
               (RefactorScore(s) - Cardinality(Available(s)))..RefactorScore(s)
<1> DEFINE d == Dominant(Excess(s))
           A == Available(s)
           w == ComponentWeights
           C == Coverage(s, w)
           b == 10 * C
           amp == [n \in A |-> IF n = d THEN DominantWeight * Excess(s)[n] ELSE 0]
           prod == [n \in A |-> s[n] * w[n]]
           whole == [n \in A |-> 10000 * prod[n]]
           term == [n \in A |-> whole[n] + amp[n]]
           con == Contributions(s)
<1>1. /\ IsFiniteSet(A) /\ \A n \in A : s[n] \in Int /\ w[n] \in Int
      /\ d \in A /\ b \in Int /\ b > 0 /\ Term(s, d) \in Int
      /\ Unclamped(s) = Term(s, d) \div b
      /\ \A n \in A : Excess(s)[n] \in Int
  BY Mean, UnclampedIs, ExcessType, AvailableScores
<1>2. \A n \in A : prod[n] \in Int /\ whole[n] \in Int /\ whole[n] = 10000 * prod[n]
  BY <1>1
<1>3. \A n \in A : amp[n] \in Int /\ term[n] = whole[n] + amp[n] /\ term[n] \in Int
  <2>1. \A n \in A : amp[n] \in Int
    BY <1>1 DEF DominantWeight
  <2> HIDE DEF whole, amp
  <2>2. QED  BY <1>2, <2>1
<1>4. DOMAIN con = A /\ \A n \in A : con[n] = term[n] \div b
  <2>1. DOMAIN con = A /\ \A n \in A : con[n] = (10000 * w[n] * s[n]
            + (IF n = d THEN DominantWeight * Excess(s)[n] ELSE 0)) \div b
    BY DEF Contributions, Scale
  <2>2. \A n \in A : 10000 * w[n] * s[n] = whole[n]
    <3>1. \A x, y \in Int : 10000 * x * y = 10000 * (y * x)
      BY SMT
    <3>2. \A n \in A : whole[n] = 10000 * (s[n] * w[n])
      OBVIOUS
    <3> HIDE DEF whole, A, w
    <3>3. QED  BY <1>1, <3>1, <3>2, SMT
  <2>3. \A n \in A : term[n] = whole[n] + (IF n = d THEN DominantWeight * Excess(s)[n] ELSE 0)
    OBVIOUS
  <2> HIDE DEF con, whole, term, A, b, d
  <2>4. QED  BY <2>1, <2>2, <2>3, SMT
<1>5. SumFunctionOnSet(whole, A) = 10000 * Weighted(s, w)
  <2>1. Weighted(s, w) = SumFunctionOnSet(prod, A)
    BY DEF Weighted
  <2> HIDE DEF whole, prod, A
  <2>2. 10000 \in Int
    OBVIOUS
  <2>3. SumFunctionOnSet(whole, A) = 10000 * SumFunctionOnSet(prod, A)
    BY <1>1, <1>2, <2>2, SumTimes
  <2>4. QED  BY <2>1, <2>3
<1>6. SumFunctionOnSet(amp, A) = DominantWeight * Excess(s)[d]
  <2>1. amp[d] = DominantWeight * Excess(s)[d] /\ \A n \in A \ {d} : amp[n] = 0
    BY <1>1
  <2> HIDE DEF amp, A, d
  <2>2. SumFunctionOnSet(amp, A) = amp[d]
    BY <1>1, <1>3, <2>1, SumOnly
  <2>3. QED  BY <2>1, <2>2
<1>7. SumFunctionOnSet(term, A) = Term(s, d)
  <2> HIDE DEF term, whole, amp, A
  <2>1. SumFunctionOnSet(term, A) = SumFunctionOnSet(whole, A) + SumFunctionOnSet(amp, A)
    BY <1>1, <1>2, <1>3, SumPlus
  <2>2. QED  BY <1>5, <1>6, <2>1 DEF Term
<1> HIDE DEF d, A, b, con, term
<1>8. /\ SumFunctionOnSet(con, A) \leq Unclamped(s)
      /\ Unclamped(s) - Cardinality(A) \leq SumFunctionOnSet(con, A)
  <2>1. IsFiniteSet(A) /\ b \in Int /\ b > 0 /\ \A n \in A : term[n] \in Int /\ con[n] = term[n] \div b
    BY <1>1, <1>3, <1>4
  <2> HIDE DEF w, C, amp, prod, whole
  <2>2. /\ SumFunctionOnSet(con, A) \leq SumFunctionOnSet(term, A) \div b
        /\ (SumFunctionOnSet(term, A) \div b) - Cardinality(A) \leq SumFunctionOnSet(con, A)
    BY <2>1, SumRounded
  <2>3. QED  BY <1>1, <1>7, <2>2
<1>9. SumFunction(con) = SumFunctionOnSet(con, A) /\ SumFunctionOnSet(con, A) \in Int
  <2>1. \A n \in A : con[n] \in Int
    BY <1>1, <1>3, <1>4, Quotient
  <2>2. QED  BY <1>1, <1>4, <2>1, SumType DEF SumFunction
<1>10. RefactorScore(s) = Unclamped(s) /\ Unclamped(s) \in Int /\ Cardinality(A) \in Nat
  BY <1>1, NotClamped, FS_CardinalityType DEF A
<1>11. QED  BY <1>8, <1>9, <1>10 DEF con, A

\* Two scores swapped, the higher one going to the component that weighs more.
Swapped(s, a, b) == [s EXCEPT ![a] = s[b], ![b] = s[a]]

LEMMA SwappedMean ==
    ASSUME NEW s \in ScoresOfFile, NEW a \in Available(s), NEW b \in Available(s), a # b,
           s[a] < s[b], ComponentWeights[b] \leq ComponentWeights[a],
           NEW t, t = Swapped(s, a, b)
    PROVE  /\ t \in ScoresOfFile /\ Available(t) = Available(s)
           /\ t[a] = s[b] /\ t[b] = s[a] /\ \A n \in Available(s) \ {a, b} : t[n] = s[n]
           /\ Weighted(s, ComponentWeights) \leq Weighted(t, ComponentWeights)
<1> DEFINE A == Available(s)
           w == ComponentWeights
           R == A \ {a, b}
           f == [n \in A |-> s[n] * w[n]]
           g == [n \in A |-> t[n] * w[n]]
<1>1. A \subseteq Components /\ IsFiniteSet(A) /\ \A n \in A : s[n] \in Int /\ w[n] \in Nat
  BY Mean, AvailableScores
<1>2. /\ DOMAIN s = Components /\ s \in [Components -> Score] /\ a \in Components /\ b \in Components
  BY <1>1 DEF ScoresOfFile
<1>3. /\ DOMAIN t = Components /\ t \in [Components -> Score]
      /\ t[a] = s[b] /\ t[b] = s[a] /\ \A n \in Components \ {a, b} : t[n] = s[n]
  BY <1>2 DEF Swapped
<1>4. Available(t) = A
  BY <1>2, <1>3 DEF Available
<1>5. \A n \in A : f[n] \in Int /\ g[n] \in Int
  <2>1. \A n \in A : t[n] \in Int
    BY <1>1, <1>2, <1>3
  <2>2. \A x, y \in Int : x * y \in Int
    OBVIOUS
  <2>3. \A n \in A : s[n] \in Int /\ t[n] \in Int /\ w[n] \in Int
    <3> HIDE DEF A, w, f, g
    <3>1. \A k \in Nat : k \in Int
      OBVIOUS
    <3>2. QED  BY <1>1, <2>1, <3>1, Zenon
  <2>4. \A n \in A : f[n] = s[n] * w[n] /\ g[n] = t[n] * w[n]
    OBVIOUS
  <2> HIDE DEF f, g, A, w
  <2>5. QED  BY <2>2, <2>3, <2>4
<1>6. IsFiniteSet(R) /\ a \notin R /\ b \notin R \cup {a} /\ A = (R \cup {a}) \cup {b}
      /\ R \cup {a} \in SUBSET A /\ R \in SUBSET A
  BY <1>1, FS_Subset
<1>7. SumFunctionOnSet(g, R) = SumFunctionOnSet(f, R) /\ SumFunctionOnSet(f, R) \in Int
  <2>1. \A n \in R : f[n] \in Int /\ g[n] = f[n]
    BY <1>1, <1>3, <1>5
  <2> HIDE DEF f, g, R
  <2>2. QED  BY <1>6, <2>1, SumSame, SumType
<1>8. SumFunctionOnSet(f, A) = f[b] + (f[a] + SumFunctionOnSet(f, R))
  <2> HIDE DEF f, g, R, A
  <2> DEFINE S == R \cup {a}
  <2>1. SumFunctionOnSet(f, R \cup {a}) = f[a] + SumFunctionOnSet(f, R)
    BY <1>1, <1>5, <1>6, SumStep DEF A
  <2>2. b \notin S /\ S \in SUBSET A /\ A = S \cup {b} /\ b \in A
    BY <1>6
  <2> HIDE DEF S
  <2>3. SumFunctionOnSet(f, S \cup {b}) = f[b] + SumFunctionOnSet(f, S)
    BY <1>1, <1>5, <2>2, SumStep
  <2>4. QED  BY <2>1, <2>2, <2>3, Zenon DEF S
<1>9. SumFunctionOnSet(g, A) = g[b] + (g[a] + SumFunctionOnSet(g, R))
  <2> HIDE DEF f, g, R, A
  <2> DEFINE S == R \cup {a}
  <2>1. SumFunctionOnSet(g, R \cup {a}) = g[a] + SumFunctionOnSet(g, R)
    BY <1>1, <1>5, <1>6, SumStep DEF A
  <2>2. b \notin S /\ S \in SUBSET A /\ A = S \cup {b} /\ b \in A
    BY <1>6
  <2> HIDE DEF S
  <2>3. SumFunctionOnSet(g, S \cup {b}) = g[b] + SumFunctionOnSet(g, S)
    BY <1>1, <1>5, <2>2, SumStep
  <2>4. QED  BY <2>1, <2>2, <2>3, Zenon DEF S
<1>10. f[a] + f[b] \leq g[a] + g[b]
  <2>1. f[a] = s[a] * w[a] /\ f[b] = s[b] * w[b] /\ g[a] = s[b] * w[a] /\ g[b] = s[a] * w[b]
    BY <1>3
  <2>2. s[a] \in Int /\ s[b] \in Int /\ w[a] \in Int /\ w[b] \in Int /\ s[a] < s[b] /\ w[b] \leq w[a]
    BY <1>1
  <2>3. \A x, y, p, q \in Int : x < y /\ q \leq p => x * p + y * q \leq y * p + x * q
    <3>1. ASSUME NEW x \in Int, NEW y \in Int, NEW p \in Int, NEW q \in Int, x < y, q \leq p
          PROVE  x * p + y * q \leq y * p + x * q
      <4>1. 0 \leq (y - x) * (p - q)
        <5>1. \A i, j \in Int : 0 \leq i /\ 0 \leq j => 0 \leq i * j
          OBVIOUS
        <5>2. y - x \in Int /\ p - q \in Int /\ 0 \leq y - x /\ 0 \leq p - q
          BY <3>1
        <5>3. QED  BY <5>1, <5>2
      <4>2. (y - x) * (p - q) = (y * p + x * q) - (x * p + y * q)
        BY SMT
      <4>3. y * p \in Int /\ x * q \in Int /\ x * p \in Int /\ y * q \in Int
        OBVIOUS
      <4>4. \A i, j \in Int : 0 \leq i - j => j \leq i
        OBVIOUS
      <4>5. y * p + x * q \in Int /\ x * p + y * q \in Int
        BY <4>3
      <4>6. QED  BY <4>1, <4>2, <4>4, <4>5, Zenon
    <3>2. QED  BY <3>1
  <2>4. s[a] * w[a] + s[b] * w[b] \leq s[b] * w[a] + s[a] * w[b]
    BY <2>2, <2>3
  <2> HIDE DEF f, g
  <2>5. QED  BY <2>1, <2>4
<1>11. SumFunctionOnSet(f, A) \leq SumFunctionOnSet(g, A)
  <2> HIDE DEF f, g, R, A
  <2>1. f[a] \in Int /\ f[b] \in Int /\ g[a] \in Int /\ g[b] \in Int
    BY <1>5 DEF A
  <2>2. QED  BY <1>7, <1>8, <1>9, <1>10, <2>1
<1>12. Weighted(s, w) = SumFunctionOnSet(f, A) /\ Weighted(t, w) = SumFunctionOnSet(g, A)
  BY <1>4 DEF Weighted
<1>13. QED  BY <1>1, <1>3, <1>4, <1>11, <1>12 DEF ScoresOfFile

LEMMA CodeLeads ==
    ASSUME NEW s \in ScoresOfFile,
           NEW code \in {"complexity", "duplication"} \cap Available(s),
           NEW exposure \in {"history", "architecture"} \cap Available(s), s[exposure] > s[code]
    PROVE  RefactorScore([s EXCEPT ![code] = s[exposure], ![exposure] = s[code]]) \geq RefactorScore(s)
<1> DEFINE t == [s EXCEPT ![code] = s[exposure], ![exposure] = s[code]]
<1>1. /\ code # exposure /\ code \in Components /\ exposure \in Components
      /\ ComponentWeights[exposure] \leq ComponentWeights[code]
      /\ Dominance[exposure] \leq Dominance[code]
      /\ \A n \in Components : Dominance[n] \leq Dominance[n]
  BY DEF Components, ComponentWeights, Dominance
<1>2. s[code] \in Int /\ s[exposure] \in Int /\ s[code] < s[exposure]
      /\ \A n \in Available(s) : s[n] \in Int /\ n \in Components
  <2>1. \A n \in Available(s) : s[n] \in Int /\ n \in Components
    BY ScoreTypes
  <2>2. QED  BY <2>1
<1>3. /\ t \in ScoresOfFile /\ Available(t) = Available(s)
      /\ t[code] = s[exposure] /\ t[exposure] = s[code]
      /\ \A n \in Available(s) \ {code, exposure} : t[n] = s[n]
      /\ Weighted(s, ComponentWeights) \leq Weighted(t, ComponentWeights)
  <2>1. /\ code \in Available(s) /\ exposure \in Available(s) /\ code # exposure /\ s[code] < s[exposure]
        /\ ComponentWeights[exposure] \leq ComponentWeights[code]
    BY <1>1, <1>2
  <2>2. t = Swapped(s, code, exposure)
    BY DEF Swapped
  <2> HIDE DEF t
  <2>3. QED  BY <2>1, <2>2, SwappedMean
<1> HIDE DEF t
<1>4. ASSUME NEW n \in Available(s)
      PROVE  \E k \in Available(s) : s[n] \leq t[k] /\ Dominance[n] \leq Dominance[k]
  <2>1. CASE n = code \/ n = exposure
    BY <1>1, <1>2, <1>3, <2>1
  <2>2. CASE n \notin {code, exposure}
    <3>1. t[n] = s[n]
      BY <1>3, <2>2
    <3>2. s[n] \in Int /\ n \in Components
      BY <1>2
    <3>3. Dominance[n] \leq Dominance[n]
      BY <1>1, <3>2, Zenon
    <3>4. s[n] \leq t[n]
      BY <3>1, <3>2
    <3>5. QED  BY <3>3, <3>4, Zenon
  <2>3. QED  BY <2>1, <2>2
<1>5. RefactorScore(s) \leq RefactorScore(t)
  BY <1>3, <1>4, RefactorScoreMonotone
<1>6. RefactorScore(s) \in Int /\ RefactorScore(t) \in Int
  BY <1>3, NotClamped
<1>7. QED  BY <1>5, <1>6 DEF t

LEMMA BeyondEveryThreshold ==
    ASSUME NEW s \in ScoresOfFile, NEW code \in {"complexity", "duplication"}, s[code] = One
    PROVE  PriorityBand(RefactorScore(s)) \in {"high", "critical"}
<1> DEFINE d == Dominant(Excess(s))
           C == Coverage(s, ComponentWeights)
           W == Weighted(s, ComponentWeights)
           b == 10 * C
<1>1. code \in Available(s) /\ s[code] = 1000 /\ Dominance[code] \in {90, 100}
  BY ScoringAssumption DEF ScoresOfFile, Components, Available, One, Dominance
<1>2. C \in Int /\ C > 0 /\ W \in Nat
  BY <1>1, Mean
<1>3. /\ Unclamped(s) = Term(s, d) \div b /\ b \in Int /\ b > 0
      /\ Term(s, code) \in Int /\ Term(s, code) \leq Term(s, d) /\ Term(s, d) \in Int
  BY <1>1, UnclampedIs
<1>4. Term(s, code) = Amplified(W, Dominance[code], s[code] * C)
  BY <1>1, TermIs
<1>5. 5850000 * C \leq Term(s, code)
  <2>1. ASSUME NEW D \in {90, 100} PROVE 5850000 * C \leq Amplified(W, D, 1000 * C)
    <3> HIDE DEF C, W
    <3>1. QED  BY <1>2, SMT DEF Amplified, Whole, Positive
  <2> HIDE DEF C, W
  <2>2. QED  BY <1>1, <1>4, <2>1, SMT
<1>6. 585000 * b \leq Term(s, d)
  <2> HIDE DEF C, W, d
  <2>1. 585000 * b = 5850000 * C
    BY <1>2, SMT
  <2>2. 5850000 * C \in Int
    BY <1>2, SMT
  <2> HIDE DEF b
  <2>3. QED  BY <1>3, <1>5, <2>1, <2>2, SMT
<1>7. 585000 \leq Unclamped(s)
  <2> HIDE DEF C, W, d, b
  <2>1. 585000 \in Int
    BY SMT
  <2>2. 585000 \leq Term(s, d) \div b
    BY <1>3, <1>6, <2>1, QuotientBetween, SMT
  <2>3. QED  BY <1>3, <2>2, SMT
<1>8. RefactorScore(s) = Unclamped(s) /\ Unclamped(s) \in Int
  BY <1>1, NotClamped
<1>9. QED  BY <1>7, <1>8, ScoringAssumption, SMT DEF PriorityBand, CriticalThreshold, HighThreshold, MediumThreshold

-----------------------------------------------------------------------------
(* The summary of the scores of a scan.                                    *)

\* The scores of the files of a scan, in some order.
ScoresOfScan(all) ==
    /\ DOMAIN all = 1..Len(all) /\ Len(all) \in Nat
    /\ \A i \in DOMAIN all : all[i] # NoValue => all[i] \in RefactorScores

LEMMA FileWithOthers ==
    ASSUME NEW s \in ScoresOfFile
    PROVE  ScoresOfScan(Append(Others, RefactorScore(s)))
<1> DEFINE score == RefactorScore(s)
           all   == Append(Others, score)
<1>1. score # NoValue => score \in RefactorScores
  <2>1. CASE Available(s) = {}
    BY <2>1 DEF RefactorScore
  <2>2. CASE Available(s) # {}
    <3>1. PICK n \in Available(s) : 1000 * s[n] \leq Unclamped(s)
      BY <2>2, UnclampedBetween
    <3>2. PICK k \in Available(s) : Unclamped(s) \leq 1000 * s[k]
      BY <2>2, UnclampedBetween
    <3>3. s[n] \in Int /\ 0 <= s[n] /\ s[k] \in Int /\ s[k] <= 1000 /\ Unclamped(s) \in Int
      <4>1. \A m \in Available(s) : s[m] \in 0..1000
        BY Mean
      <4>2. \A m \in 0..1000 : m \in Int /\ 0 <= m /\ m <= 1000
        OBVIOUS
      <4>3. \A m \in Available(s) : s[m] \in Int /\ 0 <= s[m] /\ s[m] <= 1000
        <5> SUFFICES ASSUME NEW m \in Available(s)
                     PROVE  s[m] \in Int /\ 0 <= s[m] /\ s[m] <= 1000
          OBVIOUS
        <5> DEFINE v == s[m]
        <5>1. v \in 0..1000
          BY <4>1
        <5> HIDE DEF v
        <5>2. v \in Int /\ 0 <= v /\ v <= 1000
          BY <5>1, <4>2
        <5>3. QED  BY <5>2 DEF v
      <4>4. QED  BY <2>2, <4>3, UnclampedBetween
    <3>4. Unclamped(s) \in RefactorScores
      <4> DEFINE u == Unclamped(s)
                 low == s[n]
                 high == s[k]
      <4>1. low \in Int /\ 0 <= low /\ high \in Int /\ high <= 1000
        BY <3>3
      <4>2. u \in Int /\ 1000 * low <= u /\ u <= 1000 * high
        BY <3>1, <3>2, <3>3
      <4> HIDE DEF u, low, high
      <4>3. u \in Nat /\ u <= 1000000
        BY <4>1, <4>2, SMT
      <4>4. QED  BY <4>3 DEF u, RefactorScores
    <3>5. score = Unclamped(s)
      BY <2>2, NotClamped
    <3>6. QED  BY <3>4, <3>5
  <2>3. QED  BY <2>1, <2>2
<1> HIDE DEF score
<1>2. Others \in Seq(Range(Others)) /\ \A i \in DOMAIN Others : Others[i] # NoValue => Others[i] \in RefactorScores
  BY OthersAssumption
<1>3. DOMAIN Others = 1..Len(Others) /\ Len(Others) \in Nat
  BY <1>2
<1>4. /\ Len(all) = Len(Others) + 1 /\ DOMAIN all = 1..(Len(Others) + 1)
      /\ \A i \in 1..Len(Others) : all[i] = Others[i]
      /\ all[Len(Others) + 1] = score
  BY <1>2
<1> HIDE DEF all
<1>5. \A i \in DOMAIN all : all[i] # NoValue => all[i] \in RefactorScores
  BY <1>1, <1>2, <1>3, <1>4
<1>6. DOMAIN all = 1..Len(all) /\ Len(all) \in Nat
  BY <1>3, <1>4
<1>7. ScoresOfScan(all)
  BY <1>5, <1>6 DEF ScoresOfScan
<1>8. QED  BY <1>7 DEF all, score

LEMMA ScoredPlaces ==
    ASSUME NEW all, ScoresOfScan(all)
    PROVE  /\ Scored(all) \subseteq DOMAIN all /\ DOMAIN all \subseteq Nat
           /\ IsFiniteSet(DOMAIN all) /\ Cardinality(DOMAIN all) = Len(all)
           /\ IsFiniteSet(Scored(all)) /\ Cardinality(Scored(all)) \in Nat
           /\ \A i \in Scored(all) : all[i] \in RefactorScores /\ all[i] \in Int /\ i \in Nat
<1>1. /\ Scored(all) \subseteq DOMAIN all /\ DOMAIN all = 1..Len(all) /\ Len(all) \in Nat
      /\ \A i \in Scored(all) : all[i] \in RefactorScores
  BY DEF ScoresOfScan, Scored
<1>2. IsFiniteSet(DOMAIN all) /\ Cardinality(DOMAIN all) = Len(all)
  <2> DEFINE n == Len(all)
  <2>1. n \in Nat /\ DOMAIN all = 1..n
    BY <1>1
  <2> HIDE DEF n
  <2>2. 1 \in Int /\ n \in Int
    BY <2>1
  <2>3. IsFiniteSet(1..n) /\ Cardinality(1..n) = IF 1 > n THEN 0 ELSE n - 1 + 1
    BY <2>2, FS_Interval
  <2>4. Cardinality(1..n) = n
    BY <2>1, <2>3
  <2>5. QED  BY <2>1, <2>3, <2>4 DEF n
<1>3. RefactorScores \subseteq Int
  BY SMT DEF RefactorScores
<1>4. IsFiniteSet(Scored(all)) /\ Cardinality(Scored(all)) \in Nat
  BY <1>1, <1>2, FS_Subset, FS_CardinalityType
<1>5. DOMAIN all \subseteq Nat
  BY <1>1
<1>6. QED  BY <1>1, <1>2, <1>3, <1>4, <1>5

\* The two ways of finding the band of a score agree.
LEMMA BandsCounted ==
    ASSUME NEW all, ScoresOfScan(all)
    PROVE  LET summary  == Summary(all)
               in(band) == Cardinality({i \in DOMAIN all : PriorityBand(all[i]) = band}) IN
           /\ <<summary.critical, summary.high, summary.medium, summary.low, summary.unscored>>
                 = <<in("critical"), in("high"), in("medium"), in("low"), in("unknown")>>
           /\ summary.critical + summary.high + summary.medium + summary.low + summary.unscored
                 = summary.evaluated
<1> DEFINE D == DOMAIN all
           S == Scored(all)
           Within(from, below) == {i \in S : from <= all[i] /\ all[i] < below}
           critical == Within(700000, 1000001)
           high     == Within(550000, 700000)
           medium   == Within(310000, 550000)
           low      == Within(0, 310000)
           rest     == D \ S
<1>1. /\ S \subseteq D /\ IsFiniteSet(D) /\ Cardinality(D) = Len(all) /\ IsFiniteSet(S) /\ Cardinality(S) \in Nat
      /\ \A i \in S : all[i] \in RefactorScores /\ all[i] # NoValue
      /\ \A i \in D : i \in S <=> all[i] # NoValue
  BY ScoredPlaces DEF Scored
<1>2. ASSUME NEW i \in D
      PROVE  /\ i \in critical <=> PriorityBand(all[i]) = "critical"
             /\ i \in high <=> PriorityBand(all[i]) = "high"
             /\ i \in medium <=> PriorityBand(all[i]) = "medium"
             /\ i \in low <=> PriorityBand(all[i]) = "low"
             /\ i \in rest <=> PriorityBand(all[i]) = "unknown"
  <2> HIDE DEF S, D
  <2>1. CASE i \in S
    <3>1. all[i] \in RefactorScores /\ all[i] # NoValue /\ i \notin rest
      <4> HIDE DEF critical, high, medium, low
      <4>1. QED  BY <1>1, <2>1
    <3> HIDE DEF rest
    <3>2. QED  BY <2>1, <3>1, SMT DEF RefactorScores, PriorityBand, CriticalThreshold, HighThreshold, MediumThreshold
  <2>2. CASE i \notin S
    BY <1>1, <2>2 DEF PriorityBand
  <2>3. QED  BY <2>1, <2>2
<1>3. /\ critical \subseteq D /\ high \subseteq D /\ medium \subseteq D /\ low \subseteq D /\ rest \subseteq D
  BY <1>1
<1>4. \A i \in D : i \in critical \/ i \in high \/ i \in medium \/ i \in low \/ i \in rest
  <2>1. \A i \in D : PriorityBand(all[i]) \in {"critical", "high", "medium", "low", "unknown"}
    BY DEF PriorityBand
  <2> HIDE DEF critical, high, medium, low, rest, D
  <2>2. QED  BY <1>2, <2>1
<1>5. Len(all) - Cardinality(S) = Cardinality(rest)
  <2>1. Cardinality(D \ S) = Cardinality(D) - Cardinality(D \cap S) /\ D \cap S = S
    BY <1>1, FS_Difference
  <2>2. QED  BY <1>1, <2>1
<1>6. /\ Summary(all).critical = Cardinality(critical) /\ Summary(all).high = Cardinality(high)
      /\ Summary(all).medium = Cardinality(medium) /\ Summary(all).low = Cardinality(low)
      /\ Summary(all).unscored = Cardinality(rest) /\ Summary(all).evaluated = Len(all)
  BY <1>5 DEF Summary, CountWithin, CriticalThreshold, HighThreshold, MediumThreshold
<1>7. /\ critical \cap high = {} /\ (critical \cup high) \cap medium = {}
      /\ ((critical \cup high) \cup medium) \cap low = {}
      /\ (((critical \cup high) \cup medium) \cup low) \cap rest = {}
      /\ (((critical \cup high) \cup medium) \cup low) \cup rest = D
  <2> HIDE DEF critical, high, medium, low, rest, D
  <2>1. QED  BY <1>2, <1>3, <1>4
<1> HIDE DEF critical, high, medium, low, rest, D, S
<1>8. ASSUME NEW A \in SUBSET D, NEW B \in SUBSET D, A \cap B = {}
      PROVE  Cardinality(A \cup B) = Cardinality(A) + Cardinality(B)
  <2>1. IsFiniteSet(A) /\ IsFiniteSet(B)
    BY <1>1, FS_Subset
  <2>2. Cardinality(A \cup B) = Cardinality(A) + Cardinality(B) - Cardinality(A \cap B)
    BY <2>1, FS_Union
  <2>3. Cardinality(A) \in Nat /\ Cardinality(B) \in Nat /\ Cardinality(A \cap B) = 0
    BY <1>8, <2>1, FS_CardinalityType, FS_EmptySet
  <2>4. QED  BY <2>2, <2>3
<1>9. Cardinality(critical) + Cardinality(high) + Cardinality(medium) + Cardinality(low) + Cardinality(rest)
        = Len(all)
  <2>1. Cardinality(critical \cup high) = Cardinality(critical) + Cardinality(high)
    BY <1>3, <1>7, <1>8
  <2>2. Cardinality((critical \cup high) \cup medium) = Cardinality(critical \cup high) + Cardinality(medium)
    BY <1>3, <1>7, <1>8
  <2>3. Cardinality(((critical \cup high) \cup medium) \cup low)
          = Cardinality((critical \cup high) \cup medium) + Cardinality(low)
    BY <1>3, <1>7, <1>8
  <2>4. Cardinality((((critical \cup high) \cup medium) \cup low) \cup rest)
          = Cardinality(((critical \cup high) \cup medium) \cup low) + Cardinality(rest)
    BY <1>3, <1>7, <1>8
  <2>5. QED  BY <1>1, <1>7, <2>1, <2>2, <2>3, <2>4
<1>10. /\ critical = {i \in D : PriorityBand(all[i]) = "critical"}
       /\ high = {i \in D : PriorityBand(all[i]) = "high"}
       /\ medium = {i \in D : PriorityBand(all[i]) = "medium"}
       /\ low = {i \in D : PriorityBand(all[i]) = "low"}
       /\ rest = {i \in D : PriorityBand(all[i]) = "unknown"}
  BY <1>2, <1>3
<1>11. QED  BY <1>6, <1>9, <1>10 DEF D

\* Sorting gives each turn to one file, and as many files are more urgent as had
\* their turn before it.
LEMMA TurnsOfFiles ==
    ASSUME NEW all, ScoresOfScan(all), NEW turn \in 1..Cardinality(Scored(all))
    PROVE  /\ ByScore(all, turn) \in Scored(all)
           /\ IsFiniteSet(MoreUrgent(all, ByScore(all, turn)))
           /\ Cardinality(MoreUrgent(all, ByScore(all, turn))) = turn - 1
<1> DEFINE S == Scored(all)
           n == Cardinality(S)
           below == [i \in S |-> MoreUrgent(all, i)]
<1>1. IsFiniteSet(S) /\ n \in Nat /\ \A i \in S : all[i] \in Int /\ i \in Nat
  BY ScoredPlaces
<1>2. \A i \in S : \A j : j \in below[i] <=> j \in S /\ (all[j] > all[i] \/ (all[j] = all[i] /\ j < i))
  BY DEF MoreUrgent
<1>3. \A i \in S : below[i] = MoreUrgent(all, i)
  OBVIOUS
<1> HIDE DEF S, below
<1>4. \A i \in S : below[i] \subseteq S /\ i \notin below[i]
  BY <1>1, <1>2
<1>5. \A i, j \in S : i # j => i \in below[j] \/ j \in below[i]
  BY <1>1, <1>2
<1>6. \A i, j \in S : i \in below[j] => below[i] \subseteq below[j]
  BY <1>1, <1>2
<1>7. {Cardinality(below[i]) : i \in S} = 0..(n - 1) /\ \A i \in S : IsFiniteSet(below[i])
  BY <1>1, <1>4, <1>5, <1>6, RanksNumber
<1>8. turn - 1 \in 0..(n - 1)
  BY <1>1 DEF S
<1> HIDE DEF n
<1>9. \E i \in S : Cardinality(below[i]) = turn - 1
  BY <1>7, <1>8
<1>10. \E i \in S : Cardinality(MoreUrgent(all, i)) = turn - 1
  BY <1>3, <1>9
<1>11. /\ ByScore(all, turn) \in S
       /\ Cardinality(MoreUrgent(all, ByScore(all, turn))) = turn - 1
  BY <1>10 DEF ByScore, S
<1>12. QED  BY <1>3, <1>7, <1>11 DEF S

\* The highest score is the first candidate's, and the average is among the scores.
LEMMA AverageOfScores ==
    ASSUME NEW all, ScoresOfScan(all), Cardinality(Scored(all)) # 0
    PROVE  /\ Summary(all).max = all[ByScore(all, 1)]
           /\ Summary(all).average <= Summary(all).max
           /\ \E i \in Scored(all) : all[i] <= Summary(all).average
<1> DEFINE S == Scored(all)
           n == Cardinality(S)
           first == ByScore(all, 1)
           neg == [i \in S |-> 0 - all[i]]
           sum == SumFunctionOnSet(all, S)
<1>1. /\ IsFiniteSet(S) /\ n \in Nat /\ n > 0 /\ S # {}
      /\ \A i \in S : all[i] \in Int /\ i \in Nat
  <2>1. IsFiniteSet(S) /\ n \in Nat /\ \A i \in S : all[i] \in Int /\ i \in Nat
    BY ScoredPlaces
  <2>2. S # {}
    BY FS_EmptySet
  <2> HIDE DEF S
  <2>3. QED  BY <2>1, <2>2 DEF S
<1>2. first \in S /\ \A i \in S : all[i] <= all[first]
  <2>1. /\ first \in S /\ IsFiniteSet(MoreUrgent(all, first))
        /\ Cardinality(MoreUrgent(all, first)) = 0
    <3>1. 1 \in 1..Cardinality(Scored(all))
      BY <1>1
    <3>2. QED  BY <3>1, TurnsOfFiles
  <2>2. MoreUrgent(all, first) = {}
    BY <2>1, FS_EmptySet
  <2>3. \A i \in S : ~(all[i] > all[first])
    BY <2>2 DEF MoreUrgent
  <2> HIDE DEF S, first
  <2>4. QED  BY <1>1, <2>1, <2>3
<1>3. Summary(all).max = all[first]
  <2> DEFINE values == {all[i] : i \in S}
             max == CHOOSE k \in values : \A i \in S : all[i] <= k
  <2>1. Summary(all).max = max
    BY DEF Summary
  <2>2. all[first] \in values /\ \A i \in S : all[i] <= all[first]
    BY <1>2
  <2>3. max \in values /\ \A i \in S : all[i] <= max
    <3> HIDE DEF values, first, S
    <3>1. QED  BY <2>2
  <2>4. PICK k \in S : max = all[k]
    BY <2>3
  <2> HIDE DEF max, values, first, S
  <2>5. max <= all[first] /\ all[first] <= max /\ max \in Int /\ all[first] \in Int
    BY <1>1, <1>2, <2>3, <2>4
  <2>6. QED  BY <2>1, <2>5
<1>4. Summary(all).average = sum \div n
  BY <1>1 DEF Summary
<1>5. PICK last \in S : \A i \in S : all[last] <= all[i]
  <2>1. \A i \in S : neg[i] \in Int /\ neg[i] = 0 - all[i]
    BY <1>1
  <2> HIDE DEF neg, S
  <2>2. PICK i \in S : \A k \in S : neg[k] \leq neg[i]
    BY <1>1, <2>1, LargestValue
  <2>3. ASSUME NEW k \in S PROVE all[i] <= all[k]
    <3>1. 0 - all[k] \leq 0 - all[i] /\ all[k] \in Int /\ all[i] \in Int
      BY <1>1, <2>1, <2>2
    <3>2. QED  BY <3>1
  <2>4. QED  BY <2>3
<1>6. ASSUME NEW k \in S
      PROVE  LET equal == [i \in S |-> all[k]] IN
             /\ \A i \in S : equal[i] = all[k] /\ equal[i] \in Int
             /\ SumFunctionOnSet(equal, S) = all[k] * n
  <2> DEFINE equal == [i \in S |-> all[k]]
  <2>1. \A i \in S : equal[i] = all[k]
    OBVIOUS
  <2>2. all[k] \in Int
    BY <1>1
  <2> HIDE DEF equal, S
  <2>3. SumFunctionOnSet(equal, S) = all[k] * n
    BY <1>1, <2>1, <2>2, SumOfEqual
  <2>4. QED  BY <2>1, <2>2, <2>3 DEF equal
<1>7. sum \in Int
  <2> HIDE DEF S
  <2>1. QED  BY <1>1, SumType
<1>8. sum <= all[first] * n
  <2> DEFINE equal == [i \in S |-> all[first]]
  <2>1. (\A i \in S : equal[i] = all[first] /\ equal[i] \in Int) /\ SumFunctionOnSet(equal, S) = all[first] * n
    BY <1>2, <1>6
  <2> HIDE DEF equal, S, first, n
  <2>2. \A i \in S : all[i] \in Int /\ equal[i] \in Int /\ all[i] \leq equal[i]
    BY <1>1, <1>2, <2>1
  <2>3. SumFunctionOnSet(all, S) \leq SumFunctionOnSet(equal, S)
    BY <1>1, <2>2, SumAtMost
  <2>4. QED  BY <2>1, <2>3
<1>9. all[last] * n <= sum
  <2> DEFINE equal == [i \in S |-> all[last]]
  <2>1. (\A i \in S : equal[i] = all[last] /\ equal[i] \in Int) /\ SumFunctionOnSet(equal, S) = all[last] * n
    BY <1>6
  <2> HIDE DEF equal, S, first, n
  <2>2. \A i \in S : all[i] \in Int /\ equal[i] \in Int /\ equal[i] \leq all[i]
    BY <1>1, <1>5, <2>1
  <2>3. SumFunctionOnSet(equal, S) \leq SumFunctionOnSet(all, S)
    BY <1>1, <2>2, SumAtMost
  <2>4. QED  BY <2>1, <2>3
<1>10. all[first] \in Int /\ all[last] \in Int
  BY <1>1, <1>2
<1> HIDE DEF S, n, first, neg, sum
<1>11. sum \div n <= all[first] /\ all[last] <= sum \div n
  BY <1>1, <1>7, <1>8, <1>9, <1>10, QuotientBetween
<1>12. QED  BY <1>3, <1>4, <1>11 DEF S, first

\* Fewer files are more urgent than the last candidate than there are candidates.
LEMMA CandidatesFirst ==
    ASSUME NEW all, ScoresOfScan(all), Cardinality(Scored(all)) # 0
    PROVE  LET top == Summary(all).top IN
           /\ top[1] = all[ByScore(all, 1)]
           /\ Cardinality({i \in Scored(all) : all[i] > top[Len(top)]}) < Len(top)
<1> DEFINE n == Cardinality(Scored(all))
           m == IF n < TopCandidates THEN n ELSE TopCandidates
           top == [turn \in 1..m |-> all[ByScore(all, turn)]]
<1>1. n \in Nat /\ n > 0 /\ m \in 1..n /\ m \in Nat
  BY ScoredPlaces DEF TopCandidates
<1>2. Summary(all).top = top
  BY DEF Summary
<1>3. Len(top) = m
  <2> HIDE DEF m
  <2>1. QED  BY <1>1
<1> HIDE DEF m
<1>4. top[1] = all[ByScore(all, 1)] /\ top[m] = all[ByScore(all, m)]
  BY <1>1
<1> DEFINE least == ByScore(all, m)
           beyond == {i \in Scored(all) : all[i] > all[least]}
<1>5. IsFiniteSet(MoreUrgent(all, least)) /\ Cardinality(MoreUrgent(all, least)) = m - 1
  BY <1>1, TurnsOfFiles
<1>6. beyond \subseteq MoreUrgent(all, least)
  BY DEF MoreUrgent
<1> HIDE DEF least, beyond, n, top
<1>7. Cardinality(beyond) <= m - 1 /\ Cardinality(beyond) \in Nat
  BY <1>5, <1>6, FS_Subset, FS_CardinalityType
<1>8. Cardinality(beyond) < m
  BY <1>1, <1>7
<1>9. QED  BY <1>2, <1>3, <1>4, <1>8 DEF beyond, least

-----------------------------------------------------------------------------
(* The theorems.                                                           *)

\* The scores of a file are those of its metrics.
FileInv == metrics \in Reported /\ scores = ComponentScores(metrics)

LEMMA InitFile == Init => FileInv
BY DEF Init, FileInv, Reported

LEMMA NextFile == FileInv /\ [Next]_fileVars => FileInv'
BY DEF FileInv, Next, Scan, fileVars, Reported

\* The scores of a file are always those of the metrics its layers last reported,
\* whichever layers failed (DecisionAnalysisLayer.run).
THEOREM ScoresFollowMetrics == Spec => []FileInv
<1>1. QED  BY InitFile, NextFile, PTL DEF Spec

LEMMA FileScores == FileInv => scores \in ScoresOfFile
BY ScoresOfComponents DEF FileInv, ScoresOfFile

\* Whatever the layers report, and whichever of them fail, the refactor score is
\* between the lowest and the highest component score there is, and the confidence
\* is as high as the components that were scored justify
\* (_aggregate_component_scores, _score_confidence).
THEOREM ScoreAlwaysBetween == Spec => []ScoreIsBetween
<1>1. FileInv => ScoreIsBetween
  <2> SUFFICES ASSUME FileInv PROVE ScoreIsBetween
    OBVIOUS
  <2>1. scores \in ScoresOfFile /\ metrics \in Reported /\ scores = ComponentScores(metrics)
    BY FileScores DEF FileInv
  <2>2. /\ Available(scores) = {} => ScoreConfidence(metrics) < 5000
        /\ ScoreConfidence(metrics) \in (MinCoverage * Coverage(scores, ComponentWeights))..10000
    BY <2>1, ConfidenceBetween, SMT
  <2>3. Available(scores) # {} =>
            /\ \E n \in Available(scores) : 1000 * scores[n] \leq Unclamped(scores)
            /\ \E n \in Available(scores) : Unclamped(scores) \leq 1000 * scores[n]
    BY <2>1, UnclampedBetween
  <2>4. QED  BY <2>2, <2>3, SMT DEF ScoreIsBetween
<1>2. QED  BY <1>1, ScoresFollowMetrics, PTL

\* The contributions shown with a file add up to its refactor score, but for less
\* than one millionth each (_component_contributions).
THEOREM ContributionsAlwaysAddUp == Spec => []ContributionsAddUp
<1>1. FileInv => ContributionsAddUp
  BY FileScores, ContributionsOf DEF ContributionsAddUp
<1>2. QED  BY <1>1, ScoresFollowMetrics, PTL

\* Exposure never makes a file more urgent than the same findings in its code would,
\* and a file with a component of its code beyond every threshold is in the upper
\* bands (component_dominance_multipliers, _priority_band).
THEOREM CodeLocalFindingsAlwaysLead == Spec => []CodeLocalFindingsLead
<1>1. FileInv => CodeLocalFindingsLead
  BY FileScores, CodeLeads, BeyondEveryThreshold DEF CodeLocalFindingsLead
<1>2. QED  BY <1>1, ScoresFollowMetrics, PTL

\* Whatever the scores of the other files of the scan, the summary counts each file
\* in the band it is shown with, and its candidates and its average are those of
\* the scores (_build_summary_vector, _priority_band).
THEOREM SummaryAlwaysAgrees == Spec => []SummaryAgrees
<1>1. FileInv => SummaryAgrees
  <2> SUFFICES ASSUME FileInv PROVE SummaryAgrees
    OBVIOUS
  <2> DEFINE all == Append(Others, RefactorScore(scores))
  <2>1. ScoresOfScan(all)
    BY FileScores, FileWithOthers
  <2>2. Summary(all).scored = Cardinality(Scored(all))
    BY DEF Summary
  <2> HIDE DEF all
  <2>3. Summary(all).scored # 0 =>
          /\ Summary(all).max = Summary(all).top[1]
          /\ Summary(all).average <= Summary(all).max
          /\ \E i \in Scored(all) : all[i] <= Summary(all).average
          /\ Cardinality({i \in Scored(all) : all[i] > Summary(all).top[Len(Summary(all).top)]})
                < Len(Summary(all).top)
    BY <2>1, <2>2, AverageOfScores, CandidatesFirst
  <2>4. QED  BY <2>1, <2>3, BandsCounted DEF SummaryAgrees, all
<1>2. QED  BY <1>1, ScoresFollowMetrics, PTL

LEMMA OneWorse ==
    ASSUME NEW m \in Reported, NEW u \in Reported, NEW x \in Against,
           m[x] # NoValue, u[x] # NoValue, m[x] < u[x], \A y \in Metrics \ {x} : u[y] = m[y]
    PROVE  Worse(m, u)
<1>1. m[x] \in Int /\ u[x] \in Int /\ x \in Metrics
  BY DEF Reported, Against
<1>2. Against \subseteq Metrics
  BY DEF Against
<1>3. QED  BY <1>1, <1>2 DEF Worse

LEMMA NotBetterThanBefore ==
    ASSUME FileInv, FileInv', OneMetricWorse
    PROVE  NoComponentBetter
<1>1. Worse(metrics, metrics')
  BY OneWorse DEF OneMetricWorse, FileInv
<1>2. \A n \in Components : NotLess(scores[n], scores'[n])
  BY <1>1, ComponentsWorse DEF FileInv
<1>3. scores \in ScoresOfFile
  BY FileScores
<1>4. scores' \in ScoresOfFile
  BY ScoresOfComponents DEF FileInv, ScoresOfFile
<1>5. DOMAIN scores = Components /\ DOMAIN scores' = Components
  BY <1>3, <1>4 DEF ScoresOfFile
<1>6. QED  BY <1>2, <1>5 DEF NoComponentBetter, Available, NotLess

LEMMA NotLessUrgent ==
    ASSUME NEW s \in ScoresOfFile, NEW t \in ScoresOfFile, Available(s) # {},
           Available(s) = Available(t), \A n \in Available(s) : s[n] \leq t[n]
    PROVE  RefactorScore(s) \leq RefactorScore(t)
<1>1. Weighs(Components, s, ComponentWeights) /\ Weighs(Components, t, ComponentWeights)
  BY Mean
<1>2. Weighted(s, ComponentWeights) \leq Weighted(t, ComponentWeights)
  BY <1>1, WeightedMonotone
<1>3. \A n \in Available(s) : Dominance[n] \leq Dominance[n]
  BY ScoreTypes DEF Components, Dominance
<1>4. \A n \in Available(s) : \E k \in Available(s) : s[n] \leq t[k] /\ Dominance[n] \leq Dominance[k]
  BY <1>3, Zenon
<1>5. QED  BY <1>2, <1>4, RefactorScoreMonotone

\* A metric that got worse, or scores that did, never make a file less urgent, although
\* the mean rises that the dominant component is compared with.
THEOREM WorseNeverEverHelps == Spec => WorseNeverHelps
<1> DEFINE Step == /\ OneMetricWorse => NoComponentBetter
                   /\ NoComponentBetter /\ Available(scores) # {} =>
                          RefactorScore(scores) \leq RefactorScore(scores')
<1>1. FileInv /\ FileInv' => Step
  <2> SUFFICES ASSUME FileInv, FileInv' PROVE Step
    OBVIOUS
  <2>1. scores \in ScoresOfFile /\ scores' \in ScoresOfFile
    BY FileScores, ScoresOfComponents DEF FileInv, ScoresOfFile
  <2>2. NoComponentBetter /\ Available(scores) # {} => RefactorScore(scores) \leq RefactorScore(scores')
    BY <2>1, NotLessUrgent DEF NoComponentBetter
  <2>3. QED  BY <2>2, NotBetterThanBefore
<1>2. FileInv /\ FileInv' => [Step]_fileVars
  BY <1>1
<1>3. Spec => [][Step]_fileVars
  <2> HIDE DEF Step
  <2>1. QED  BY <1>2, ScoresFollowMetrics, PTL
<1>4. QED  BY <1>3 DEF WorseNeverHelps

-----------------------------------------------------------------------------
(* The blocks of the source files.                                         *)

LEMMA FiniteImage ==
    ASSUME NEW S, IsFiniteSet(S), NEW h, NEW T, \A y \in T : \E x \in S : y = h[x]
    PROVE  IsFiniteSet(T)
<1> DEFINE R == {h[x] : x \in S}
           g == [x \in S |-> h[x]]
<1>1. g \in Surjection(S, R)
  BY DEF Surjection
<1>2. IsFiniteSet(R)
  <2> HIDE DEF g, R
  <2>1. QED  BY <1>1, FS_Surjection
<1>3. T \subseteq R
  OBVIOUS
<1>4. QED  BY <1>2, <1>3, FS_Subset

SourcesInv == sources \in [Files -> Sources]

LEMMA NothingIsASource == Empty \in Sources
<1>1. Empty \in [parses : BOOLEAN, lines : Seq(DOMAIN Tokens), nodes : SUBSET Nodes]
  BY DEF Empty
<1>2. IsFiniteSet(Empty.nodes) /\ Empty.nodes = {}
  BY FS_EmptySet DEF Empty
<1>3. QED  BY <1>1, <1>2 DEF Sources

\* Whatever is written, every file is a source.
LEMMA SourcesStaySources == Editing => []SourcesInv
<1>1. NothingWritten => SourcesInv
  BY NothingIsASource DEF NothingWritten, SourcesInv
<1>2. SourcesInv /\ [Edit]_sources => SourcesInv'
  <2> SUFFICES ASSUME SourcesInv, [Edit]_sources PROVE SourcesInv'
    OBVIOUS
  <2>1. CASE Edit
    <3>1. PICK f \in Files : \E source \in Sources : Put(f, source)
      BY <2>1 DEF Edit
    <3>2. PICK source \in Sources : Put(f, source)
      BY <3>1
    <3>3. QED  BY <3>2 DEF Put, SourcesInv
  <2>2. CASE UNCHANGED sources
    BY <2>2 DEF SourcesInv
  <2>3. QED  BY <2>1, <2>2
<1>3. QED  BY <1>1, <1>2, PTL DEF Editing

LEMMA SourceFacts ==
    ASSUME NEW source \in Sources
    PROVE  /\ IsFiniteSet(source.nodes) /\ Len(source.lines) \in Nat
           /\ \A n \in source.nodes : /\ n.first \in Nat /\ n.last \in Nat
                                      /\ n.first \in 1..n.last /\ n.last \in 1..Len(source.lines)
           /\ \A n, m \in source.nodes : n.first = m.first /\ n.kind \in {"function", "class"} => n = m
<1>1. /\ source.nodes \subseteq Nodes /\ source.lines \in Seq(DOMAIN Tokens) /\ IsFiniteSet(source.nodes)
      /\ \A n \in source.nodes : n.first \in 1..n.last /\ n.last \in 1..Len(source.lines)
      /\ \A n, m \in source.nodes : n.first = m.first /\ n.kind \in {"function", "class"} => n = m
  BY DEF Sources
<1>2. Len(source.lines) \in Nat
  BY <1>1
<1>3. \A n \in Nodes : n.first \in Nat /\ n.last \in Nat
  BY DEF Nodes
<1>4. QED  BY <1>1, <1>2, <1>3

\* What can be a block of a source, and the block there would be.
Candidates(source) == NodeCandidates(source) \cup StatementGroups(source)

LEMMA CandidatesOfASource ==
    ASSUME NEW source \in Sources
    PROVE  /\ IsFiniteSet(Candidates(source))
           /\ \A c \in Candidates(source) : /\ c.first \in Nat /\ c.last \in Nat
                                            /\ 1 <= c.first /\ c.last <= Len(source.lines)
           /\ \A c, d \in Candidates(source) : c.first = d.first /\ c.last = d.last => c = d
<1> DEFINE N == {m \in source.nodes : m.kind = "function" \/ (m.kind = "class" /\ m.plain)}
           L == Loose(source)
           ofNode == [n \in source.nodes |-> Candidate(n.kind, n.first, n.last)]
           ofRun == [r \in L \X L |-> Candidate("module_block", r[1].first, r[2].last)]
<1>1. /\ IsFiniteSet(source.nodes) /\ Len(source.lines) \in Nat
      /\ \A n \in source.nodes : /\ n.first \in Nat /\ n.last \in Nat
                                 /\ 1 <= n.first /\ n.last <= Len(source.lines)
      /\ \A n, m \in source.nodes : n.first = m.first /\ n.kind \in {"function", "class"} => n = m
  <2>1. /\ IsFiniteSet(source.nodes) /\ Len(source.lines) \in Nat
        /\ \A n \in source.nodes : /\ n.first \in Nat /\ n.last \in Nat
                                   /\ n.first \in 1..n.last /\ n.last \in 1..Len(source.lines)
        /\ \A n, m \in source.nodes : n.first = m.first /\ n.kind \in {"function", "class"} => n = m
    BY SourceFacts
  <2>2. QED  BY <2>1
<1>2. L \subseteq source.nodes /\ \A n \in L : n.kind = "other"
  BY DEF Loose
<1>3. IsFiniteSet(L) /\ IsFiniteSet(L \X L)
  <2> HIDE DEF L
  <2>1. IsFiniteSet(L)
    BY <1>1, <1>2, FS_Subset
  <2>2. QED  BY <2>1, FS_Product
<1>4. \A c \in NodeCandidates(source) :
         \E n \in source.nodes : n.kind \in {"function", "class"} /\ c = ofNode[n]
  BY DEF NodeCandidates
<1>5. \A c \in StatementGroups(source) : \E r \in L \X L : c = ofRun[r]
  BY DEF StatementGroups
<1>6. IsFiniteSet(Candidates(source))
  <2> HIDE DEF ofNode, ofRun, L
  <2>1. IsFiniteSet(NodeCandidates(source))
    BY <1>1, <1>4, FiniteImage
  <2>2. IsFiniteSet(StatementGroups(source))
    BY <1>3, <1>5, FiniteImage
  <2>3. QED  BY <2>1, <2>2, FS_Union DEF Candidates
<1>7. \A n \in source.nodes : /\ ofNode[n].first = n.first /\ ofNode[n].last = n.last
  BY DEF Candidate
<1>8. \A r \in L \X L : /\ ofRun[r] = Candidate("module_block", r[1].first, r[2].last)
                        /\ ofRun[r].first = r[1].first /\ ofRun[r].last = r[2].last
                        /\ r[1] \in L /\ r[2] \in L
  BY DEF Candidate
<1> HIDE DEF ofNode, ofRun, L, N
<1>9. \A c \in Candidates(source) :
         \/ \E n \in source.nodes : n.kind \in {"function", "class"} /\ c = ofNode[n]
         \/ \E r \in L \X L : c = ofRun[r]
  BY <1>4, <1>5 DEF Candidates
<1>10. ASSUME NEW c \in Candidates(source)
       PROVE  c.first \in Nat /\ c.last \in Nat /\ 1 <= c.first /\ c.last <= Len(source.lines)
  <2>1. CASE \E n \in source.nodes : n.kind \in {"function", "class"} /\ c = ofNode[n]
    BY <1>1, <1>7, <2>1
  <2>2. CASE \E r \in L \X L : c = ofRun[r]
    <3>1. PICK r \in L \X L : c = ofRun[r]
      BY <2>2
    <3>2. r[1] \in source.nodes /\ r[2] \in source.nodes /\ c.first = r[1].first /\ c.last = r[2].last
      BY <1>2, <1>8, <3>1
    <3>3. QED  BY <1>1, <3>2
  <2>3. QED  BY <1>9, <2>1, <2>2
<1>11. ASSUME NEW c \in Candidates(source), NEW d \in Candidates(source), c.first = d.first, c.last = d.last,
              NEW n \in source.nodes, n.kind \in {"function", "class"}, c = ofNode[n]
       PROVE  c = d
  <2>1. CASE \E m \in source.nodes : m.kind \in {"function", "class"} /\ d = ofNode[m]
    BY <1>1, <1>7, <1>11, <2>1
  <2>2. CASE \E r \in L \X L : d = ofRun[r]
    <3>1. PICK r \in L \X L : d = ofRun[r]
      BY <2>2
    <3>2. r[1] \in source.nodes /\ r[1].kind = "other" /\ n.first = r[1].first
      BY <1>2, <1>7, <1>8, <1>11, <3>1
    <3>3. n = r[1]
      BY <1>1, <1>11, <3>2
    <3>4. QED  BY <1>11, <3>2, <3>3
  <2>3. QED  BY <1>9, <2>1, <2>2
<1>12. ASSUME NEW c \in Candidates(source), NEW d \in Candidates(source), c.first = d.first, c.last = d.last
       PROVE  c = d
  <2>1. CASE \E n \in source.nodes : n.kind \in {"function", "class"} /\ c = ofNode[n]
    BY <1>11, <1>12, <2>1
  <2>2. CASE \E n \in source.nodes : n.kind \in {"function", "class"} /\ d = ofNode[n]
    BY <1>11, <1>12, <2>2
  <2>3. CASE (\E r \in L \X L : c = ofRun[r]) /\ (\E r \in L \X L : d = ofRun[r])
    BY <1>8, <1>12, <2>3
  <2>4. QED  BY <1>9, <2>1, <2>2, <2>3
<1>13. QED  BY <1>6, <1>10, <1>12

\* The lines of code of a whole file.
CodeOf(source) == CodeLines(source, 1, Len(source.lines))

LEMMA BlocksOfASource ==
    ASSUME NEW source \in Sources, NEW f
    PROVE  /\ IsFiniteSet(ExtractBlocks(source, f)) /\ IsFiniteSet(CodeOf(source))
           /\ \A b \in ExtractBlocks(source, f) : /\ b.file = f /\ b.first \in Nat /\ b.last \in Nat
                                                  /\ b.lines \subseteq CodeOf(source)
           /\ \A a, b \in ExtractBlocks(source, f) : a.first = b.first /\ a.last = b.last => a = b
<1> DEFINE C == Candidates(source)
           whole == Candidate("module", 1, Len(source.lines))
           block == [c \in C |-> Block(source, f, c)]
           found == {Block(source, f, c) : c \in C}
<1>1. /\ IsFiniteSet(C) /\ Len(source.lines) \in Nat
      /\ \A c \in C : c.first \in Nat /\ c.last \in Nat /\ 1 <= c.first /\ c.last <= Len(source.lines)
      /\ \A c, d \in C : c.first = d.first /\ c.last = d.last => c = d
  BY CandidatesOfASource, SourceFacts
<1>2. ExtractBlocks(source, f) =
        IF \E b \in found : LargeEnough(b) THEN {b \in found : LargeEnough(b)}
        ELSE {b \in {Block(source, f, whole)} : LargeEnough(b)}
  BY DEF ExtractBlocks, Candidates
<1>3. \A b \in found : \E c \in C : b = block[c]
  OBVIOUS
<1>4. IsFiniteSet(found)
  <2> HIDE DEF C, block, found
  <2>1. QED  BY <1>1, <1>3, FiniteImage
<1>5. IsFiniteSet({Block(source, f, whole)})
  BY FS_Singleton
<1>6. IsFiniteSet(ExtractBlocks(source, f))
  <2> HIDE DEF found, whole
  <2>1. ExtractBlocks(source, f) \subseteq found \/ ExtractBlocks(source, f) \subseteq {Block(source, f, whole)}
    BY <1>2
  <2>2. QED  BY <1>4, <1>5, <2>1, FS_Subset
<1>7. IsFiniteSet(CodeOf(source))
  <2>1. CodeOf(source) \subseteq 1..Len(source.lines)
    BY DEF CodeOf, CodeLines
  <2>2. IsFiniteSet(1..Len(source.lines))
    BY <1>1, FS_Interval
  <2>3. QED  BY <2>1, <2>2, FS_Subset
<1>8. \A c : /\ Block(source, f, c).file = f
             /\ Block(source, f, c).first = c.first /\ Block(source, f, c).last = c.last
             /\ Block(source, f, c).lines = CodeLines(source, c.first, c.last)
  BY DEF Block
<1>9. ASSUME NEW first \in Nat, NEW last \in Nat, 1 <= first, last <= Len(source.lines)
      PROVE  CodeLines(source, first, last) \subseteq CodeOf(source)
  BY <1>1, <1>9 DEF CodeLines, CodeOf
<1>10. whole.first = 1 /\ whole.last = Len(source.lines)
  BY DEF Candidate
<1>11. ASSUME NEW b \in ExtractBlocks(source, f)
       PROVE  \/ \E c \in C : b = Block(source, f, c)
              \/ b = Block(source, f, whole)
  BY <1>2
<1> HIDE DEF C, whole, found, block
<1>12. ASSUME NEW b \in ExtractBlocks(source, f)
       PROVE  b.file = f /\ b.first \in Nat /\ b.last \in Nat /\ b.lines \subseteq CodeOf(source)
  <2>1. CASE \E c \in C : b = Block(source, f, c)
    BY <1>1, <1>8, <1>9, <2>1
  <2>2. CASE b = Block(source, f, whole)
    BY <1>1, <1>8, <1>9, <1>10, <2>2
  <2>3. QED  BY <1>11, <2>1, <2>2
<1>13. ASSUME NEW a \in ExtractBlocks(source, f), NEW b \in ExtractBlocks(source, f),
              a.first = b.first, a.last = b.last
       PROVE  a = b
  <2>1. CASE \E x \in found : LargeEnough(x)
    <3>1. a \in found /\ b \in found
      BY <1>2, <2>1
    <3>2. (\E c \in C : a = Block(source, f, c)) /\ (\E c \in C : b = Block(source, f, c))
      BY <3>1 DEF found
    <3>3. QED  BY <1>1, <1>8, <1>13, <3>2
  <2>2. CASE ~ \E x \in found : LargeEnough(x)
    BY <1>2, <2>2
  <2>3. QED  BY <2>1, <2>2
<1>14. QED  BY <1>6, <1>7, <1>12, <1>13

\* All blocks of all files, each once, in an order.
LEMMA AllTheBlocks ==
    ASSUME SourcesInv
    PROVE  LET all == UNION {FileBlocks(sources, f) : f \in Files} IN
           /\ IsFiniteSet(all)
           /\ DOMAIN AllBlocks(sources) = 1..Cardinality(all) /\ Cardinality(all) \in Nat
           /\ \A b \in all : b.file \in Files /\ b \in FileBlocks(sources, b.file)
           /\ \A n \in DOMAIN AllBlocks(sources) : AllBlocks(sources)[n] \in all
           /\ \A b \in all : \E n \in DOMAIN AllBlocks(sources) : AllBlocks(sources)[n] = b
<1> DEFINE all == UNION {FileBlocks(sources, f) : f \in Files}
           blocks == AllBlocks(sources)
           before == [b \in all |-> {a \in all : Earlier(a, b)}]
           n == Cardinality(all)
<1>1. Files \subseteq Nat /\ IsFiniteSet(Files) /\ DOMAIN sources = Files /\ \A f \in Files : sources[f] \in Sources
  BY SourcesAssumption DEF SourcesInv
<1>2. ASSUME NEW f \in Files
      PROVE  /\ IsFiniteSet(FileBlocks(sources, f))
             /\ \A b \in FileBlocks(sources, f) : b.file = f /\ b.first \in Nat /\ b.last \in Nat
             /\ \A a, b \in FileBlocks(sources, f) : a.first = b.first /\ a.last = b.last => a = b
  BY <1>1, BlocksOfASource, FS_EmptySet DEF FileBlocks
<1>3. IsFiniteSet(all)
  <2> DEFINE own == [f \in Files |-> FileBlocks(sources, f)]
             families == {FileBlocks(sources, f) : f \in Files}
  <2>1. \A y \in families : \E f \in Files : y = own[f]
    OBVIOUS
  <2>2. \A y \in families : IsFiniteSet(y)
    BY <1>2
  <2> HIDE DEF own, families
  <2>3. IsFiniteSet(families)
    BY <1>1, <2>1, FiniteImage
  <2>4. IsFiniteSet(UNION families)
    BY <2>2, <2>3, FS_UNION
  <2>5. QED  BY <2>4 DEF families
<1>4. \A b \in all : b.file \in Files /\ b \in FileBlocks(sources, b.file)
  BY <1>2
<1>5. \A b \in all : b.file \in Nat /\ b.first \in Nat /\ b.last \in Nat
  BY <1>1, <1>2, <1>4
<1>6. blocks = [i \in 1..n |-> CHOOSE b \in all : Cardinality({a \in all : Earlier(a, b)}) = i - 1]
  BY <1>1 DEF AllBlocks
<1>7. \A b \in all : before[b] = {a \in all : Earlier(a, b)}
  OBVIOUS
<1> HIDE DEF all, before, n, blocks
<1>8. \A b \in all : before[b] \subseteq all /\ b \notin before[b]
  BY <1>5, <1>7 DEF Earlier
<1>9. \A a, b \in all : a # b => a \in before[b] \/ b \in before[a]
  <2> TAKE a, b \in all
  <2> HAVE a # b
  <2>1. a.file # b.file \/ a.first # b.first \/ a.last # b.last
    BY <1>2, <1>4
  <2>2. Earlier(a, b) \/ Earlier(b, a)
    BY <1>5, <2>1 DEF Earlier
  <2>3. QED  BY <1>7, <2>2
<1>10. \A a, b \in all : a \in before[b] => before[a] \subseteq before[b]
  <2> TAKE a, b \in all
  <2> HAVE a \in before[b]
  <2>1. Earlier(a, b)
    BY <1>7
  <2>2. \A c \in all : Earlier(c, a) => Earlier(c, b)
    BY <1>5, <2>1 DEF Earlier
  <2>3. QED  BY <1>7, <2>2
<1>11. /\ n \in Nat /\ {Cardinality(before[b]) : b \in all} = 0..(n - 1)
       /\ \A a, b \in all : Cardinality(before[a]) = Cardinality(before[b]) => a = b
  BY <1>3, <1>8, <1>9, <1>10, RanksNumber DEF n
<1>12. DOMAIN blocks = 1..n
  BY <1>6
<1>13. ASSUME NEW i \in 1..n
       PROVE  blocks[i] \in all /\ Cardinality(before[blocks[i]]) = i - 1
  <2>1. i - 1 \in 0..(n - 1)
    BY <1>11
  <2>2. \E b \in all : Cardinality(before[b]) = i - 1
    BY <1>11, <2>1
  <2>3. \E b \in all : Cardinality({a \in all : Earlier(a, b)}) = i - 1
    BY <1>7, <2>2
  <2>4. blocks[i] = CHOOSE b \in all : Cardinality({a \in all : Earlier(a, b)}) = i - 1
    BY <1>6
  <2>5. blocks[i] \in all /\ Cardinality({a \in all : Earlier(a, blocks[i])}) = i - 1
    BY <2>3, <2>4
  <2>6. QED  BY <1>7, <2>5
<1>14. ASSUME NEW b \in all PROVE \E i \in 1..n : blocks[i] = b
  <2> DEFINE i == Cardinality(before[b]) + 1
  <2>1. Cardinality(before[b]) \in 0..(n - 1)
    BY <1>11
  <2>2. i \in 1..n /\ i - 1 = Cardinality(before[b])
    BY <1>11, <2>1
  <2> HIDE DEF i
  <2>3. blocks[i] = b
    BY <1>11, <1>13, <2>2
  <2>4. QED  BY <2>2, <2>3
<1>15. QED  BY <1>3, <1>4, <1>11, <1>12, <1>13, <1>14 DEF all, blocks, n

-----------------------------------------------------------------------------
(* The duplicates of blocks that are alike, whichever pairs they are.      *)

LEMMA MatchesAre ==
    ASSUME NEW B, NEW alike, alike \subseteq B \X B, NEW b
    PROVE  /\ \A c : c \in Matches(alike, b) <=>
                        (<<b, c>> \in alike \/ <<c, b>> \in alike) /\ c.file # b.file
           /\ Matches(alike, b) \subseteq B
<1>1. \A p \in alike : p = <<p[1], p[2]>> /\ p[1] \in B /\ p[2] \in B
  OBVIOUS
<1>2. ASSUME NEW c
      PROVE  c \in Matches(alike, b) <=> (<<b, c>> \in alike \/ <<c, b>> \in alike) /\ c.file # b.file
  <2>1. c \in Matches(alike, b) <=>
           ((\E p \in alike : p[1] = b /\ c = p[2]) \/ (\E p \in alike : p[2] = b /\ c = p[1])) /\ c.file # b.file
    BY DEF Matches
  <2>2. (\E p \in alike : p[1] = b /\ c = p[2]) <=> <<b, c>> \in alike
    <3>1. <<b, c>> \in alike => (<<b, c>>)[1] = b /\ c = (<<b, c>>)[2]
      OBVIOUS
    <3>2. QED  BY <1>1, <3>1
  <2>3. (\E p \in alike : p[2] = b /\ c = p[1]) <=> <<c, b>> \in alike
    <3>1. <<c, b>> \in alike => (<<c, b>>)[2] = b /\ c = (<<c, b>>)[1]
      OBVIOUS
    <3>2. QED  BY <1>1, <3>1
  <2>4. QED  BY <2>1, <2>2, <2>3
<1>3. \A c \in Matches(alike, b) : c \in B
  <2>1. \A c : <<b, c>> \in alike \/ <<c, b>> \in alike => c \in B
    OBVIOUS
  <2>2. QED  BY <1>2, <2>1
<1>4. QED  BY <1>2, <1>3

\* Blocks of files.
Blocks(B) == IsFiniteSet(B) /\ \A b \in B : b.file \in Files

LEMMA DuplicatesAre ==
    ASSUME NEW B, Blocks(B), NEW alike, alike \subseteq B \X B, NEW f
    PROVE  /\ DuplicateBlocks(B, alike, f) \subseteq B
           /\ IsFiniteSet(DuplicateBlocks(B, alike, f)) /\ Cardinality(DuplicateBlocks(B, alike, f)) \in Nat
           /\ \A b \in DuplicateBlocks(B, alike, f) : b.file = f
           /\ \A b \in B : \A c : c \in Matches(alike, b) =>
                 /\ c \in B /\ c.file \in Files /\ c.file # b.file
                 /\ b \in Matches(alike, c)
                 /\ b \in DuplicateBlocks(B, alike, b.file) /\ c \in DuplicateBlocks(B, alike, c.file)
<1>1. DuplicateBlocks(B, alike, f) \subseteq B /\ \A b \in DuplicateBlocks(B, alike, f) : b.file = f
  BY DEF DuplicateBlocks
<1>2. IsFiniteSet(DuplicateBlocks(B, alike, f)) /\ Cardinality(DuplicateBlocks(B, alike, f)) \in Nat
  BY <1>1, FS_Subset, FS_CardinalityType DEF Blocks
<1>3. ASSUME NEW b \in B, NEW c, c \in Matches(alike, b)
      PROVE  /\ c \in B /\ c.file \in Files /\ c.file # b.file
             /\ b \in Matches(alike, c)
             /\ b \in DuplicateBlocks(B, alike, b.file) /\ c \in DuplicateBlocks(B, alike, c.file)
  <2>1. c \in B /\ c.file # b.file /\ (<<b, c>> \in alike \/ <<c, b>> \in alike)
    BY <1>3, MatchesAre
  <2>2. b \in Matches(alike, c)
    BY <2>1, MatchesAre
  <2>3. b \in DuplicateBlocks(B, alike, b.file) /\ c \in DuplicateBlocks(B, alike, c.file)
    BY <1>3, <2>1, <2>2 DEF DuplicateBlocks
  <2>4. QED  BY <2>1, <2>2, <2>3 DEF Blocks
<1>4. QED  BY <1>1, <1>2, <1>3

LEMMA PeersAre ==
    ASSUME NEW B, Blocks(B), NEW alike, alike \subseteq B \X B, NEW some, some \subseteq B
    PROVE  /\ \A g : g \in PeerFiles(alike, some) <=> \E b \in some : \E c \in Matches(alike, b) : g = c.file
           /\ PeerFiles(alike, some) \subseteq Files
           /\ IsFiniteSet(PeerFiles(alike, some)) /\ Cardinality(PeerFiles(alike, some)) \in Nat
<1>1. \A g : g \in PeerFiles(alike, some) <=> \E b \in some : \E c \in Matches(alike, b) : g = c.file
  BY DEF PeerFiles
<1>2. PeerFiles(alike, some) \subseteq Files
  <2>1. \A b \in B : \A c : c \in Matches(alike, b) => c.file \in Files
    BY DuplicatesAre
  <2>2. QED  BY <1>1, <2>1
<1>3. QED  BY <1>1, <1>2, SourcesAssumption, FS_Subset, FS_CardinalityType

\* The maximum of finitely many numbers.
LEMMA MaxIs ==
    ASSUME NEW V, V \subseteq Int, IsFiniteSet(V), V # {}
    PROVE  Max(V) \in V /\ \A v \in V : v <= Max(V)
<1> DEFINE id == [v \in V |-> v]
<1>1. \A v \in V : id[v] \in Int /\ id[v] = v
  OBVIOUS
<1> HIDE DEF id
<1>2. \E m \in V : \A v \in V : id[v] <= id[m]
  BY <1>1, LargestValue
<1>3. \E m \in V : \A v \in V : m >= v
  BY <1>1, <1>2
<1>4. Max(V) \in V /\ \A v \in V : Max(V) >= v
  BY <1>3 DEF Max
<1>5. QED  BY <1>4

\* A block of f that has duplicates has them in other files, all of which share it.
LEMMA GroupIs ==
    ASSUME NEW B, Blocks(B), NEW alike, alike \subseteq B \X B, NEW f \in Files,
           DuplicateBlocks(B, alike, f) # {}
    PROVE  GroupSize(B, alike, f) \in
               2..Cardinality({g \in Files : Cardinality(DuplicateBlocks(B, alike, g)) > 0})
<1> DEFINE dup == {g \in Files : Cardinality(DuplicateBlocks(B, alike, g)) > 0}
           D == DuplicateBlocks(B, alike, f)
           share == [b \in D |-> 1 + Cardinality(PeerFiles(alike, {b}))]
           shares == {1 + Cardinality(PeerFiles(alike, {b})) : b \in D}
<1>1. D \subseteq B /\ IsFiniteSet(D) /\ \A b \in D : b.file = f /\ Matches(alike, b) # {}
  <2>1. D \subseteq B /\ IsFiniteSet(D)
    BY DuplicatesAre
  <2>2. \A b \in D : b.file = f /\ Matches(alike, b) # {}
    BY DEF DuplicateBlocks
  <2>3. QED  BY <2>1, <2>2
<1>2. \A g \in Files : DuplicateBlocks(B, alike, g) # {} => g \in dup
  <2> TAKE g \in Files
  <2>1. DuplicateBlocks(B, alike, g) # {} => Cardinality(DuplicateBlocks(B, alike, g)) # 0
    BY DuplicatesAre, FS_EmptySet
  <2>2. Cardinality(DuplicateBlocks(B, alike, g)) \in Nat
    BY DuplicatesAre
  <2>3. QED  BY <2>1, <2>2
<1>3. IsFiniteSet(dup) /\ Cardinality(dup) \in Nat
  <2>1. dup \subseteq Files
    OBVIOUS
  <2> HIDE DEF dup
  <2>2. QED  BY <2>1, SourcesAssumption, FS_Subset, FS_CardinalityType
<1>4. f \in dup
  BY <1>2
<1> HIDE DEF dup, D
<1>5. ASSUME NEW b \in D
      PROVE  1 + Cardinality(PeerFiles(alike, {b})) \in 2..Cardinality(dup)
  <2> DEFINE P == PeerFiles(alike, {b})
  <2>1. /\ \A g : g \in P <=> \E c \in Matches(alike, b) : g = c.file
        /\ IsFiniteSet(P) /\ Cardinality(P) \in Nat
    <3>1. {b} \subseteq B
      BY <1>1
    <3>2. QED  BY <3>1, PeersAre
  <2>2. P # {}
    BY <1>1, <2>1
  <2>3. P \subseteq dup \ {f}
    <3> SUFFICES ASSUME NEW g \in P PROVE g \in dup /\ g # f
      OBVIOUS
    <3>1. PICK c \in Matches(alike, b) : g = c.file
      BY <2>1
    <3>2. b \in B /\ b.file = f
      BY <1>1
    <3>3. c.file \in Files /\ c.file # b.file /\ c \in DuplicateBlocks(B, alike, c.file)
      BY <3>2, DuplicatesAre
    <3>4. QED  BY <1>2, <3>1, <3>2, <3>3
  <2> HIDE DEF P
  <2>4. Cardinality(P) # 0
    BY <2>1, <2>2, FS_EmptySet
  <2>5. IsFiniteSet(dup \ {f}) /\ Cardinality(dup \ {f}) = Cardinality(dup) - 1
    BY <1>3, <1>4, FS_RemoveElement
  <2>6. Cardinality(P) <= Cardinality(dup \ {f})
    BY <2>3, <2>5, FS_Subset
  <2>7. QED  BY <1>3, <2>1, <2>4, <2>5, <2>6 DEF P
<1>6. IsFiniteSet(shares) /\ shares \subseteq 2..Cardinality(dup) /\ shares # {}
  <2>1. \A y \in shares : \E b \in D : y = share[b]
    OBVIOUS
  <2>2. shares # {}
    BY DEF D
  <2>3. \A y \in shares : y \in 2..Cardinality(dup)
    BY <1>5
  <2> HIDE DEF share, shares
  <2>4. QED  BY <1>1, <2>1, <2>2, <2>3, FiniteImage
<1>7. GroupSize(B, alike, f) = Max({0} \cup shares)
  BY DEF GroupSize, D
<1> HIDE DEF shares
<1>8. /\ {0} \cup shares \subseteq Int /\ {0} \cup shares # {}
      /\ IsFiniteSet({0} \cup shares)
  <2>1. IsFiniteSet({0} \cup shares)
    BY <1>6, FS_Singleton, FS_Union
  <2>2. QED  BY <1>6, <2>1
<1>9. /\ Max({0} \cup shares) \in {0} \cup shares
      /\ \A v \in {0} \cup shares : v <= Max({0} \cup shares)
  BY <1>8, MaxIs
<1>10. PICK v \in shares : 2 <= v /\ v <= Max({0} \cup shares)
  <2>1. PICK v \in shares : TRUE
    BY <1>6
  <2>2. v \in 2..Cardinality(dup)
    BY <1>6, <2>1
  <2>3. 2 <= v
    BY <2>2
  <2>4. v <= Max({0} \cup shares)
    BY <1>9, <2>1
  <2>5. QED  BY <2>1, <2>3, <2>4
<1>11. Max({0} \cup shares) \in shares
  BY <1>6, <1>9, <1>10
<1>12. QED  BY <1>6, <1>7, <1>11 DEF dup

\* The metrics of the files count duplicates in pairs: who has some has a peer, no
\* file is the only peer, and no group is larger than the files with duplicates.
InPairs(of) ==
    LET dup   == {f \in Files : of[f].blocks > 0}
        peers == {f \in Files : of[f].candidates > 0} IN
    /\ Cardinality(peers) # 1 /\ dup \subseteq peers
    /\ \A f \in dup : of[f].group \in 2..Cardinality(dup)

\* Whatever is alike in the tokens and in the texts, a file with duplicates has a
\* peer, a peer has the file for one, and both are counted.
LEMMA PeersComeInPairs ==
    ASSUME NEW B, Blocks(B), NEW syntax, syntax \subseteq B \X B, NEW semantic, semantic \subseteq B \X B,
           NEW service, NEW of, of = [f \in Files |-> DuplicationMetrics(B, syntax, semantic, service, f)]
    PROVE  InPairs(of)
<1> DEFINE dup   == {f \in Files : of[f].blocks > 0}
           peers == {f \in Files : of[f].candidates > 0}
           alike == IF service \/ Cardinality(B) < 2 THEN semantic ELSE {}
           some(f) == DuplicateBlocks(B, syntax, f) \cup DuplicateBlocks(B, alike, f)
           others(f) == PeerFiles(syntax, some(f)) \cup PeerFiles(alike, some(f))
<1>1. alike \subseteq B \X B
  OBVIOUS
<1>2. \A f \in Files : /\ of[f].blocks = Cardinality(DuplicateBlocks(B, syntax, f))
                       /\ of[f].group = GroupSize(B, syntax, f)
                       /\ of[f].candidates = Cardinality(others(f))
  BY DEF DuplicationMetrics
<1> HIDE DEF alike
<1>3. ASSUME NEW f \in Files
      PROVE  /\ some(f) \subseteq B
             /\ IsFiniteSet(others(f)) /\ Cardinality(others(f)) \in Nat
             /\ others(f) \subseteq Files
             /\ \A g : g \in others(f) <=>
                   \E b \in some(f) : \E c \in Matches(syntax, b) \cup Matches(alike, b) : g = c.file
  <2>1. some(f) \subseteq B
    BY <1>1, DuplicatesAre
  <2> HIDE DEF some
  <2>2. IsFiniteSet(PeerFiles(syntax, some(f))) /\ IsFiniteSet(PeerFiles(alike, some(f)))
    BY <1>1, <2>1, PeersAre
  <2>3. IsFiniteSet(others(f)) /\ Cardinality(others(f)) \in Nat
    BY <2>2, FS_Union, FS_CardinalityType
  <2>4. /\ \A g : g \in PeerFiles(syntax, some(f)) <=> \E b \in some(f) : \E c \in Matches(syntax, b) : g = c.file
        /\ PeerFiles(syntax, some(f)) \subseteq Files
    BY <2>1, PeersAre
  <2>5. /\ \A g : g \in PeerFiles(alike, some(f)) <=> \E b \in some(f) : \E c \in Matches(alike, b) : g = c.file
        /\ PeerFiles(alike, some(f)) \subseteq Files
    BY <1>1, <2>1, PeersAre
  <2>6. QED  BY <2>1, <2>3, <2>4, <2>5
<1>4. \A f \in Files : f \in peers <=> others(f) # {}
  <2> TAKE f \in Files
  <2>1. others(f) = {} <=> Cardinality(others(f)) = 0
    BY <1>3, FS_EmptySet
  <2> HIDE DEF others
  <2>2. QED  BY <1>2, <1>3, <2>1
<1>5. \A f \in Files : f \in dup <=> DuplicateBlocks(B, syntax, f) # {}
  <2> TAKE f \in Files
  <2>1. /\ DuplicateBlocks(B, syntax, f) = {} <=> Cardinality(DuplicateBlocks(B, syntax, f)) = 0
        /\ Cardinality(DuplicateBlocks(B, syntax, f)) \in Nat
    BY DuplicatesAre, FS_EmptySet
  <2>2. of[f].blocks = Cardinality(DuplicateBlocks(B, syntax, f))
    BY <1>2
  <2> HIDE DEF some, others
  <2>3. QED  BY <2>1, <2>2
<1>6. ASSUME NEW f \in Files, NEW g \in others(f)
      PROVE  g \in peers /\ g # f
  <2>1. PICK b \in some(f) : \E c \in Matches(syntax, b) \cup Matches(alike, b) : g = c.file
    BY <1>3
  <2>2. PICK c \in Matches(syntax, b) \cup Matches(alike, b) : g = c.file
    BY <2>1
  <2>3. b \in B /\ b.file = f
    BY <1>1, <2>1, DuplicatesAre
  <2>4. CASE c \in Matches(syntax, b)
    <3>1. c.file \in Files /\ c.file # b.file /\ c \in DuplicateBlocks(B, syntax, c.file) /\ b \in Matches(syntax, c)
      BY <2>3, <2>4, DuplicatesAre
    <3>2. c \in some(g) /\ b \in Matches(syntax, c) \cup Matches(alike, c)
      BY <2>2, <3>1
    <3>3. g \in Files
      BY <2>2, <3>1
    <3>4. f \in others(g)
      BY <1>3, <2>3, <3>2, <3>3
    <3>5. QED  BY <1>4, <2>2, <2>3, <3>1, <3>3, <3>4
  <2>5. CASE c \in Matches(alike, b)
    <3>1. c.file \in Files /\ c.file # b.file /\ c \in DuplicateBlocks(B, alike, c.file) /\ b \in Matches(alike, c)
      BY <1>1, <2>3, <2>5, DuplicatesAre
    <3>2. c \in some(g) /\ b \in Matches(syntax, c) \cup Matches(alike, c)
      BY <2>2, <3>1
    <3>3. g \in Files
      BY <2>2, <3>1
    <3>4. f \in others(g)
      BY <1>3, <2>3, <3>2, <3>3
    <3>5. QED  BY <1>4, <2>2, <2>3, <3>1, <3>3, <3>4
  <2>6. QED  BY <2>2, <2>4, <2>5
<1>7. dup \subseteq peers
  <2> SUFFICES ASSUME NEW f \in Files, DuplicateBlocks(B, syntax, f) # {} PROVE others(f) # {}
    BY <1>4, <1>5
  <2>1. PICK b \in DuplicateBlocks(B, syntax, f) : Matches(syntax, b) # {}
    BY DEF DuplicateBlocks
  <2>2. PICK c \in Matches(syntax, b) : TRUE
    BY <2>1
  <2>3. b \in some(f)
    OBVIOUS
  <2>4. c.file \in others(f)
    BY <1>3, <2>2, <2>3
  <2>5. QED  BY <2>4
<1>8. Cardinality(peers) # 1
  <2> SUFFICES ASSUME Cardinality(peers) = 1 PROVE FALSE
    OBVIOUS
  <2>1. IsFiniteSet(peers) /\ peers \subseteq Files
    BY SourcesAssumption, FS_Subset
  <2> HIDE DEF peers
  <2>2. PICK f : peers = {f}
    BY <2>1, FS_Singleton
  <2>3. f \in Files /\ others(f) # {}
    BY <1>4, <2>1, <2>2
  <2>4. PICK g \in others(f) : TRUE
    BY <2>3
  <2>5. QED  BY <1>6, <2>2, <2>3, <2>4
<1>9. \A f \in dup : of[f].group \in 2..Cardinality(dup)
  <2>1. dup = {g \in Files : Cardinality(DuplicateBlocks(B, syntax, g)) > 0}
    BY <1>2
  <2> TAKE f \in dup
  <2>2. f \in Files /\ DuplicateBlocks(B, syntax, f) # {}
    BY <1>5
  <2>3. GroupSize(B, syntax, f) \in 2..Cardinality({g \in Files : Cardinality(DuplicateBlocks(B, syntax, g)) > 0})
    BY <2>2, GroupIs
  <2>4. QED  BY <1>2, <2>1, <2>2, <2>3
<1>10. QED  BY <1>7, <1>8, <1>9 DEF InPairs

-----------------------------------------------------------------------------
(* The theorems about duplicates.                                          *)

LEMMA PairsOfBlocks ==
    ASSUME NEW blocks
    PROVE  /\ SyntaxDuplicates(blocks) \subseteq Range(blocks) \X Range(blocks)
           /\ \A service : SemanticFound(service, blocks) \subseteq Range(blocks) \X Range(blocks)
           /\ \A near \in Near(blocks) : near \subseteq Range(blocks) \X Range(blocks)
<1>1. \A n \in DOMAIN blocks : blocks[n] \in Range(blocks)
  BY DEF Range
<1>2. \A p \in Pairs(blocks) : p[1] \in DOMAIN blocks /\ p[2] \in DOMAIN blocks
  BY DEF Pairs
<1>3. \A p \in Pairs(blocks) : <<blocks[p[1]], blocks[p[2]]>> \in Range(blocks) \X Range(blocks)
  BY <1>1, <1>2
<1>4. SyntaxDuplicates(blocks) \subseteq Range(blocks) \X Range(blocks)
  BY <1>3 DEF SyntaxDuplicates
<1>5. \A service : SemanticFound(service, blocks) \subseteq Range(blocks) \X Range(blocks)
  <2> TAKE service
  <2>1. SemanticDuplicates(service, blocks) \subseteq Range(blocks) \X Range(blocks)
    BY <1>3 DEF SemanticDuplicates
  <2>2. QED  BY <2>1 DEF SemanticFound
<1>6. \A near \in Near(blocks) : near \subseteq Range(blocks) \X Range(blocks)
  <2> TAKE near \in Near(blocks)
  <2>1. near = {} \/ \E p \in Pairs(blocks) : near = {<<blocks[p[1]], blocks[p[2]]>>}
    BY DEF Near
  <2>2. QED  BY <1>3, <2>1
<1>7. QED  BY <1>4, <1>5, <1>6

LEMMA BlocksFound ==
    ASSUME SourcesInv
    PROVE  /\ Blocks(Range(AllBlocks(sources)))
           /\ Range(AllBlocks(sources)) = UNION {FileBlocks(sources, f) : f \in Files}
           /\ \A b \in Range(AllBlocks(sources)) : b.file \in Files /\ b \in FileBlocks(sources, b.file)
<1> DEFINE all == UNION {FileBlocks(sources, f) : f \in Files}
           blocks == AllBlocks(sources)
<1>1. /\ IsFiniteSet(all)
      /\ \A b \in all : b.file \in Files /\ b \in FileBlocks(sources, b.file)
      /\ \A n \in DOMAIN blocks : blocks[n] \in all
      /\ \A b \in all : \E n \in DOMAIN blocks : blocks[n] = b
  BY AllTheBlocks
<1> HIDE DEF all, blocks
<1>2. Range(blocks) = all
  BY <1>1 DEF Range
<1>3. QED  BY <1>1, <1>2 DEF Blocks, all, blocks

\* Whatever the files are, a file has no more duplicate lines than lines of code
\* (DuplicationAnalysisLayer.duplicate_loc_count).
THEOREM LinesAlwaysCountedOnce == Editing => []LinesCountedOnce
<1>1. SourcesInv => LinesCountedOnce
  <2> SUFFICES ASSUME SourcesInv PROVE LinesCountedOnce
    OBVIOUS
  <2> DEFINE blocks == AllBlocks(sources)
             B == Range(blocks)
  <2>1. ASSUME NEW near \in Near(blocks), NEW f \in Files
        PROVE  DuplicateLines(B, SyntaxDuplicates(blocks) \cup near, f) <= Cardinality(CodeOf(sources[f]))
    <3> DEFINE D == DuplicateBlocks(B, SyntaxDuplicates(blocks) \cup near, f)
    <3>1. sources[f] \in Sources
      BY DEF SourcesInv
    <3>2. /\ IsFiniteSet(CodeOf(sources[f]))
          /\ \A b \in ExtractBlocks(sources[f], f) : b.lines \subseteq CodeOf(sources[f])
      BY <3>1, BlocksOfASource
    <3>3. \A b \in D : b \in FileBlocks(sources, f)
      <4>1. \A b \in D : b \in B /\ b.file = f
        BY DEF DuplicateBlocks
      <4>2. QED  BY <4>1, BlocksFound
    <3>4. \A b \in D : b.lines \subseteq CodeOf(sources[f])
      BY <3>2, <3>3 DEF FileBlocks
    <3> HIDE DEF D
    <3>5. UNION {b.lines : b \in D} \subseteq CodeOf(sources[f])
      BY <3>4
    <3>6. Cardinality(UNION {b.lines : b \in D}) <= Cardinality(CodeOf(sources[f]))
      BY <3>2, <3>5, FS_Subset
    <3>7. QED  BY <3>6 DEF DuplicateLines, D
  <2>2. QED  BY <2>1 DEF LinesCountedOnce, CodeOf
<1>2. QED  BY <1>1, SourcesStaySources, PTL

\* Whatever the files are, whichever other blocks are near enough and whatever model
\* the service runs, duplicates are mutual and no group is larger than the files
\* with duplicates (DuplicationAnalysisLayer._add_match, the counts and the group).
THEOREM DuplicatesAlwaysComeInPairs == Editing => []DuplicatesComeInPairs
<1>1. SourcesInv => DuplicatesComeInPairs
  <2> SUFFICES ASSUME SourcesInv PROVE DuplicatesComeInPairs
    OBVIOUS
  <2> DEFINE blocks == AllBlocks(sources)
             B == Range(blocks)
             of(service, near) ==
                 [f \in Files |-> Duplication(service, blocks, SyntaxDuplicates(blocks) \cup near,
                                              SemanticFound(service, blocks) \cup near, f)]
  <2>1. ASSUME NEW service \in Services, NEW near \in Near(blocks)
        PROVE  LET dup   == {f \in Files : of(service, near)[f].blocks > 0}
                   peers == {f \in Files : of(service, near)[f].candidates > 0} IN
               /\ Cardinality(peers) # 1 /\ dup \subseteq peers
               /\ \A f \in dup : of(service, near)[f].group \in 2..Cardinality(dup)
    <3> DEFINE syntax == SyntaxDuplicates(blocks) \cup near
               semantic == SemanticFound(service, blocks) \cup near
               counted == of(service, near)
    <3>1. Blocks(B)
      BY BlocksFound
    <3>2. syntax \subseteq B \X B /\ semantic \subseteq B \X B
      BY PairsOfBlocks
    <3> DEFINE loads == Loads(service)
    <3>3. counted = [f \in Files |-> DuplicationMetrics(B, syntax, semantic, loads, f)]
      BY DEF Duplication
    <3> HIDE DEF syntax, semantic, counted, loads, B, blocks, of
    <3>4. InPairs(counted)
      BY <3>1, <3>2, <3>3, PeersComeInPairs
    <3>5. QED  BY <3>4 DEF counted, InPairs
  <2>2. QED  BY <2>1 DEF DuplicatesComeInPairs
<1>2. QED  BY <1>1, SourcesStaySources, PTL

-----------------------------------------------------------------------------
(* The vector of a text padded on the right is the same in every batch.    *)

Service(service) == service.length \in Nat \ {0} /\ service.limits \subseteq Nat \ {0}

Text(text) == text \in Seq(Int) /\ text # <<>>

LEMMA TruncatedText ==
    ASSUME NEW service, Service(service), NEW text, Text(text)
    PROVE  Text(Truncated(service, text))
<1> DEFINE V == {service.length} \cup service.limits
           k == MaxLength(service)
<1>1. V \subseteq Nat \ {0} /\ V # {}
  BY DEF Service
<1>2. k \in V
  <2> HIDE DEF V
  <2>1. \E x \in V : \A y \in V : x <= y
    BY <1>1, LeastNumber
  <2>2. k = Min(V)
    BY DEF MaxLength, V
  <2>3. QED  BY <2>1, <2>2 DEF Min
<1>3. k \in Nat /\ k > 0
  BY <1>1, <1>2
<1> HIDE DEF k
<1>4. text \in Seq(Int) /\ Len(text) \in Nat /\ Len(text) > 0
  BY DEF Text
<1>5. CASE Len(text) <= k
  BY <1>5 DEF Truncated, k
<1>6. CASE ~ (Len(text) <= k)
  <2>1. Truncated(service, text) = SubSeq(text, 1, k)
    BY <1>6 DEF Truncated, k
  <2>2. SubSeq(text, 1, k) \in Seq(Int) /\ Len(SubSeq(text, 1, k)) = k
    BY <1>3, <1>4, <1>6
  <2>3. QED  BY <1>3, <2>1, <2>2 DEF Text
<1>7. QED  BY <1>5, <1>6

\* Padding on the right moves no token.
LEMMA OnTheRight ==
    ASSUME NEW service, service.side = "right", NEW text, Text(text), NEW width
    PROVE  /\ Shift(service, text, width) = 0
           /\ Attended(service, text, width) = 1..Len(text)
           /\ Len(text) \in Nat /\ Len(text) > 0 /\ Cardinality(1..Len(text)) = Len(text)
<1> DEFINE k == Len(text)
<1>1. k \in Nat /\ k > 0 /\ DOMAIN text = 1..k
  BY DEF Text
<1>2. Shift(service, text, width) = 0
  BY DEF Shift
<1>3. Attended(service, text, width) = {0 + i : i \in 1..k}
  BY <1>1, <1>2 DEF Attended
<1> HIDE DEF k
<1>4. {0 + i : i \in 1..k} = 1..k
  BY <1>1
<1>5. Cardinality(1..k) = k
  BY <1>1, FS_Interval
<1>6. QED  BY <1>1, <1>2, <1>3, <1>4, <1>5 DEF k

\* What is pooled from a text that stands alone.
PlacesAlone(mode, text) ==
    IF mode = "cls" THEN {1} ELSE IF mode = "last_token" THEN {Len(text)} ELSE 1..Len(text)

Alone(mode, text) == Pool(mode, [i \in PlacesAlone(mode, text) |-> Hidden(text, 0, i)])

\* In a batch of texts, the last place is that of a token in every row only if none
\* is padded.
LEMMA PooledAlone ==
    ASSUME NEW mode, NEW text, Text(text), NEW width \in Nat, Len(text) <= width,
           NEW all, all => width \in 1..Len(text)
    PROVE  Places(mode, width, 1..Len(text), all) = PlacesAlone(mode, text)
<1> DEFINE k == Len(text)
           last == IF all THEN width ELSE Cardinality(1..k)
<1>1. k \in Nat /\ k <= width
  BY DEF Text
<1>2. Places(mode, width, 1..k, all) =
         IF mode = "cls" THEN {1} ELSE IF mode = "last_token" THEN {last} ELSE 1..k
  BY DEF Places
<1>3. PlacesAlone(mode, text) =
         IF mode = "cls" THEN {1} ELSE IF mode = "last_token" THEN {k} ELSE 1..k
  BY DEF PlacesAlone
<1>4. all => width \in 1..k
  OBVIOUS
<1> HIDE DEF k
<1>5. last = k
  <2>1. CASE all
    BY <1>1, <1>4, <2>1
  <2>2. CASE ~ all
    <3>1. Cardinality(1..k) = k
      BY <1>1, FS_Interval
    <3>2. QED  BY <2>2, <3>1
  <2>3. QED  BY <2>1, <2>2
<1> HIDE DEF last
<1>6. QED  BY <1>2, <1>3, <1>5 DEF k

\* Sorting the texts loses none of them.
LEMMA SortedByLength ==
    ASSUME NEW N \in Nat, NEW texts, DOMAIN texts = 1..N, \A i \in 1..N : Text(texts[i])
    PROVE  /\ DOMAIN ByLength(texts) = 1..N
           /\ \A n \in 1..N : ByLength(texts)[n] \in 1..N
           /\ \A i \in 1..N : \E n \in 1..N : ByLength(texts)[n] = i
<1> DEFINE S == 1..N
           before == [i \in S |-> Before(texts, i)]
           order == ByLength(texts)
<1>1. IsFiniteSet(S) /\ Cardinality(S) = N
  BY FS_Interval
<1>2. \A i \in S : Len(texts[i]) \in Nat /\ i \in Nat
  BY DEF Text
<1>3. \A i, j \in S : j \in before[i] <=>
         Len(texts[j]) < Len(texts[i]) \/ (Len(texts[j]) = Len(texts[i]) /\ j < i)
  BY DEF Before
<1>4. \A i \in S : before[i] \subseteq S /\ before[i] = Before(texts, i)
  BY DEF Before
<1>5. order = [n \in S |-> CHOOSE i \in S : Cardinality(Before(texts, i)) = n - 1]
  BY DEF ByLength
<1> HIDE DEF S, before, order
<1>6. \A i \in S : before[i] \subseteq S /\ i \notin before[i]
  BY <1>2, <1>3, <1>4
<1>7. \A i, j \in S : i # j => i \in before[j] \/ j \in before[i]
  BY <1>2, <1>3
<1>8. \A i, j \in S : i \in before[j] => before[i] \subseteq before[j]
  <2> TAKE i, j \in S
  <2> HAVE i \in before[j]
  <2> SUFFICES ASSUME NEW h \in before[i] PROVE h \in before[j]
    OBVIOUS
  <2>1. h \in S
    BY <1>4
  <2>2. QED  BY <1>2, <1>3, <2>1
<1>9. /\ {Cardinality(before[i]) : i \in S} = 0..(N - 1)
      /\ \A i, j \in S : Cardinality(before[i]) = Cardinality(before[j]) => i = j
  BY <1>1, <1>6, <1>7, <1>8, RanksNumber
<1>10. ASSUME NEW n \in S
       PROVE  order[n] \in S /\ Cardinality(before[order[n]]) = n - 1
  <2>1. n - 1 \in 0..(N - 1)
    BY DEF S
  <2>2. \E i \in S : Cardinality(before[i]) = n - 1
    BY <1>9, <2>1
  <2>3. \E i \in S : Cardinality(Before(texts, i)) = n - 1
    BY <1>4, <2>2
  <2>4. order[n] = CHOOSE i \in S : Cardinality(Before(texts, i)) = n - 1
    BY <1>5
  <2>5. order[n] \in S /\ Cardinality(Before(texts, order[n])) = n - 1
    BY <2>3, <2>4
  <2>6. QED  BY <1>4, <2>5
<1>11. ASSUME NEW i \in S PROVE \E n \in S : order[n] = i
  <2> DEFINE n == Cardinality(before[i]) + 1
  <2>1. Cardinality(before[i]) \in 0..(N - 1)
    BY <1>9
  <2>2. n \in S /\ n - 1 = Cardinality(before[i])
    BY <2>1 DEF S
  <2> HIDE DEF n
  <2>3. order[n] = i
    BY <1>9, <1>10, <2>2
  <2>4. QED  BY <2>2, <2>3
<1>12. QED  BY <1>5, <1>10, <1>11 DEF S, order

LEMMA VectorIsAlone ==
    ASSUME NEW service, service.side = "right", NEW N \in Nat, NEW texts,
           DOMAIN texts = 1..N, \A i \in 1..N : Text(texts[i]), NEW n \in 1..N
    PROVE  Vector(service, texts, BatchOf(texts, n), n) = Alone(PoolingMode(service), texts[n])
<1> DEFINE batch == BatchOf(texts, n)
           length == [m \in batch |-> Len(texts[m])]
           lengths == {Len(texts[m]) : m \in batch}
           width == Max(lengths)
           attended == Attended(service, texts[n], width)
           all == \A m \in batch : width \in Attended(service, texts[m], width)
           places == Places(PoolingMode(service), width, attended, all)
<1>1. batch \subseteq 1..N /\ n \in batch
  BY DEF BatchOf
<1>2. \A m \in batch : Text(texts[m]) /\ Len(texts[m]) \in Nat
  BY <1>1 DEF Text
<1>3. \A y \in lengths : \E m \in batch : y = length[m]
  OBVIOUS
<1>4. \A m \in batch : Len(texts[m]) \in lengths
  OBVIOUS
<1>5. lengths \subseteq Nat
  BY <1>2
<1>6. Vector(service, texts, batch, n) =
         Pool(PoolingMode(service),
              [i \in places |-> Hidden(texts[n], Shift(service, texts[n], width), i)])
  BY DEF Vector
<1>7. all => width \in attended
  BY <1>1
<1> HIDE DEF batch, length, lengths
<1>8. IsFiniteSet(lengths)
  <2>1. IsFiniteSet(1..N)
    BY FS_Interval
  <2>2. IsFiniteSet(batch)
    BY <1>1, <2>1, FS_Subset
  <2>3. QED  BY <1>3, <2>2, FiniteImage
<1>9. width \in Nat /\ Len(texts[n]) <= width
  <2>1. lengths \subseteq Int /\ lengths # {}
    BY <1>1, <1>4, <1>5
  <2>2. width \in lengths /\ \A v \in lengths : v <= width
    BY <1>8, <2>1, MaxIs
  <2>3. QED  BY <1>1, <1>4, <1>5, <2>2
<1> HIDE DEF width, all
<1>10. Text(texts[n])
  OBVIOUS
<1>11. Shift(service, texts[n], width) = 0 /\ attended = 1..Len(texts[n])
  BY <1>10, OnTheRight
<1> HIDE DEF attended
<1>12. Places(PoolingMode(service), width, 1..Len(texts[n]), all) = PlacesAlone(PoolingMode(service), texts[n])
  BY <1>7, <1>9, <1>10, <1>11, PooledAlone
<1>13. places = PlacesAlone(PoolingMode(service), texts[n])
  BY <1>11, <1>12
<1> HIDE DEF places
<1>14. QED  BY <1>6, <1>11, <1>13 DEF Alone, batch

LEMMA EncodedAlone ==
    ASSUME NEW service, Service(service), service.side = "right", NEW N \in Nat, NEW texts,
           DOMAIN texts = 1..N, \A i \in 1..N : Text(texts[i]), NEW i \in 1..N
    PROVE  Encode(service, texts)[i] = Alone(PoolingMode(service), Truncated(service, texts[i]))
<1> DEFINE order == ByLength(texts)
           cut == [n \in DOMAIN texts |-> Truncated(service, texts[order[n]])]
           vectors == InBatches(service, texts)
           n == CHOOSE k \in DOMAIN order : order[k] = i
<1>1. /\ DOMAIN order = 1..N /\ \A k \in 1..N : order[k] \in 1..N
      /\ \E k \in 1..N : order[k] = i
  BY SortedByLength
<1>2. n \in 1..N /\ order[n] = i
  BY <1>1
<1>3. Encode(service, texts)[i] = vectors[n]
  BY <1>1 DEF Encode, Restored
<1>4. vectors[n] = Vector(service, cut, BatchOf(cut, n), n)
  BY <1>2 DEF InBatches
<1>5. DOMAIN cut = 1..N /\ cut[n] = Truncated(service, texts[i])
  BY <1>2
<1>6. \A k \in 1..N : Text(cut[k])
  BY <1>1, TruncatedText
<1> HIDE DEF order, cut, vectors, n
<1>7. Vector(service, cut, BatchOf(cut, n), n) = Alone(PoolingMode(service), cut[n])
  BY <1>2, <1>5, <1>6, VectorIsAlone
<1>8. QED  BY <1>3, <1>4, <1>5, <1>7

-----------------------------------------------------------------------------
(* Copies.                                                                 *)

LEMMA TextOfLines ==
    ASSUME NEW lines \in Seq(DOMAIN Tokens), NEW n \in DOMAIN lines, lines[n] # Blank
    PROVE  Text(EmbeddingText(lines))
<1> DEFINE filled == {m \in DOMAIN lines : lines[m] # Blank}
           low == Min(filled)
           high == Max(filled)
           kept == SubSeq(lines, low, high)
<1>1. DOMAIN lines = 1..Len(lines) /\ Len(lines) \in Nat
  OBVIOUS
<1>2. filled \subseteq 1..Len(lines) /\ n \in filled
  BY <1>1
<1>3. IsFiniteSet(filled)
  <2> HIDE DEF filled
  <2>1. IsFiniteSet(1..Len(lines))
    BY <1>1, FS_Interval
  <2>2. QED  BY <1>2, <2>1, FS_Subset
<1>4. EmbeddingText(lines) = [m \in DOMAIN kept |-> Word[kept[m]]]
  BY <1>2 DEF EmbeddingText
<1> HIDE DEF filled
<1>5. high \in filled /\ \A m \in filled : m <= high
  BY <1>1, <1>2, <1>3, MaxIs
<1>6. low \in filled
  <2>1. \E x \in filled : \A y \in filled : x <= y
    BY <1>1, <1>2, LeastNumber
  <2>2. QED  BY <2>1 DEF Min
<1>7. low \in filled /\ high \in filled /\ low <= high
  BY <1>5, <1>6
<1> HIDE DEF low, high
<1>8. low \in 1..Len(lines) /\ high \in 1..Len(lines) /\ low <= high
  BY <1>2, <1>7
<1>9. kept \in Seq(DOMAIN Tokens) /\ Len(kept) = (high - low) + 1 /\ DOMAIN kept = 1..Len(kept)
  BY <1>1, <1>8
<1> HIDE DEF kept
<1>10. Len(kept) \in Nat /\ 1 \in DOMAIN kept
  BY <1>8, <1>9
<1>11. \A m \in DOMAIN kept : Word[kept[m]] \in Int
  BY <1>9, SourcesAssumption
<1>12. [m \in DOMAIN kept |-> Word[kept[m]]] \in Seq(Int)
  BY <1>9, <1>10, <1>11
<1>13. [m \in DOMAIN kept |-> Word[kept[m]]] # <<>>
  BY <1>10
<1>14. QED  BY <1>4, <1>12, <1>13 DEF Text

LEMMA TextOfABlock ==
    ASSUME NEW source \in Sources, NEW f, NEW first \in Nat, NEW last \in Nat,
           1 <= first, last <= Len(source.lines), NEW b, LargeEnough(b),
           b.lines = CodeLines(source, first, last), b.text = EmbeddingText(LinesOf(source, first, last))
    PROVE  Text(b.text)
<1> DEFINE lines == LinesOf(source, first, last)
<1>1. source.lines \in Seq(DOMAIN Tokens) /\ Len(source.lines) \in Nat
  BY DEF Sources
<1>2. b.lines # {}
  <2>1. b.lines = {} => Cardinality(b.lines) = 0
    BY FS_EmptySet
  <2>2. Cardinality(b.lines) >= MinLines /\ MinLines \in Nat \ {0}
    BY SourcesAssumption DEF LargeEnough
  <2>3. QED  BY <2>1, <2>2
<1>3. PICK n \in first..last : Tokens[source.lines[n]] # <<>>
  BY <1>2 DEF CodeLines
<1>4. source.lines[n] # Blank
  BY <1>3, SourcesAssumption
<1>5. lines = SubSeq(source.lines, first, last)
  BY DEF LinesOf
<1> HIDE DEF lines
<1>6. /\ lines \in Seq(DOMAIN Tokens) /\ DOMAIN lines = 1..((last - first) + 1)
      /\ \A m \in 1..((last - first) + 1) : lines[m] = source.lines[first + m - 1]
  BY <1>1, <1>3, <1>5
<1>7. /\ (n - first) + 1 \in 1..((last - first) + 1) /\ first + ((n - first) + 1) - 1 = n
  BY <1>3
<1>8. lines[(n - first) + 1] = source.lines[n]
  BY <1>6, <1>7
<1>9. Text(EmbeddingText(lines))
  BY <1>4, <1>6, <1>7, <1>8, TextOfLines
<1>10. QED  BY <1>9 DEF lines

\* The block of another file there would be, with the same lines.
InFile(b, g) == [b EXCEPT !.file = g]

LEMMA CopiedBlocks ==
    ASSUME NEW source \in Sources, NEW f, NEW g
    PROVE  \A b \in ExtractBlocks(source, f) :
               /\ Text(b.text)
               /\ InFile(b, g) \in ExtractBlocks(source, g)
               /\ InFile(b, g).tokens = b.tokens /\ InFile(b, g).text = b.text
<1> DEFINE C == Candidates(source)
           whole == Candidate("module", 1, Len(source.lines))
           found(h) == {Block(source, h, c) : c \in C}
<1>1. /\ Len(source.lines) \in Nat
      /\ \A c \in C : c.first \in Nat /\ c.last \in Nat /\ 1 <= c.first /\ c.last <= Len(source.lines)
  BY CandidatesOfASource, SourceFacts
<1>2. \A h : ExtractBlocks(source, h) =
        IF \E b \in found(h) : LargeEnough(b) THEN {b \in found(h) : LargeEnough(b)}
        ELSE {b \in {Block(source, h, whole)} : LargeEnough(b)}
  BY DEF ExtractBlocks, Candidates
<1>3. whole.first = 1 /\ whole.last = Len(source.lines)
  BY DEF Candidate
<1>4. \A c : /\ InFile(Block(source, f, c), g) = Block(source, g, c)
             /\ Block(source, g, c).tokens = Block(source, f, c).tokens
             /\ Block(source, g, c).text = Block(source, f, c).text
             /\ Block(source, f, c).lines = CodeLines(source, c.first, c.last)
             /\ Block(source, f, c).text = EmbeddingText(LinesOf(source, c.first, c.last))
  BY DEF Block, InFile
<1>5. \A c : LargeEnough(Block(source, f, c)) <=> LargeEnough(Block(source, g, c))
  BY DEF Block, LargeEnough
<1> HIDE DEF C, whole
<1>6. (\E b \in found(f) : LargeEnough(b)) <=> (\E b \in found(g) : LargeEnough(b))
  BY <1>5
<1>7. ASSUME NEW b \in ExtractBlocks(source, f)
      PROVE  /\ LargeEnough(b)
             /\ \E c \in C \cup {whole} : b = Block(source, f, c) /\ Block(source, g, c) \in ExtractBlocks(source, g)
  <2>1. CASE \E x \in found(f) : LargeEnough(x)
    <3>1. b \in found(f) /\ LargeEnough(b)
      BY <1>2, <2>1
    <3>2. PICK c \in C : b = Block(source, f, c)
      BY <3>1
    <3>3. Block(source, g, c) \in found(g) /\ LargeEnough(Block(source, g, c))
      BY <1>5, <3>1, <3>2
    <3>4. Block(source, g, c) \in ExtractBlocks(source, g)
      BY <1>2, <3>3
    <3>5. QED  BY <3>1, <3>2, <3>4
  <2>2. CASE ~ \E x \in found(f) : LargeEnough(x)
    <3>1. b = Block(source, f, whole) /\ LargeEnough(b)
      BY <1>2, <2>2
    <3>2. Block(source, g, whole) \in ExtractBlocks(source, g)
      BY <1>2, <1>5, <1>6, <2>2, <3>1
    <3>3. QED  BY <3>1, <3>2
  <2>3. QED  BY <2>1, <2>2
<1>8. ASSUME NEW b \in ExtractBlocks(source, f)
      PROVE  /\ Text(b.text)
             /\ InFile(b, g) \in ExtractBlocks(source, g)
             /\ InFile(b, g).tokens = b.tokens /\ InFile(b, g).text = b.text
  <2>1. PICK c \in C \cup {whole} : b = Block(source, f, c) /\ Block(source, g, c) \in ExtractBlocks(source, g)
    BY <1>7
  <2>2. LargeEnough(b)
    BY <1>7
  <2>3. c.first \in Nat /\ c.last \in Nat /\ 1 <= c.first /\ c.last <= Len(source.lines)
    BY <1>1, <1>3
  <2>4. Text(b.text)
    BY <1>4, <2>1, <2>2, <2>3, TextOfABlock
  <2>5. QED  BY <1>4, <2>1, <2>4
<1>9. QED  BY <1>8

\* The copied blocks with certain texts have duplicates, if those with the same tokens
\* and the same such text are alike and others are not.
LEMMA CopiesMatch ==
    ASSUME SourcesInv, NEW f \in Files, NEW g \in Files, f # g, sources[f] = sources[g], NEW texts,
           NEW alike, alike \subseteq Range(AllBlocks(sources)) \X Range(AllBlocks(sources)),
           \A a, b : <<a, b>> \in alike => a.text \in texts /\ b.text \in texts,
           \A p \in Pairs(AllBlocks(sources)) :
               LET a == AllBlocks(sources)[p[1]]
                   b == AllBlocks(sources)[p[2]] IN
               a.tokens = b.tokens /\ a.text = b.text /\ a.text \in texts => <<a, b>> \in alike
    PROVE  LET own == {b \in FileBlocks(sources, f) : b.text \in texts} IN
           /\ DuplicateBlocks(Range(AllBlocks(sources)), alike, f) = own
           /\ own # {} => ~ (Cardinality(Range(AllBlocks(sources))) < 2)
<1> DEFINE blocks == AllBlocks(sources)
           B == Range(blocks)
           N == DOMAIN blocks
           own == {b \in FileBlocks(sources, f) : b.text \in texts}
<1>1. /\ Blocks(B) /\ \A b \in B : b.file \in Files /\ b \in FileBlocks(sources, b.file)
      /\ B = UNION {FileBlocks(sources, h) : h \in Files}
  BY BlocksFound
<1>2. N \subseteq Nat /\ \A b \in B : \E n \in N : blocks[n] = b
  <2>1. N \subseteq Nat
    BY AllTheBlocks
  <2>2. QED  BY <2>1 DEF Range
<1>3. /\ alike \subseteq B \X B
      /\ \A i, j \in N : i < j /\ blocks[i].tokens = blocks[j].tokens /\ blocks[i].text = blocks[j].text
            /\ blocks[i].text \in texts => <<blocks[i], blocks[j]>> \in alike
  <2> SUFFICES ASSUME NEW i \in N, NEW j \in N, i < j,
                      blocks[i].tokens = blocks[j].tokens, blocks[i].text = blocks[j].text,
                      blocks[i].text \in texts
               PROVE  <<blocks[i], blocks[j]>> \in alike
    OBVIOUS
  <2> DEFINE p == <<i, j>>
  <2>1. p \in Pairs(blocks) /\ p[1] = i /\ p[2] = j
    BY DEF Pairs
  <2> HIDE DEF p
  <2>2. QED  BY <2>1
<1>4. sources[f] \in Sources
  BY DEF SourcesInv
<1> HIDE DEF B, N, blocks
<1>5. ASSUME NEW b \in FileBlocks(sources, f), b.text \in texts
      PROVE  b \in B /\ b.file = f /\ \E c \in Matches(alike, b) : c \in B /\ c # b
  <2> DEFINE c == InFile(b, g)
  <2>1. /\ sources[f].parses /\ sources[g].parses /\ b \in ExtractBlocks(sources[f], f)
        /\ FileBlocks(sources, g) = ExtractBlocks(sources[f], g)
    BY DEF FileBlocks
  <2>2. c \in ExtractBlocks(sources[f], g) /\ c.tokens = b.tokens /\ c.text = b.text
    BY <1>4, <2>1, CopiedBlocks
  <2>3. b.file = f /\ c.file = g
    BY <1>4, <2>1, <2>2, BlocksOfASource
  <2> HIDE DEF c
  <2>4. b \in B /\ c \in B
    BY <1>1, <2>1, <2>2
  <2>5. PICK i \in N : blocks[i] = b
    BY <1>2, <2>4
  <2>6. PICK j \in N : blocks[j] = c
    BY <1>2, <2>4
  <2>7. i < j \/ j < i
    BY <1>2, <2>3, <2>5, <2>6
  <2>8. <<b, c>> \in alike \/ <<c, b>> \in alike
    BY <1>3, <1>5, <2>2, <2>5, <2>6, <2>7
  <2>9. c \in Matches(alike, b)
    BY <1>3, <2>3, <2>8, MatchesAre
  <2>10. QED  BY <2>3, <2>4, <2>9
<1>6. DuplicateBlocks(B, alike, f) = own
  <2>1. ASSUME NEW b \in DuplicateBlocks(B, alike, f) PROVE b \in own
    <3>1. b \in B /\ b.file = f /\ \E c : c \in Matches(alike, b)
      BY DEF DuplicateBlocks
    <3>2. PICK c : c \in Matches(alike, b)
      BY <3>1
    <3>3. alike \subseteq B \X B
      BY <1>3
    <3>4. <<b, c>> \in alike \/ <<c, b>> \in alike
      BY <3>2, <3>3, MatchesAre
    <3>5. b.text \in texts
      BY <3>4
    <3>6. QED  BY <1>1, <3>1, <3>5
  <2>2. \A b \in own : b \in DuplicateBlocks(B, alike, f)
    BY <1>5 DEF DuplicateBlocks
  <2>3. QED  BY <2>1, <2>2
<1>7. ASSUME NEW b \in own PROVE ~ (Cardinality(B) < 2)
  <2>1. b \in B /\ \E c \in B : c # b
    BY <1>5
  <2>2. PICK c \in B : c # b
    BY <2>1
  <2>3. IsFiniteSet(B)
    BY <1>1 DEF Blocks
  <2>4. IsFiniteSet(B \ {b}) /\ Cardinality(B \ {b}) = Cardinality(B) - 1
    BY <2>1, <2>3, FS_RemoveElement
  <2>5. Cardinality(B \ {b}) \in Nat /\ Cardinality(B \ {b}) # 0 /\ Cardinality(B) \in Nat
    BY <2>2, <2>3, <2>4, FS_EmptySet, FS_CardinalityType
  <2>6. QED  BY <2>4, <2>5
<1>8. QED  BY <1>6, <1>7 DEF B, blocks

\* What a text comes to when it is encoded alone.
VectorOf(service, text) == Encode(service, <<text>>)[1]

LEMMA CopiesSemantic ==
    ASSUME SourcesInv, NEW service \in Services, Loads(service), service.side = "right"
    PROVE  LET blocks == AllBlocks(sources)
               found  == SemanticFound(service, blocks) IN
           /\ \A a, b : <<a, b>> \in found =>
                  VectorOf(service, a.text) # 0 /\ VectorOf(service, b.text) # 0
           /\ \A p \in Pairs(blocks) :
                  LET a == blocks[p[1]]
                      b == blocks[p[2]] IN
                  a.text = b.text /\ VectorOf(service, a.text) # 0 => <<a, b>> \in found
<1> DEFINE blocks == AllBlocks(sources)
           texts == [i \in DOMAIN blocks |-> blocks[i].text]
           vectors == Encode(service, texts)
<1>1. PICK N \in Nat : DOMAIN blocks = 1..N
  BY AllTheBlocks
<1>2. ASSUME NEW i \in 1..N PROVE Text(blocks[i].text)
  <2>1. blocks[i] \in Range(blocks)
    BY <1>1 DEF Range
  <2>2. blocks[i].file \in Files /\ blocks[i] \in FileBlocks(sources, blocks[i].file)
    BY <2>1, BlocksFound
  <2>3. blocks[i] \in ExtractBlocks(sources[blocks[i].file], blocks[i].file)
    BY <2>2 DEF FileBlocks
  <2>4. sources[blocks[i].file] \in Sources
    BY <2>2 DEF SourcesInv
  <2>5. QED  BY <2>3, <2>4, CopiedBlocks
<1>3. Len(blocks) = N
  <2> DEFINE all == UNION {FileBlocks(sources, f) : f \in DOMAIN sources}
             block(i) == CHOOSE b \in all : Cardinality({a \in all : Earlier(a, b)}) = i - 1
  <2>1. blocks = [i \in 1..Cardinality(all) |-> block(i)]
    BY DEF AllBlocks
  <2> HIDE DEF blocks, all, block
  <2>2. blocks = [i \in 1..N |-> blocks[i]]
    BY <1>1, <2>1
  <2>3. blocks \in Seq({blocks[i] : i \in 1..N})
    BY <2>2
  <2>4. QED  BY <1>1, <2>3
<1>4. Service(service)
  BY SourcesAssumption DEF Service
<1>5. \A q \in Pairs(blocks) : q[1] \in 1..N /\ q[2] \in 1..N /\ q[1] < q[2]
  BY <1>1 DEF Pairs
<1>6. \A i \in 1..N : vectors[i] = VectorOf(service, blocks[i].text)
  <2> SUFFICES ASSUME NEW i \in 1..N PROVE vectors[i] = VectorOf(service, blocks[i].text)
    OBVIOUS
  <2>1. DOMAIN texts = 1..N /\ \A j \in 1..N : texts[j] = blocks[j].text
    BY <1>1
  <2> DEFINE text == blocks[i].text
  <2>2. texts[i] = text /\ Text(text)
    BY <1>2, <2>1
  <2>3. \A j \in 1..N : Text(texts[j])
    BY <1>2, <2>1
  <2> HIDE DEF texts, blocks, text
  <2>4. vectors[i] = Alone(PoolingMode(service), Truncated(service, text))
    BY <1>4, <2>1, <2>2, <2>3, EncodedAlone
  <2>5. VectorOf(service, text) = Alone(PoolingMode(service), Truncated(service, text))
    <3> DEFINE one == <<text>>
    <3>1. PICK M \in Nat : M = 1
      OBVIOUS
    <3>2. DOMAIN one = 1..M /\ one[1] = text /\ 1 \in 1..M /\ \A j \in 1..M : j = 1
      BY <3>1
    <3>3. VectorOf(service, text) = Encode(service, one)[1]
      BY DEF VectorOf
    <3> HIDE DEF one
    <3>4. \A j \in 1..M : Text(one[j])
      BY <2>2, <3>2
    <3>5. Encode(service, one)[1] = Alone(PoolingMode(service), Truncated(service, one[1]))
      BY <1>4, <3>2, <3>4, EncodedAlone
    <3>6. QED  BY <3>2, <3>3, <3>5
  <2>6. QED  BY <2>4, <2>5 DEF text
<1>7. Len(blocks) > 1 =>
         SemanticFound(service, blocks) =
            {<<blocks[q[1]], blocks[q[2]]>> : q \in {r \in Pairs(blocks) : Similar(vectors[r[1]], vectors[r[2]])}}
  BY DEF SemanticFound, SemanticDuplicates
<1>8. ~ (Len(blocks) > 1) => SemanticFound(service, blocks) = {}
  BY DEF SemanticFound
<1> DEFINE found == SemanticFound(service, blocks)
<1> HIDE DEF vectors, texts, blocks, found
<1>9. ASSUME NEW a, NEW b, <<a, b>> \in found
      PROVE  VectorOf(service, a.text) # 0 /\ VectorOf(service, b.text) # 0
  <2>1. PICK q \in Pairs(blocks) : /\ <<a, b>> = <<blocks[q[1]], blocks[q[2]]>>
                                   /\ Similar(vectors[q[1]], vectors[q[2]])
    BY <1>7, <1>8, <1>9 DEF found
  <2>2. a = blocks[q[1]] /\ b = blocks[q[2]]
    BY <2>1
  <2>3. vectors[q[1]] = VectorOf(service, a.text) /\ vectors[q[2]] = VectorOf(service, b.text)
    BY <1>5, <1>6, <2>2
  <2>4. QED  BY <2>1, <2>3 DEF Similar
<1>10. ASSUME NEW p \in Pairs(blocks), blocks[p[1]].text = blocks[p[2]].text,
              VectorOf(service, blocks[p[1]].text) # 0
       PROVE  <<blocks[p[1]], blocks[p[2]]>> \in found
  <2>1. Similar(vectors[p[1]], vectors[p[2]])
    BY <1>5, <1>6, <1>10 DEF Similar
  <2>2. Len(blocks) > 1
    BY <1>3, <1>5
  <2>3. QED  BY <1>7, <2>1, <2>2 DEF found
<1>11. QED  BY <1>9, <1>10 DEF found, blocks

\* Whatever the files are, a copied file is found out, by its tokens and, whatever
\* model runs, pools, limits and batches, if it pads on the right, by the embeddings of
\* all blocks that have one (DuplicationAnalysisLayer.run, CodeEmbeddingService.encode).
THEOREM CopiesAlwaysFound == Editing => []CopiesAreFound
<1>1. SourcesInv => CopiesAreFound
  <2> DEFINE vectored(service, f) ==
                 {b \in FileBlocks(sources, f) : VectorOf(service, b.text) # 0}
  <2> SUFFICES ASSUME SourcesInv, NEW service \in Services, NEW f \in Files, NEW g \in Files,
                      f # g, sources[f] = sources[g], Cardinality(FileBlocks(sources, f)) > 0
               PROVE  LET blocks   == AllBlocks(sources)
                          syntax   == SyntaxDuplicates(blocks)
                          semantic == SemanticFound(service, blocks)
                          own      == Cardinality(FileBlocks(sources, f))
                          counted  == Duplication(service, blocks, syntax, semantic, f) IN
                      /\ counted.blocks = own /\ counted.group > 1
                      /\ ~ Loads(service) => counted.semantic_blocks = NoMetric
                      /\ Loads(service) /\ service.side = "right" =>
                            counted.semantic_blocks = Cardinality(vectored(service, f))
    BY DEF CopiesAreFound, VectorOf
  <2> DEFINE blocks   == AllBlocks(sources)
             B        == Range(blocks)
             syntax   == SyntaxDuplicates(blocks)
             semantic == SemanticFound(service, blocks)
             counted  == Duplication(service, blocks, syntax, semantic, f)
             own      == FileBlocks(sources, f)
             texts    == {b.text : b \in B}
             vectors  == {t \in texts : VectorOf(service, t) # 0}
             right    == service.side = "right"
  <2>1. /\ Blocks(B) /\ syntax \subseteq B \X B /\ semantic \subseteq B \X B
        /\ \A b \in own : b.text \in texts
        /\ \A a, b : <<a, b>> \in B \X B => a.text \in texts /\ b.text \in texts
    <3>1. \A b \in own : b \in B
      BY BlocksFound
    <3>2. \A b \in B : b.text \in texts
      OBVIOUS
    <3> HIDE DEF texts
    <3>3. QED  BY <3>1, <3>2, BlocksFound, PairsOfBlocks
  <2>2. DuplicateBlocks(B, syntax, f) = own /\ ~ (Cardinality(B) < 2)
    <3>1. \A p \in Pairs(blocks) :
             LET a == blocks[p[1]]
                 b == blocks[p[2]] IN
             a.tokens = b.tokens /\ a.text = b.text /\ a.text \in texts => <<a, b>> \in syntax
      BY DEF SyntaxDuplicates
    <3>2. \A a, b : <<a, b>> \in syntax => a.text \in texts /\ b.text \in texts
      BY <2>1
    <3>3. own # {} /\ own = {b \in own : b.text \in texts}
      <4>1. own # {}
        <5>1. own = {} => Cardinality(own) = 0
          BY FS_EmptySet
        <5>2. QED  BY <5>1
      <4> HIDE DEF own, texts
      <4>2. QED  BY <2>1, <4>1
    <3> HIDE DEF texts, syntax
    <3>4. LET those == {b \in FileBlocks(sources, f) : b.text \in texts} IN
          /\ DuplicateBlocks(B, syntax, f) = those
          /\ those # {} => ~ (Cardinality(B) < 2)
      BY <2>1, <3>1, <3>2, CopiesMatch
    <3>5. QED  BY <3>3, <3>4
  <2>3. ASSUME Loads(service), right
        PROVE  DuplicateBlocks(B, semantic, f) = vectored(service, f)
    <3>1. /\ \A a, b : <<a, b>> \in semantic =>
                 VectorOf(service, a.text) # 0 /\ VectorOf(service, b.text) # 0
          /\ \A p \in Pairs(blocks) :
                 LET a == blocks[p[1]]
                     b == blocks[p[2]] IN
                 a.text = b.text /\ VectorOf(service, a.text) # 0 => <<a, b>> \in semantic
      BY <2>3, CopiesSemantic
    <3>2. \A a, b : <<a, b>> \in semantic => a.text \in vectors /\ b.text \in vectors
      BY <2>1, <3>1
    <3>3. \A p \in Pairs(blocks) :
             LET a == blocks[p[1]]
                 b == blocks[p[2]] IN
             a.tokens = b.tokens /\ a.text = b.text /\ a.text \in vectors => <<a, b>> \in semantic
      BY <3>1
    <3>4. vectored(service, f) = {b \in own : b.text \in vectors}
      BY <2>1
    <3> HIDE DEF vectors, semantic
    <3>5. DuplicateBlocks(B, semantic, f) = {b \in FileBlocks(sources, f) : b.text \in vectors}
      BY <2>1, <3>2, <3>3, CopiesMatch
    <3>6. QED  BY <3>4, <3>5
  <2>4. GroupSize(B, syntax, f) > 1
    <3>1. DuplicateBlocks(B, syntax, f) # {}
      BY <2>2, FS_EmptySet
    <3> DEFINE most == Cardinality({h \in Files : Cardinality(DuplicateBlocks(B, syntax, h)) > 0})
    <3> HIDE DEF B, syntax
    <3>2. GroupSize(B, syntax, f) \in 2..most
      BY <2>1, <3>1, GroupIs
    <3> HIDE DEF most
    <3>3. QED  BY <3>2
  <2>5. /\ counted.blocks = Cardinality(DuplicateBlocks(B, syntax, f))
        /\ counted.group = GroupSize(B, syntax, f)
        /\ counted.semantic_blocks =
              IF Loads(service) \/ Cardinality(B) < 2
              THEN Cardinality(DuplicateBlocks(B, IF Loads(service) \/ Cardinality(B) < 2 THEN semantic ELSE {}, f))
              ELSE NoMetric
    BY DEF Duplication, DuplicationMetrics
  <2> DEFINE most == vectored(service, f)
  <2>6. Loads(service) /\ right => DuplicateBlocks(B, semantic, f) = most
    BY <2>3
  <2> HIDE DEF blocks, B, syntax, semantic, counted, own, most, right
  <2>7. /\ counted.blocks = Cardinality(own) /\ counted.group > 1
        /\ ~ Loads(service) => counted.semantic_blocks = NoMetric
        /\ Loads(service) /\ right => counted.semantic_blocks = Cardinality(most)
    BY <2>2, <2>4, <2>5, <2>6
  <2>8. QED  BY <2>7 DEF blocks, syntax, semantic, counted, own, most, right
<1>2. QED  BY <1>1, SourcesStaySources, PTL
=============================================================================
