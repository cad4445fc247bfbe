-------------------------- MODULE ScanResultsProofs --------------------------
(***************************************************************************)
(* What is stored of a scan is complete, or it is nothing: for any number  *)
(* of files and failures, whatever repository, order of the thread pool    *)
(* and ids of the files, and wherever the scan is deleted.                 *)
(***************************************************************************)
EXTENDS ScanResults, Counting, FunctionTheorems, SequenceTheorems

(* The invariant.                                                          *)

Layers == {"static", "duplication", "architecture", "decision"}

AnyVector ==
    [layer : Layers, file : Paths \cup {NoFile}, ok : BOOLEAN]
      \cup [layer : {"history"}, file : Paths, ok : BOOLEAN, read : 0..MaxCommits]

\* Every file has a vector of the layer.
Covered(layer) == \A f \in Paths : \E v \in ToSet(vectors) : v.layer = layer /\ v.file = f

\* A stage that is over has handed in a vector for every file.
StagesCover ==
    /\ stage \in {"architecture", "decision", "store", "done"} => Covered("duplication")
    /\ stage \in {"decision", "store", "done"} => Covered("architecture")
    /\ stage \in {"store", "done"} => Covered("decision")

\* What is stored was stored at the end, from all vectors.
StoredAtTheEnd ==
    \/ rows = NoResults
    \/ /\ stage = "done"
       /\ \E ids \in SetToSeqs(Paths) : rows = Results(vectors, ids)

\* Of each layer a file has one vector at most, which the layer handed in when it
\* was its turn.
VectorsOnce ==
    /\ \A v, w \in ToSet(vectors) : v.file = w.file /\ v.layer = w.layer => v = w
    /\ \A v \in ToSet(vectors) :
        /\ v.layer \in {"static", "history"} => v.file \notin waiting
        /\ v.layer = "duplication" => stage \notin {"idle", "files", "duplication"}
        /\ v.layer = "architecture" => stage \in {"decision", "store", "done", "failed"}
        /\ v.layer = "decision" => stage \in {"store", "done"}

\* The developers' view has no other vectors, and all of them if nothing failed.
VectorsShown ==
    /\ visual \subseteq ToSet(vectors)
    /\ stage \in {"idle", "files"} => visual = {}
    /\ faults \in Nat
    /\ faults = 0 /\ scan /\ stage \notin {"idle", "files"} => visual = ToSet(vectors)

ResultsInv ==
    /\ vectors \in Seq(AnyVector)
    /\ StagesCover
    /\ StoredAtTheEnd
    /\ DeletedScanLeavesNothing

-----------------------------------------------------------------------------
(* Sequences.                                                              *)

\* A repository has finitely many files.
LEMMA FinitelyManyFiles == IsFiniteSet(Paths) /\ Cardinality(Paths) \in Nat
<1>1. Files \in [1..Len(Files) -> Paths] /\ Len(Files) \in Nat
  BY ScanResultsAssumption, LenProperties
<1>2. Files \in Surjection(1..Len(Files), Paths)
  BY <1>1 DEF Surjection, Paths, ToSet
<1>3. IsFiniteSet(1..Len(Files))
  BY <1>1, FS_Interval
<1>4. QED  BY <1>2, <1>3, FS_Surjection, FS_CardinalityType

\* What merged results (_merge_results of ScanPipeline) consist of.
LEMMA MergedVectors ==
    ASSUME NEW S, NEW s \in Seq(S), NEW t \in Seq(S)
    PROVE  s \o t \in Seq(S) /\ ToSet(s \o t) = ToSet(s) \cup ToSet(t)
<1>1. s \o t \in Seq(S)
  BY ConcatProperties
<1>2. \A seq \in Seq(S) : ToSet(seq) = Range(seq)
  BY DEF ToSet, Range
<1>3. Range(s \o t) = Range(s) \cup Range(t)
  BY RangeConcatenation
<1>4. QED  BY <1>1, <1>2, <1>3

LEMMA AppendedVector ==
    ASSUME NEW S, NEW s \in Seq(S), NEW x \in S
    PROVE  Append(s, x) \in Seq(S) /\ ToSet(Append(s, x)) = ToSet(s) \cup {x}
<1>1. <<x>> \in Seq(S) /\ ToSet(<<x>>) = {x}
  BY DEF ToSet
<1>2. Append(s, x) = s \o <<x>>
  BY AppendIsConcat
<1>3. s \o <<x>> \in Seq(S) /\ ToSet(s \o <<x>>) = ToSet(s) \cup ToSet(<<x>>)
  <2>1. PICK t \in Seq(S) : t = <<x>>
    BY <1>1
  <2>2. s \o t \in Seq(S) /\ ToSet(s \o t) = ToSet(s) \cup ToSet(t)
    BY MergedVectors
  <2>3. QED  BY <2>1, <2>2
<1>4. QED  BY <1>1, <1>2, <1>3

\* SetToSeq lists the elements of a finite set.
LEMMA SetToSeqLists ==
    ASSUME NEW S, IsFiniteSet(S)
    PROVE  SetToSeq(S) \in Seq(S) /\ ToSet(SetToSeq(S)) = S
<1> DEFINE n == Cardinality(S)
<1>1. n \in Nat /\ ExistsBijection(1..n, S)
  BY FS_CardinalityType
<1>2. \E f \in [1..n -> S] : IsInjective(f)
  BY <1>1 DEF ExistsBijection, Bijection, Injection
<1>3. SetToSeq(S) \in [1..n -> S] /\ IsInjective(SetToSeq(S))
  BY <1>2 DEF SetToSeq
<1>4. IsFiniteSet(1..n) /\ Cardinality(1..n) = n
  BY <1>1, FS_Interval
<1>5. SetToSeq(S) \in Surjection(1..n, S)
  <2>1. SetToSeq(S) \in Injection(1..n, S)
    BY <1>3 DEF Injection
  <2>2. QED  BY <1>4, <2>1, FS_Injection
<1>6. ToSet(SetToSeq(S)) = S
  BY <1>3, <1>5 DEF ToSet, Surjection
<1>7. SetToSeq(S) \in Seq(S)
  BY <1>1, <1>3, SeqDef
<1>8. QED  BY <1>6, <1>7

\* Every file gets an id of its own.
LEMMA IdsDiffer ==
    ASSUME NEW ids \in SetToSeqs(Paths), NEW f \in Paths, NEW g \in Paths
    PROVE  /\ IdOf(f, ids) \in Nat
           /\ IdOf(f, ids) = IdOf(g, ids) => f = g
<1> DEFINE n == Cardinality(Paths)
<1>1. n \in Nat /\ IsFiniteSet(1..n) /\ Cardinality(1..n) = n
  BY FinitelyManyFiles, FS_Interval
<1>2. ids \in Injection(1..n, Paths)
  BY DEF SetToSeqs, Injection, IsInjective
<1>3. ids \in Surjection(1..n, Paths)
  BY <1>1, <1>2, FinitelyManyFiles, FS_Injection
<1>4. ASSUME NEW h \in Paths PROVE IdOf(h, ids) \in Nat /\ ids[IdOf(h, ids)] = h
  <2>1. \E i \in 1..n : ids[i] = h
    BY <1>3 DEF Surjection
  <2>2. DOMAIN ids = 1..n
    BY <1>2 DEF Injection
  <2>3. QED  BY <1>1, <2>1, <2>2 DEF IdOf
<1>5. QED  BY <1>4

-----------------------------------------------------------------------------
(* The pipeline keeps the invariant.                                       *)

\* A layer that looks at all files hands in a vector for each of them.
LEMMA VectorsPerFile ==
    ASSUME NEW layer \in Layers, NEW ok \in BOOLEAN
    PROVE  /\ VectorPerFile(layer, ok) \in Seq(AnyVector)
           /\ \A f \in Paths : \E v \in ToSet(VectorPerFile(layer, ok)) : v.layer = layer /\ v.file = f
           /\ \A v \in ToSet(VectorPerFile(layer, ok)) : v.file \in Paths /\ v = Vector(layer, v.file, ok)
<1> DEFINE n == Len(Files)
           new == VectorPerFile(layer, ok)
<1>1. Files \in [1..n -> Paths] /\ n \in Nat /\ DOMAIN Files = 1..n
  BY ScanResultsAssumption, LenProperties
<1>2. new = [i \in 1..n |-> [layer |-> layer, file |-> Files[i], ok |-> ok]]
  BY <1>1 DEF VectorPerFile, Vector
<1>3. new \in [1..n -> AnyVector]
  BY <1>1, <1>2 DEF AnyVector
<1>4. new \in Seq(AnyVector)
  BY <1>1, <1>3, SeqDef
<1>5. ASSUME NEW f \in Paths PROVE \E v \in ToSet(new) : v.layer = layer /\ v.file = f
  <2>1. PICK i \in 1..n : Files[i] = f
    BY <1>1 DEF Paths, ToSet
  <2>2. new[i] \in ToSet(new) /\ new[i].layer = layer /\ new[i].file = f
    BY <1>2, <2>1 DEF ToSet
  <2>3. QED  BY <2>2
<1>6. \A v \in ToSet(new) : v.file \in Paths /\ v = Vector(layer, v.file, ok)
  BY <1>1, <1>2 DEF ToSet, Vector
<1>7. QED  BY <1>4, <1>5, <1>6

\* Vectors are only added.
LEMMA CoverageStays ==
    ASSUME NEW layer, Covered(layer), ToSet(vectors) \subseteq ToSet(vectors')
    PROVE  Covered(layer)'
BY DEF Covered

\* A thread of the pool hands in the vectors of a file, or none.
LEMMA FileVectors ==
    ASSUME vectors \in Seq(AnyVector), NEW f \in Paths, NEW lost \in BOOLEAN, NEW static \in BOOLEAN,
           NEW read \in 0..MaxCommits, FileDone(f, lost, static, read)
    PROVE  /\ vectors' \in Seq(AnyVector)
           /\ ToSet(vectors') = IF lost THEN ToSet(vectors)
                                ELSE ToSet(vectors) \cup {Vector("static", f, static), HistoryVector(f, read)}
<1> DEFINE new == <<Vector("static", f, static), HistoryVector(f, read)>>
<1>1. new \in Seq(AnyVector)
  <2>1. Vector("static", f, static) \in AnyVector
    BY DEF Vector, AnyVector, Layers
  <2>2. HistoryVector(f, read) \in AnyVector
    BY DEF HistoryVector, AnyVector
  <2>3. QED  BY <2>1, <2>2
<1>2. ToSet(new) = {Vector("static", f, static), HistoryVector(f, read)}
  <2> DEFINE v == Vector("static", f, static)
             w == HistoryVector(f, read)
  <2> HIDE DEF v, w
  <2>1. ToSet(<<v, w>>) = {v, w}
    BY DEF ToSet
  <2>2. QED  BY <2>1 DEF v, w
<1>3. vectors \o new \in Seq(AnyVector) /\ ToSet(vectors \o new) = ToSet(vectors) \cup ToSet(new)
  <2> HIDE DEF new
  <2>1. QED  BY <1>1, MergedVectors
<1>4. vectors' = IF lost THEN vectors ELSE vectors \o new
  BY DEF FileDone
<1> HIDE DEF new
<1>5. QED  BY <1>2, <1>3, <1>4

LEMMA FileDoneInv ==
    ASSUME ResultsInv, NEW f \in Paths, NEW lost \in BOOLEAN, NEW static \in BOOLEAN,
           NEW read \in 0..MaxCommits, FileDone(f, lost, static, read)
    PROVE  ResultsInv'
<1>1. vectors' \in Seq(AnyVector)
  BY FileVectors DEF ResultsInv
<1>2. stage = "files" /\ stage' = "files" /\ rows = NoResults /\ UNCHANGED <<rows, scan, visual>>
  BY DEF FileDone, ResultsInv, StoredAtTheEnd
<1>3. QED
  BY <1>1, <1>2 DEF ResultsInv, StagesCover, StoredAtTheEnd, DeletedScanLeavesNothing

\* The stages that look at all files.
LEMMA CrossFileInv ==
    ASSUME ResultsInv, NEW ok \in BOOLEAN, NEW dbFails \in BOOLEAN,
           NEW layer, NEW next, CrossFile(layer, next, ok, dbFails),
           <<layer, next>> \in {<<"duplication", "architecture">>, <<"architecture", "decision">>}
    PROVE  ResultsInv'
<1> DEFINE new == VectorPerFile(layer, ok)
<1>1. layer \in Layers /\ stage = layer /\ stage' = next /\ vectors' = vectors \o new
  BY DEF CrossFile, Layers
<1>2. /\ new \in Seq(AnyVector)
      /\ \A f \in Paths : \E v \in ToSet(new) : v.layer = layer /\ v.file = f
  BY <1>1, VectorsPerFile
<1>3. vectors' \in Seq(AnyVector) /\ ToSet(vectors') = ToSet(vectors) \cup ToSet(new)
  BY <1>1, <1>2, MergedVectors DEF ResultsInv
<1>4. Covered(layer)'
  BY <1>2, <1>3 DEF Covered
<1>5. StagesCover'
  BY <1>1, <1>3, <1>4, CoverageStays DEF ResultsInv, StagesCover
<1>6. StoredAtTheEnd'
  BY <1>1 DEF CrossFile, ResultsInv, StoredAtTheEnd
<1>7. DeletedScanLeavesNothing'
  BY DEF CrossFile, Record, ResultsInv, DeletedScanLeavesNothing
<1>8. QED  BY <1>3, <1>5, <1>6, <1>7 DEF ResultsInv

\* Every file has a vector by then, so every file is scored.
LEMMA DecisionVectors ==
    ASSUME vectors \in Seq(AnyVector), Covered("duplication"),
           NEW all, all = Append(SetToSeq({Vector("decision", f, TRUE) : f \in Scored(vectors)}),
                                 Vector("decision", NoFile, TRUE))
    PROVE  /\ vectors \o all \in Seq(AnyVector)
           /\ ToSet(vectors \o all) = ToSet(vectors) \cup ToSet(all)
           /\ ToSet(all) = {Vector("decision", f, TRUE) : f \in Scored(vectors) \cup {NoFile}}
           /\ Paths \subseteq Scored(vectors) /\ Scored(vectors) \subseteq Paths \cup {NoFile}
<1> DEFINE S == {Vector("decision", f, TRUE) : f \in Scored(vectors)}
           summary == Vector("decision", NoFile, TRUE)
<1>1. Paths \subseteq Scored(vectors) /\ Scored(vectors) \subseteq Paths \cup {NoFile}
  <2>1. \A v \in ToSet(vectors) : v \in AnyVector
    BY RangeOfSeq DEF ToSet, Range
  <2>2. QED  BY <2>1 DEF Covered, Scored, AnyVector
<1>2. IsFiniteSet(S)
  <2>1. IsFiniteSet(Scored(vectors))
    BY <1>1, FinitelyManyFiles, FS_AddElement, FS_Subset
  <2>2. [f \in Scored(vectors) |-> Vector("decision", f, TRUE)] \in Surjection(Scored(vectors), S)
    BY DEF Surjection
  <2>3. QED  BY <2>1, <2>2, FS_Surjection
<1>3. S \subseteq AnyVector /\ summary \in AnyVector
  <2>1. \A f \in Paths \cup {NoFile} : Vector("decision", f, TRUE) \in AnyVector
    BY DEF Vector, AnyVector, Layers
  <2>2. QED  BY <1>1, <2>1
<1>4. SetToSeq(S) \in Seq(AnyVector) /\ ToSet(SetToSeq(S)) = S
  <2> HIDE DEF S
  <2>1. SetToSeq(S) \in Seq(S) /\ ToSet(SetToSeq(S)) = S
    BY <1>2, SetToSeqLists
  <2>2. QED  BY <1>3, <2>1, SeqMonotonic
<1>5. all \in Seq(AnyVector) /\ ToSet(all) = S \cup {summary}
  <2> HIDE DEF S, summary
  <2>1. Append(SetToSeq(S), summary) \in Seq(AnyVector) /\ ToSet(Append(SetToSeq(S), summary)) = S \cup {summary}
    BY <1>3, <1>4, AppendedVector
  <2>2. QED  BY <2>1 DEF S, summary
<1>6. vectors \o all \in Seq(AnyVector) /\ ToSet(vectors \o all) = ToSet(vectors) \cup ToSet(all)
  <2>1. \A s, t \in Seq(AnyVector) : s \o t \in Seq(AnyVector) /\ ToSet(s \o t) = ToSet(s) \cup ToSet(t)
    BY MergedVectors
  <2>2. QED  BY <1>5, <2>1
<1>7. S \cup {summary} = {Vector("decision", f, TRUE) : f \in Scored(vectors) \cup {NoFile}}
  OBVIOUS
<1>8. QED  BY <1>1, <1>5, <1>6, <1>7

LEMMA DecideInv ==
    ASSUME ResultsInv, NEW dbFails \in BOOLEAN, Decide(dbFails)
    PROVE  ResultsInv'
<1> DEFINE all == Append(SetToSeq({Vector("decision", f, TRUE) : f \in Scored(vectors)}),
                         Vector("decision", NoFile, TRUE))
<1>1. stage = "decision" /\ stage' = "store" /\ vectors' = vectors \o all
  BY DEF Decide
<1>2. /\ vectors' \in Seq(AnyVector) /\ ToSet(vectors') = ToSet(vectors) \cup ToSet(all)
      /\ ToSet(all) = {Vector("decision", f, TRUE) : f \in Scored(vectors) \cup {NoFile}}
      /\ Paths \subseteq Scored(vectors)
  <2>1. Covered("duplication") /\ vectors \in Seq(AnyVector)
    BY <1>1 DEF ResultsInv, StagesCover
  <2>2. QED  BY <1>1, <2>1, DecisionVectors
<1> HIDE DEF all
<1>3. Covered("decision")'
  <2>1. ASSUME NEW f \in Paths PROVE \E v \in ToSet(vectors') : v.layer = "decision" /\ v.file = f
    <3>1. Vector("decision", f, TRUE) \in ToSet(vectors')
      BY <1>2
    <3>2. QED  BY <3>1 DEF Vector
  <2>2. QED  BY <2>1 DEF Covered
<1>4. StagesCover'
  BY <1>1, <1>2, <1>3, CoverageStays DEF ResultsInv, StagesCover
<1>5. StoredAtTheEnd' /\ DeletedScanLeavesNothing'
  BY <1>1 DEF Decide, Record, ResultsInv, StoredAtTheEnd, DeletedScanLeavesNothing
<1>6. QED  BY <1>2, <1>4, <1>5 DEF ResultsInv

\* Every step keeps the invariant.
LEMMA ResultsInvariant == Spec => []ResultsInv
<1>1. Init => ResultsInv
  BY DEF Init, ResultsInv, StagesCover, StoredAtTheEnd, DeletedScanLeavesNothing
<1>2. ResultsInv /\ [Next]_vars => ResultsInv'
  <2> SUFFICES ASSUME ResultsInv, [Next]_vars PROVE ResultsInv'
    OBVIOUS
  <2> USE DEF ResultsInv, StagesCover, StoredAtTheEnd, DeletedScanLeavesNothing
  <2>1. CASE UNCHANGED vars
    BY <2>1 DEF vars, Covered, Results, StoredDependencies, StoredGroups, StoredCoChanges, Reported, CircularDependencies
  <2>2. ASSUME NEW visualFails \in BOOLEAN, NEW rowsFails \in BOOLEAN, StartScan(visualFails, rowsFails)
        PROVE  ResultsInv'
    BY <2>2 DEF StartScan
  <2>3. ASSUME NEW dbFails \in BOOLEAN, FilesDone(dbFails) PROVE ResultsInv'
    BY <2>3 DEF FilesDone, Record
  <2>4. ASSUME NEW dbFails \in BOOLEAN, StoreResults(dbFails) PROVE ResultsInv'
    <3>1. stage = "store" /\ stage' = "done" /\ rows = NoResults /\ UNCHANGED <<repo, vectors, scan, visual>>
      BY <2>4 DEF StoreResults
    <3>2. StagesCover'
      BY <3>1 DEF Covered
    <3>3. \A ids : Results(vectors, ids)' = Results(vectors, ids)
      BY <3>1 DEF Results, StoredDependencies, StoredGroups, StoredCoChanges, Reported, CircularDependencies
    <3>4. StoredAtTheEnd' /\ DeletedScanLeavesNothing'
      BY <2>4, <3>1, <3>3 DEF StoreResults
    <3>5. QED  BY <3>1, <3>2, <3>4
  <2>5. CASE Raise
    BY <2>5 DEF Raise
  <2>6. CASE DeleteScan
    BY <2>6 DEF DeleteScan, Covered
  <2> HIDE DEF ResultsInv, StagesCover, StoredAtTheEnd, DeletedScanLeavesNothing
  <2>7. ASSUME NEW f \in Paths,
               \/ FileDone(f, TRUE, TRUE, MaxCommits)
               \/ \E static \in BOOLEAN, read \in 0..MaxCommits : FileDone(f, FALSE, static, read)
        PROVE  ResultsInv'
    <3>1. MaxCommits \in 0..MaxCommits
      BY ScanResultsAssumption
    <3>2. QED  BY <2>7, <3>1, FileDoneInv
  <2>8. ASSUME NEW ok \in BOOLEAN, NEW dbFails \in BOOLEAN,
               \/ CrossFile("duplication", "architecture", ok, dbFails)
               \/ CrossFile("architecture", "decision", ok, dbFails)
        PROVE  ResultsInv'
    BY <2>8, CrossFileInv
  <2>9. ASSUME NEW dbFails \in BOOLEAN, Decide(dbFails) PROVE ResultsInv'
    BY <2>9, DecideInv
  <2>10. QED
    BY <2>1, <2>2, <2>3, <2>4, <2>5, <2>6, <2>7, <2>8, <2>9 DEF Next
<1>3. QED  BY <1>1, <1>2, PTL DEF Spec

-----------------------------------------------------------------------------
(* What is shown of the results is what the vectors say.                   *)

\* The merged vectors are of the layers, for the files.
LEMMA VectorTypes ==
    ASSUME ResultsInv, NEW v \in ToSet(vectors)
    PROVE  v \in AnyVector /\ (v.layer = "history" => v.file \in Paths) /\ v.ok \in BOOLEAN
<1>1. ToSet(vectors) \subseteq AnyVector
  BY RangeOfSeq DEF ResultsInv, ToSet, Range
<1>2. QED  BY <1>1 DEF AnyVector, Layers

\* The pairs to be stored are those the histories report.
LEMMA PairsAreReported ==
    ASSUME ResultsInv, NEW f \in Paths, NEW g \in Paths
    PROVE  <<f, g>> \in Reported(vectors) <=> g \in ReportedBy(f)
<1> DEFINE histories == {w \in ToSet(vectors) : w.layer = "history"}
           ofFile(v) == {<<v.file, h>> : h \in CoChanged(repo.history, v.file, v.read) \cap Paths}
<1>1. ASSUME <<f, g>> \in Reported(vectors) PROVE g \in ReportedBy(f)
  <2>1. PICK v \in histories : <<f, g>> \in ofFile(v)
    BY <1>1 DEF Reported
  <2>2. v.file = f /\ g \in CoChanged(repo.history, f, v.read)
    BY <2>1
  <2>3. v.read \in HistoryRead(f)
    BY <2>2 DEF HistoryRead
  <2>4. QED  BY <2>2, <2>3 DEF ReportedBy
<1>2. ASSUME g \in ReportedBy(f) PROVE <<f, g>> \in Reported(vectors)
  <2>1. PICK n \in HistoryRead(f) : g \in CoChanged(repo.history, f, n)
    BY <1>2 DEF ReportedBy
  <2>2. PICK v \in histories : v.file = f /\ v.read = n
    BY DEF HistoryRead
  <2>3. <<f, g>> \in ofFile(v)
    BY <2>1, <2>2
  <2>4. QED  BY <2>3 DEF Reported
<1>3. QED  BY <1>1, <1>2

\* Only pairs of files of the scan are stored.
LEMMA PairsOfFiles ==
    ASSUME ResultsInv
    PROVE  Reported(vectors) \subseteq Paths \X Paths
<1> SUFFICES ASSUME NEW p \in Reported(vectors) PROVE p \in Paths \X Paths
  OBVIOUS
<1>1. PICK v \in {w \in ToSet(vectors) : w.layer = "history"} :
        p \in {<<v.file, g>> : g \in CoChanged(repo.history, v.file, v.read) \cap Paths}
  BY DEF Reported
<1>2. v.file \in Paths
  BY VectorTypes
<1>3. QED  BY <1>1, <1>2

\* A pair is shown at both of its files, whichever of them reports it.
LEMMA PairsAreShown ==
    ASSUME ResultsInv, NEW ids \in SetToSeqs(Paths), rows = Results(vectors, ids),
           NEW f \in Paths, NEW g \in Paths
    PROVE  g \in FileCoChanges(f) <=> <<f, g>> \in Reported(vectors) \/ <<g, f>> \in Reported(vectors)
<1>1. rows.co_changes = StoredCoChanges(vectors, ids)
  BY DEF Results
<1>2. g \in FileCoChanges(f) <=> <<f, g>> \in rows.co_changes \/ <<g, f>> \in rows.co_changes
  <2>1. rows.co_changes \subseteq Paths \X Paths
    BY <1>1, PairsOfFiles DEF StoredCoChanges
  <2>2. ASSUME NEW p \in rows.co_changes, f \in {p[1], p[2]}, g = IF p[1] = f THEN p[2] ELSE p[1]
        PROVE  p = <<f, g>> \/ p = <<g, f>>
    BY <2>1, <2>2
  <2>3. g \in FileCoChanges(f) => <<f, g>> \in rows.co_changes \/ <<g, f>> \in rows.co_changes
    BY <2>2 DEF FileCoChanges
  <2>4. ASSUME NEW p \in rows.co_changes, p = <<f, g>> \/ p = <<g, f>> PROVE g \in FileCoChanges(f)
    <3>1. f \in {p[1], p[2]} /\ g = IF p[1] = f THEN p[2] ELSE p[1]
      BY <2>4
    <3>2. QED  BY <3>1 DEF FileCoChanges
  <2>5. QED  BY <2>3, <2>4
<1> DEFINE stored(p) == IF IdOf(p[1], ids) < IdOf(p[2], ids) THEN p ELSE <<p[2], p[1]>>
<1>3. ASSUME NEW a \in Paths, NEW b \in Paths, <<a, b>> \in rows.co_changes
      PROVE  <<a, b>> \in Reported(vectors) \/ <<b, a>> \in Reported(vectors)
  <2>1. PICK p \in Reported(vectors) : <<a, b>> = stored(p)
    BY <1>1, <1>3 DEF StoredCoChanges
  <2>2. p \in Paths \X Paths /\ (<<a, b>> = p \/ <<a, b>> = <<p[2], p[1]>>)
    BY <2>1, PairsOfFiles
  <2>3. p = <<a, b>> \/ p = <<b, a>>
    BY <2>2
  <2>4. QED  BY <2>3
<1>4. ASSUME NEW a \in Paths, NEW b \in Paths, <<a, b>> \in Reported(vectors)
      PROVE  <<a, b>> \in rows.co_changes \/ <<b, a>> \in rows.co_changes
  <2>1. stored(<<a, b>>) \in rows.co_changes
    BY <1>1, <1>4 DEF StoredCoChanges
  <2>2. stored(<<a, b>>) \in {<<a, b>>, <<b, a>>}
    OBVIOUS
  <2>3. QED  BY <2>1, <2>2
<1>5. QED  BY <1>2, <1>3, <1>4

\* A pair is stored once, the file with the smaller id first.
LEMMA PairsAreStoredOnce ==
    ASSUME ResultsInv, NEW ids \in SetToSeqs(Paths),
           NEW p \in StoredCoChanges(vectors, ids), NEW q \in StoredCoChanges(vectors, ids),
           {p[1], p[2]} = {q[1], q[2]}
    PROVE  p = q
<1>1. ASSUME NEW r \in StoredCoChanges(vectors, ids)
      PROVE  r \in Paths \X Paths /\ IdOf(r[1], ids) \leq IdOf(r[2], ids)
  <2>1. PICK s \in Reported(vectors) :
          r = IF IdOf(s[1], ids) < IdOf(s[2], ids) THEN s ELSE <<s[2], s[1]>>
    BY DEF StoredCoChanges
  <2>2. s \in Paths \X Paths
    BY PairsOfFiles
  <2>3. IdOf(s[1], ids) \in Nat /\ IdOf(s[2], ids) \in Nat
    BY <2>2, IdsDiffer
  <2>4. QED  BY <2>1, <2>2, <2>3
<1>2. CASE p[1] = q[1] /\ p[2] = q[2]
  BY <1>1, <1>2
<1>3. CASE p[1] = q[2] /\ p[2] = q[1]
  <2>1. IdOf(p[1], ids) \in Nat /\ IdOf(p[2], ids) \in Nat
    BY <1>1, IdsDiffer
  <2>2. IdOf(p[1], ids) = IdOf(p[2], ids)
    BY <1>1, <1>3, <2>1
  <2>3. p[1] = p[2]
    BY <1>1, <2>2, IdsDiffer
  <2>4. p \in Paths \X Paths /\ q \in Paths \X Paths
    BY <1>1
  <2>5. p[1] = q[1] /\ p[2] = q[2]
    BY <1>3, <2>3
  <2>6. QED  BY <2>4, <2>5
<1>4. QED  BY <1>2, <1>3

\* There is a graph if a vector of the architecture layer succeeded.
LEMMA GraphOfTheVectors ==
    ASSUME ResultsInv
    PROVE  HasGraph(vectors) <=> FilesWith("architecture", TRUE) # {}
BY VectorTypes DEF HasGraph, FilesWith, ToSet

\* What _persist_analysis_results stores of a scan is everything the layers
\* found, whatever failed on the way, or nothing at all: each file with its
\* score, each pair of files that a history reports once and shown at both, and
\* every dependency.
THEOREM StoredResultsComplete == Spec => []StoredResultsAreComplete
<1>1. ASSUME ResultsInv, rows # NoResults
      PROVE  StoredResultsAreComplete
  <2>1. PICK ids \in SetToSeqs(Paths) : rows = Results(vectors, ids)
    BY <1>1 DEF ResultsInv, StoredAtTheEnd
  <2>2. rows.files = [f \in Paths |-> Payload(vectors, f)]
    BY <2>1 DEF Results
  <2>3. ASSUME NEW f \in Paths
        PROVE  {"duplication", "architecture", "decision"} \subseteq DOMAIN rows.files[f]
    <3>1. DOMAIN rows.files[f] = {v.layer : v \in {w \in ToSet(vectors) : w.file = f}}
      BY <2>2 DEF Payload
    <3>2. Covered("duplication") /\ Covered("architecture") /\ Covered("decision")
      BY <1>1 DEF ResultsInv, StoredAtTheEnd, StagesCover
    <3>3. QED  BY <3>1, <3>2 DEF Covered
  <2>4. ASSUME NEW f \in Paths, NEW g \in Paths
        PROVE  g \in FileCoChanges(f) <=> g \in ReportedBy(f) \/ f \in ReportedBy(g)
    BY <1>1, <2>1, PairsAreShown, PairsAreReported
  <2>5. \A p, q \in rows.co_changes : {p[1], p[2]} = {q[1], q[2]} => p = q
    BY <1>1, <2>1, PairsAreStoredOnce DEF Results
  <2>6. rows.dependencies = IF FilesWith("architecture", TRUE) = {} THEN {}
                            ELSE DependencyGraph(Files, repo.imports).edge
    BY <1>1, <2>1, GraphOfTheVectors DEF Results, StoredDependencies
  <2>7. DOMAIN rows.files = Paths
    BY <2>2
  <2>8. QED  BY <2>3, <2>4, <2>5, <2>6, <2>7 DEF StoredResultsAreComplete
<1>2. ResultsInv => StoredResultsAreComplete
  BY <1>1 DEF StoredResultsAreComplete
<1>3. QED  BY <1>2, ResultsInvariant, PTL

\* Nothing of a deleted scan stays (ScanVisualizationRecord and ScanFile refer
\* to their scan), though its pipeline runs on and stores.
THEOREM DeletedScansLeaveNothing == Spec => []DeletedScanLeavesNothing
<1>1. ResultsInv => DeletedScanLeavesNothing
  BY DEF ResultsInv
<1>2. QED  BY <1>1, ResultsInvariant, PTL

-----------------------------------------------------------------------------
(* What the history of the repository says of a file.                      *)

\* The repository does not change.
LEMMA RepositoryStays == Spec => [](repo \in Repositories)
<1>1. Init => repo \in Repositories
  BY DEF Init
<1>2. repo \in Repositories /\ [Next]_vars => (repo \in Repositories)'
  BY DEF Next, vars, StartScan, FilesDone, CrossFile, Raise, Decide, StoreResults, DeleteScan, FileDone
<1>3. QED  BY <1>1, <1>2, PTL DEF Spec

LEMMA CommitsOfAFile ==
    ASSUME NEW S, NEW history \in Seq(S), NEW f
    PROVE  /\ IsFiniteSet(CommitsOf(history, f))
           /\ CommitsOf(history, f) \subseteq Nat
<1>1. Len(history) \in Nat
  BY LenProperties
<1>2. CommitsOf(history, f) \subseteq 1..Len(history)
  BY DEF CommitsOf
<1>3. IsFiniteSet(1..Len(history)) /\ 1..Len(history) \subseteq Nat
  BY <1>1, FS_Interval
<1>4. QED  BY <1>2, <1>3, FS_Subset

\* A part of a finite set has a count, and no larger one.
LEMMA PartsCount ==
    ASSUME NEW S, IsFiniteSet(S), NEW T \in SUBSET S
    PROVE  IsFiniteSet(T) /\ Cardinality(T) \in Nat /\ Cardinality(S) \in Nat /\ Cardinality(T) \leq Cardinality(S)
BY FS_Subset, FS_CardinalityType

\* One commit is dropped, if there is any.
LEMMA OneIsDropped ==
    ASSUME NEW S, S \subseteq Nat, IsFiniteSet(S)
    PROVE  /\ AllButLast(S) \subseteq S
           /\ S # {} => Cardinality(AllButLast(S)) \leq Cardinality(S) - 1
<1>1. AllButLast(S) \subseteq S
  BY DEF AllButLast
<1>2. ASSUME S # {} PROVE Cardinality(AllButLast(S)) \leq Cardinality(S) - 1
  <2> DEFINE id == [n \in S |-> n]
  <2>1. PICK last \in S : \A n \in S : id[n] \leq id[last]
    <3>1. \A n \in S : id[n] \in Int
      OBVIOUS
    <3> HIDE DEF id
    <3>2. QED  BY <1>2, <3>1, LargestValue
  <2>2. AllButLast(S) \subseteq S \ {last}
    BY <2>1 DEF AllButLast
  <2>3. IsFiniteSet(S \ {last}) /\ Cardinality(S \ {last}) = Cardinality(S) - 1
    BY <2>1, FS_RemoveElement
  <2>4. QED  BY <2>2, <2>3, PartsCount
<1>3. QED  BY <1>1, <1>2

\* A part is no more than the whole.
LEMMA PartOfTheWhole ==
    ASSUME NEW part \in Nat, NEW whole \in Int, part \leq whole \/ whole \leq 0
    PROVE  Ratio(part, whole) \leq 1000
<1>1. CASE whole \leq 0
  BY <1>1 DEF Ratio
<1>2. CASE ~ (whole \leq 0)
  <2>1. part * 1000 \leq 1000 * whole /\ whole > 0 /\ part * 1000 \in Int
    BY <1>2
  <2>2. (part * 1000) \div whole \leq 1000
    BY <2>1, QuotientBetween
  <2>3. QED  BY <1>2, <2>2 DEF Ratio
<1>3. QED  BY <1>1, <1>2

\* A commit with a subject that is not the last of these is not the last of all.
LEMMA SubjectsOfModifications ==
    ASSUME NEW history, NEW f
    PROVE  ModificationSubjects(history, f) \subseteq Modifications(history, f)
BY DEF ModificationSubjects, Modifications, AllButLast

\* Commits, subjects and recent commits of a file are read by commands of their
\* own (_commit_hashes, _commit_subjects, _recent_commit_hashes), and still the
\* commit that created the file is no bug fix of it, and no ratio exceeds the
\* whole: whatever the history, the renames in it and the name of the file.
THEOREM FixesAreModifications == Spec => []BugFixesAreModifications
<1>1. ASSUME repo \in Repositories, NEW f \in Paths
      PROVE  LET metrics == HistoryMetrics(repo.history, f, 1) IN
             /\ metrics.bug_fix_commit_count <=
                  Cardinality({n \in Modifications(repo.history, f) : repo.history[n].subject = "fix"})
             /\ metrics.bug_fix_ratio <= 1000 /\ metrics.recent_ratio <= 1000
             /\ metrics.recent_update_count + metrics.historical_update_count = metrics.update_count
             /\ metrics.contributors_count <= metrics.update_count
  <2> DEFINE history == repo.history
             commits == CommitsOf(history, f)
             fixes   == {n \in Modifications(history, f) : history[n].subject = "fix"}
             counted == {n \in ModificationSubjects(history, f) : history[n].subject = "fix"}
             recent  == {n \in commits : history[n].recent}
             authors == {history[n].author : n \in commits}
  <2>1. history \in Seq(GitCommit)
    BY <1>1 DEF Repositories
  <2>2. IsFiniteSet(commits) /\ commits \subseteq Nat
    BY <2>1, CommitsOfAFile
  <2>3. counted \subseteq fixes /\ fixes \subseteq Modifications(history, f) /\ Modifications(history, f) = AllButLast(commits)
    BY SubjectsOfModifications DEF Modifications
  <2>4. /\ AllButLast(commits) \subseteq commits
        /\ commits # {} => Cardinality(AllButLast(commits)) \leq Cardinality(commits) - 1
    <3> HIDE DEF commits
    <3>1. QED  BY <2>2, OneIsDropped
  <2>5. /\ Cardinality(commits) \in Nat /\ Cardinality(recent) \in Nat /\ Cardinality(recent) \leq Cardinality(commits)
        /\ IsFiniteSet(fixes) /\ Cardinality(fixes) \in Nat /\ Cardinality(counted) \in Nat
        /\ Cardinality(counted) \leq Cardinality(fixes)
    <3>1. recent \subseteq commits /\ fixes \subseteq commits
      BY <2>3, <2>4
    <3> HIDE DEF recent, fixes, commits, counted
    <3>2. QED  BY <2>2, <2>3, <3>1, PartsCount
  <2>6. Cardinality(counted) \leq Cardinality(commits) - 1 \/ Cardinality(commits) - 1 \leq 0
    <3>1. CASE commits = {}
      <4> HIDE DEF commits
      <4>1. Cardinality(commits) = 0
        BY <3>1, FS_EmptySet
      <4>2. QED  BY <4>1
    <3>2. CASE commits # {}
      <4>1. counted \subseteq AllButLast(commits)
        BY <2>3
      <4> HIDE DEF counted, commits, recent, fixes
      <4>2. IsFiniteSet(AllButLast(commits))
        BY <2>2, <2>4, PartsCount
      <4>3. Cardinality(counted) \leq Cardinality(AllButLast(commits)) /\ Cardinality(AllButLast(commits)) \in Nat
        BY <4>1, <4>2, PartsCount
      <4>4. QED  BY <2>4, <2>5, <3>2, <4>3
    <3>3. QED  BY <3>1, <3>2
  <2>7. Cardinality(authors) \leq Cardinality(commits)
    <3>1. [n \in commits |-> history[n].author] \in Surjection(commits, authors)
      BY DEF Surjection
    <3> HIDE DEF commits, authors
    <3>2. QED  BY <2>2, <3>1, FS_Surjection
  <2>8. /\ UpdateCount(history, f) = Cardinality(commits) /\ RecentUpdateCount(history, f) = Cardinality(recent)
        /\ BugFixCount(history, f) = Cardinality(counted)
    BY DEF UpdateCount, RecentUpdateCount, BugFixCount
  <2>9. /\ HistoricalUpdateCount(history, f) = Cardinality(commits) - Cardinality(recent)
        /\ BugFixRatio(history, f) = Ratio(Cardinality(counted), Cardinality(commits) - 1)
    <3> HIDE DEF commits, recent, counted, fixes, history
    <3>1. QED  BY <2>5, <2>8 DEF HistoricalUpdateCount, BugFixRatio
  <2>10. /\ Ratio(Cardinality(counted), Cardinality(commits) - 1) \leq 1000
         /\ Ratio(Cardinality(recent), Cardinality(commits)) \leq 1000
    <3> HIDE DEF commits, recent, counted, fixes, history
    <3>1. QED  BY <2>5, <2>6, PartOfTheWhole
  <2>11. LET metrics == HistoryMetrics(history, f, 1) IN
         /\ metrics.contributors_count = Cardinality(authors)
         /\ metrics.update_count = Cardinality(commits) /\ metrics.recent_update_count = Cardinality(recent)
         /\ metrics.historical_update_count = Cardinality(commits) - Cardinality(recent)
         /\ metrics.recent_ratio = Ratio(Cardinality(recent), Cardinality(commits))
         /\ metrics.bug_fix_commit_count = Cardinality(counted)
         /\ metrics.bug_fix_ratio = Ratio(Cardinality(counted), Cardinality(commits) - 1)
    <3> HIDE DEF recent, counted, fixes, history
    <3>1. QED  BY <2>8, <2>9 DEF HistoryMetrics
  <2> HIDE DEF recent, counted, fixes, authors, commits
  <2>12. Cardinality(commits) - Cardinality(recent) + Cardinality(recent) = Cardinality(commits)
    BY <2>5
  <2>13. QED  BY <2>5, <2>7, <2>10, <2>11, <2>12 DEF fixes
<1>2. repo \in Repositories => BugFixesAreModifications
  BY <1>1 DEF BugFixesAreModifications
<1>3. QED  BY <1>2, RepositoryStays, PTL

-----------------------------------------------------------------------------
(* What the imports of the repository refer to.                            *)

\* Only the names of modules have files, and these are the files of the scan.
LEMMA FilesOfModules ==
    /\ DOMAIN Modules = {ModuleName(f) : f \in Paths} \ {<<>>}
    /\ \A name \in DOMAIN Modules : Modules[name] \in Paths /\ Modules[name] # NoFile
<1> DEFINE names == [i \in DOMAIN Files |-> ModuleName(Files[i])]
<1>1. Files \in [1..Len(Files) -> Paths] /\ Len(Files) \in Nat /\ DOMAIN Files = 1..Len(Files)
  BY ScanResultsAssumption, LenProperties
<1>2. Modules = [name \in Range(names) \ {<<>>} |-> Files[Max({i \in DOMAIN Files : names[i] = name})]]
  BY DEF Modules, ModuleFiles
<1>3. Range(names) = {ModuleName(f) : f \in Paths}
  BY <1>1 DEF Range, Paths, ToSet
<1>4. ASSUME NEW name \in Range(names) PROVE Files[Max({i \in DOMAIN Files : names[i] = name})] \in Paths
  <2> DEFINE same == {i \in DOMAIN Files : names[i] = name}
             id == [i \in same |-> i]
  <2>1. same # {} /\ same \subseteq 1..Len(Files)
    BY <1>1, <1>4 DEF Range
  <2>2. IsFiniteSet(same)
    <3>1. IsFiniteSet(1..Len(Files))
      BY <1>1, FS_Interval
    <3>2. QED  BY <2>1, <3>1, FS_Subset
  <2>3. \A i \in same : id[i] \in Int /\ id[i] = i
    BY <1>1, <2>1
  <2> HIDE DEF same, id
  <2>4. \E i \in same : \A j \in same : id[j] \leq id[i]
    BY <2>1, <2>2, <2>3, LargestValue
  <2>5. \E i \in same : \A j \in same : i >= j
    <3>1. \A i, j \in same : i \in Int /\ j \in Int
      BY <2>3
    <3>2. QED  BY <2>3, <2>4, <3>1
  <2>6. Max(same) \in same
    BY <2>5 DEF Max
  <2>7. QED  BY <1>1, <2>1, <2>6 DEF same
<1> HIDE DEF names
<1>5. QED  BY <1>2, <1>3, <1>4, ScanResultsAssumption

LEMMA NamesOfModules == ASSUME NEW f \in Paths PROVE ModuleName(f) \in Seq(STRING)
<1> DEFINE src == {i \in DOMAIN f : f[i] = "src"}
           first == IF src = {} THEN 1 ELSE 1 + Min(src)
<1>1. f \in Seq(STRING) /\ Len(f) \in Nat /\ f \in [1..Len(f) -> STRING] /\ DOMAIN f = 1..Len(f)
  BY ScanResultsAssumption, LenProperties
<1>2. first \in Nat \ {0}
  <2>1. CASE src # {}
    <3>1. src \subseteq Nat
      BY <1>1
    <3>2. \E i \in src : \A j \in src : i \leq j
      <4> HIDE DEF src
      <4>1. QED  BY <2>1, <3>1, LeastNumber
    <3>3. Min(src) \in src
      BY <3>2 DEF Min
    <3>4. QED  BY <3>1, <3>3
  <2>2. QED  BY <2>1
<1>3. BelowSrc(f) = SubSeq(f, first, Len(f))
  BY DEF BelowSrc
<1> HIDE DEF first
<1>4. BelowSrc(f) \in Seq(STRING)
  BY <1>1, <1>2, <1>3, SubSeqProperties
<1>5. Front(BelowSrc(f)) \in Seq(STRING)
  BY <1>4, SubSeqProperties, LenProperties DEF Front
<1>6. QED  BY <1>4, <1>5 DEF ModuleName

\* A name is the last of its own prefixes; the prefixes of a name in a module
\* are those of the module and that name.
LEMMA PrefixLengths ==
    ASSUME NEW name \in Seq(STRING), NEW p \in Prefixes(name)
    PROVE  /\ p \in Seq(STRING) /\ Len(p) \in 0..Len(name) /\ Len(name) \in Nat
           /\ Len(p) = Len(name) => p = name
           /\ p = SubSeq(name, 1, Len(p))
<1>1. Len(name) \in Nat /\ \A i \in 1..Len(name) : name[i] \in STRING
  BY LenProperties, ElementOfSeq
<1>2. PICK l \in 0..Len(name) : p = SubSeq(name, 1, l)
  BY DEF Prefixes
<1>3. p \in Seq(STRING) /\ Len(p) = l
  BY <1>1, <1>2, SubSeqProperties
<1>4. SubSeq(name, 1, Len(name)) = name
  BY SubSeqFull
<1>5. QED  BY <1>1, <1>2, <1>3, <1>4

LEMMA OwnPrefix == ASSUME NEW name \in Seq(STRING) PROVE name \in Prefixes(name)
<1>1. Len(name) \in Nat /\ SubSeq(name, 1, Len(name)) = name
  BY LenProperties, SubSeqFull
<1>2. Len(name) \in 0..Len(name)
  BY <1>1
<1>3. QED  BY <1>1, <1>2, Zenon DEF Prefixes

LEMMA PrefixesInModule ==
    ASSUME NEW base \in Seq(STRING), NEW name \in STRING
    PROVE  /\ Append(base, name) \in Seq(STRING)
           /\ Prefixes(Append(base, name)) = Prefixes(base) \cup {Append(base, name)}
<1> DEFINE more == Append(base, name)
<1>1. more \in Seq(STRING) /\ Len(more) = Len(base) + 1 /\ Len(base) \in Nat
  BY AppendProperties, LenProperties
<1>2. SubSeq(more, 1, Len(more)) = more
  BY <1>1, SubSeqFull
<1>3. ASSUME NEW l \in 0..Len(base) PROVE SubSeq(more, 1, l) = SubSeq(base, 1, l)
  <2>1. ASSUME NEW i \in 1..l PROVE more[i] = base[i] /\ base[i] \in STRING /\ i \in 1..Len(base)
    <3>1. i \in 1..Len(base) /\ i # Len(base) + 1
      BY <1>1
    <3>2. base[i] \in STRING
      BY <3>1, ElementOfSeq
    <3>3. \A j \in 1..Len(base) : Append(base, name)[j] = base[j]
      BY AppendProperties
    <3>4. QED  BY <3>1, <3>2, <3>3
  <2>2. \A i \in 1..l : more[i] \in STRING /\ base[i] \in STRING
    BY <2>1
  <2> HIDE DEF more
  <2>3. /\ SubSeq(more, 1, l) \in Seq(STRING) /\ Len(SubSeq(more, 1, l)) = l
        /\ \A i \in 1..l : SubSeq(more, 1, l)[i] = more[i]
    BY <1>1, <2>2, SubSeqProperties
  <2>4. /\ SubSeq(base, 1, l) \in Seq(STRING) /\ Len(SubSeq(base, 1, l)) = l
        /\ \A i \in 1..l : SubSeq(base, 1, l)[i] = base[i]
    BY <1>1, <2>2, SubSeqProperties
  <2>5. QED  BY <2>1, <2>3, <2>4, SeqEqual
<1> HIDE DEF more
<1>4. Prefixes(more) = {SubSeq(more, 1, l) : l \in 0..(Len(base) + 1)}
  BY <1>1 DEF Prefixes
<1>5. 0..(Len(base) + 1) = (0..Len(base)) \cup {Len(base) + 1}
  BY <1>1
<1>6. Prefixes(more) = {SubSeq(base, 1, l) : l \in 0..Len(base)} \cup {more}
  BY <1>1, <1>2, <1>3, <1>4, <1>5
<1>7. QED  BY <1>1, <1>6 DEF Prefixes, more

\* _resolve_absolute_import finds the longest part of the name there is a file
\* for, if there is any.
LEMMA ResolvedNames ==
    ASSUME NEW name \in Seq(STRING)
    PROVE  /\ Resolve(Modules, name) # NoFile =>
                \E p \in Prefixes(name) \cap DOMAIN Modules : Resolve(Modules, name) = Modules[p]
           /\ name \in DOMAIN Modules => Resolve(Modules, name) = Modules[name]
           /\ Resolve(Modules, name) = NoFile <=> Prefixes(name) \cap DOMAIN Modules = {}
           /\ Resolve(Modules, name) \in Paths \cup {NoFile}
<1> DEFINE known == Prefixes(name) \cap DOMAIN Modules
           longest == CHOOSE m \in known : \A p \in known : Len(p) <= Len(m)
           size == [p \in known |-> Len(p)]
<1>1. Resolve(Modules, name) = IF known = {} THEN NoFile ELSE Modules[longest]
  BY DEF Resolve
<1>2. Len(name) \in Nat /\ \A p \in known : Len(p) \in 0..Len(name) /\ size[p] = Len(p)
  BY PrefixLengths, LenProperties
<1>3. IsFiniteSet(known)
  <2>1. IsFiniteSet(0..Len(name))
    BY <1>2, FS_Interval
  <2>2. [l \in 0..Len(name) |-> SubSeq(name, 1, l)] \in Surjection(0..Len(name), Prefixes(name))
    BY DEF Surjection, Prefixes
  <2>3. IsFiniteSet(Prefixes(name))
    BY <2>1, <2>2, FS_Surjection
  <2>4. QED  BY <2>3, FS_Subset
<1>4. ASSUME known # {} PROVE longest \in known /\ \A p \in known : Len(p) <= Len(longest)
  <2>1. \A p \in known : size[p] \in Int
    BY <1>2
  <2> HIDE DEF known, size
  <2>2. \E m \in known : \A p \in known : size[p] \leq size[m]
    BY <1>3, <1>4, <2>1, LargestValue
  <2>3. \E m \in known : \A p \in known : Len(p) \leq Len(m)
    BY <1>2, <2>2
  <2>4. QED  BY <2>3
<1>5. ASSUME name \in DOMAIN Modules PROVE known # {} /\ longest = name
  <2>1. name \in known
    BY <1>5, OwnPrefix
  <2>2. longest \in known /\ Len(name) <= Len(longest)
    BY <1>4, <2>1
  <2> HIDE DEF longest
  <2>3. longest \in Prefixes(name)
    BY <2>2
  <2>4. Len(longest) \in 0..Len(name) /\ (Len(longest) = Len(name) => longest = name)
    BY <2>3, PrefixLengths
  <2>5. Len(longest) = Len(name)
    BY <1>2, <2>2, <2>4
  <2>6. QED  BY <2>1, <2>4, <2>5
<1>6. \A p \in known : Modules[p] \in Paths /\ Modules[p] # NoFile
  BY FilesOfModules
<1> HIDE DEF longest
<1>7. QED  BY <1>1, <1>4, <1>5, <1>6

\* In a package, _resolve_import_from_base counts the levels as Python does,
\* unless the file is a package itself.
LEMMA BaseIsPythons ==
    ASSUME NEW f \in Paths, NEW stmt \in ImportStatement, stmt.kind = "from",
           InPackage(f, stmt), Last(f) # "__init__" \/ stmt.level = 0
    PROVE  /\ Base(stmt, ModuleName(f)) = PythonBase(f, stmt)
           /\ PythonBase(f, stmt) \in Seq(STRING)
<1> DEFINE current == ModuleName(f)
           package == Front(current)
           keep    == Len(package) - stmt.level + 1
<1>1. stmt.level \in Nat /\ stmt.module \in Seq(STRING)
  BY DEF ImportStatement, Name
<1>2. CASE stmt.level = 0
  BY <1>1, <1>2 DEF Base, PythonBase
<1>3. CASE stmt.level # 0
  <2>1. current \in Seq(STRING) /\ PythonPackage(f) = package
    BY <1>3, NamesOfModules DEF PythonPackage
  <2>2. package \in Seq(STRING) /\ Len(package) \in Nat
    BY <2>1, SubSeqProperties, LenProperties DEF Front
  <2>3. keep \in 1..Len(package)
    BY <1>1, <1>3, <2>1, <2>2 DEF InPackage
  <2>4. current # <<>>
    <3>1. CASE current = <<>>
      <4>1. package = <<>>
        <5>1. Len(current) = 0
          BY <3>1
        <5>2. SubSeq(current, 1, Len(current) - 1) = <<>>
          BY <5>1, SubSeqEmpty
        <5>3. QED  BY <5>2 DEF Front
      <4>2. QED  BY <2>3, <4>1
    <3>2. QED  BY <3>1
  <2> HIDE DEF current, package
  <2>5. Max({0, keep}) = keep
    <3>1. 0 \in {0, keep} /\ keep \in {0, keep} /\ \A x \in {0, keep} : keep >= x
      BY <2>2, <2>3
    <3>2. \A y \in {0, keep} : (\A x \in {0, keep} : y >= x) => y = keep
      BY <2>2, <2>3
    <3> HIDE DEF keep
    <3>3. QED  BY <3>1, <3>2 DEF Max
  <2>6. Min({keep, Len(package)}) = keep
    <3>1. keep \in {keep, Len(package)} /\ \A x \in {keep, Len(package)} : keep <= x
      BY <2>2, <2>3
    <3>2. \A y \in {keep, Len(package)} : (\A x \in {keep, Len(package)} : y <= x) => y = keep
      BY <2>2, <2>3
    <3> HIDE DEF keep
    <3>3. QED  BY <3>1, <3>2 DEF Min
  <2>7. Base(stmt, current) = SubSeq(package, 1, keep) \o stmt.module
    BY <1>3, <2>4, <2>5, <2>6 DEF Base, package
  <2>8. PythonBase(f, stmt) = SubSeq(package, 1, keep) \o stmt.module
    BY <1>3, <2>1 DEF PythonBase
  <2>9. SubSeq(package, 1, keep) \in Seq(STRING)
    <3>1. \A i \in 1..keep : package[i] \in STRING
      BY <2>2, <2>3, ElementOfSeq
    <3> HIDE DEF keep
    <3>2. QED  BY <2>3, <3>1, SubSeqProperties
  <2>10. SubSeq(package, 1, keep) \o stmt.module \in Seq(STRING)
    <3> HIDE DEF keep
    <3>1. QED  BY <1>1, <2>9, ConcatProperties
  <2>11. QED  BY <2>7, <2>8, <2>10 DEF current
<1>4. QED  BY <1>2, <1>3

\* What an "import" lists is loaded, with the packages it is in.
LEMMA ImportsAreLoaded ==
    ASSUME NEW f \in Paths, NEW stmt \in ImportStatement, stmt.kind = "import"
    PROVE  /\ Referred(Modules, f, stmt) \subseteq LoadedFiles(Modules, f, stmt)
           /\ NamedFiles(Modules, f, stmt) \subseteq Referred(Modules, f, stmt)
<1>1. Named(Modules, f, stmt) = ToSet(stmt.names) /\ ToSet(stmt.names) \subseteq Seq(STRING)
  <2>1. stmt.names \in Seq(Name)
    BY DEF ImportStatement
  <2>2. QED  BY <2>1, RangeOfSeq DEF Named, ToSet, Range, Name
<1>2. ASSUME NEW g \in Referred(Modules, f, stmt) PROVE g \in LoadedFiles(Modules, f, stmt)
  <2>1. PICK name \in ToSet(stmt.names) : g = Resolve(Modules, name) /\ g # NoFile
    BY <1>2 DEF Referred
  <2>2. PICK p \in Prefixes(name) \cap DOMAIN Modules : g = Modules[p]
    BY <1>1, <2>1, ResolvedNames
  <2>3. QED  BY <1>1, <2>2 DEF LoadedFiles, FilesNamed
<1>3. ASSUME NEW g \in NamedFiles(Modules, f, stmt) PROVE g \in Referred(Modules, f, stmt)
  <2>1. PICK name \in ToSet(stmt.names) \cap DOMAIN Modules : g = Modules[name]
    BY <1>1, <1>3 DEF NamedFiles, FilesNamed
  <2>2. Resolve(Modules, name) = g /\ g # NoFile
    BY <1>1, <2>1, ResolvedNames, FilesOfModules
  <2>3. QED  BY <2>1, <2>2 DEF Referred
<1>4. QED  BY <1>2, <1>3

\* Every candidate of a "from" is one of two for a name it lists.
LEMMA CandidatesOfNames ==
    ASSUME NEW stmt, NEW current, stmt.names \in Seq(STRING), Base(stmt, current) \in Seq(STRING)
    PROVE  LET base  == Base(stmt, current)
               tried == Candidates(stmt, current) IN
           /\ DOMAIN tried \subseteq Nat
           /\ \A n \in DOMAIN tried : \E name \in ToSet(stmt.names) :
                tried[n] = base \/ (name # "*" /\ tried[n] = Append(base, name))
           /\ stmt.names # <<>> =>
                /\ 1 \in DOMAIN tried
                /\ stmt.names[1] \in ToSet(stmt.names) /\ stmt.names[1] \in STRING
                /\ tried[1] = IF stmt.names[1] = "*" THEN base ELSE Append(base, stmt.names[1])
                /\ \A n \in DOMAIN tried : 1 \leq n
<1> DEFINE base  == Base(stmt, current)
           tried == Candidates(stmt, current)
           size  == Len(stmt.names)
           name(n) == stmt.names[(n + 1) \div 2]
<1>1. size \in Nat /\ DOMAIN stmt.names = 1..size /\ (stmt.names # <<>> => size \in Nat \ {0})
  BY LenProperties, EmptySeq
<1>2. tried = [n \in 1..(2 * size) |-> IF name(n) = "*" \/ (base # <<>> /\ n % 2 = 0) THEN base ELSE Append(base, name(n))]
  BY DEF Candidates
<1>3. DOMAIN tried = 1..(2 * size) /\ 1..(2 * size) \subseteq Nat
  BY <1>1, <1>2
<1>4. ASSUME NEW n \in 1..(2 * size) PROVE name(n) \in ToSet(stmt.names)
  <2>1. (n + 1) \div 2 \in 1..size
    BY <1>1
  <2>2. QED  BY <1>1, <2>1 DEF ToSet
<1>5. ASSUME NEW n \in DOMAIN tried
      PROVE  \E x \in ToSet(stmt.names) : tried[n] = base \/ (x # "*" /\ tried[n] = Append(base, x))
  <2>1. name(n) \in ToSet(stmt.names)
    BY <1>3, <1>4
  <2>2. tried[n] = IF name(n) = "*" \/ (base # <<>> /\ n % 2 = 0) THEN base ELSE Append(base, name(n))
    BY <1>2, <1>3
  <2> HIDE DEF tried, base, name
  <2>3. QED  BY <2>1, <2>2
<1>6. ASSUME stmt.names # <<>>
      PROVE  /\ 1 \in DOMAIN tried
             /\ stmt.names[1] \in ToSet(stmt.names) /\ stmt.names[1] \in STRING
             /\ tried[1] = IF stmt.names[1] = "*" THEN base ELSE Append(base, stmt.names[1])
             /\ \A n \in DOMAIN tried : 1 \leq n
  <2>1. size \in Nat \ {0} /\ 1 \in 1..(2 * size) /\ 1 \in 1..size
    BY <1>1, <1>6
  <2>2. name(1) = stmt.names[1] /\ 1 % 2 = 1
    OBVIOUS
  <2>3. stmt.names[1] \in ToSet(stmt.names) /\ stmt.names[1] \in STRING
    BY <1>1, <2>1, ElementOfSeq DEF ToSet
  <2>4. tried[1] = IF name(1) = "*" \/ (base # <<>> /\ 1 % 2 = 0) THEN base ELSE Append(base, name(1))
    BY <1>2, <2>1
  <2>5. \A n \in 1..(2 * size) : 1 \leq n
    BY <1>1
  <2> HIDE DEF tried, base
  <2>6. QED  BY <1>3, <2>1, <2>2, <2>3, <2>4, <2>5
<1>7. QED  BY <1>3, <1>5, <1>6

\* The first candidate of a "from" that is found is loaded, and is named unless
\* the first name is elsewhere.
LEMMA FromsAreLoaded ==
    ASSUME NEW f \in Paths, NEW stmt \in ImportStatement, stmt.kind = "from",
           InPackage(f, stmt), Last(f) # "__init__" \/ stmt.level = 0
    PROVE  /\ Referred(Modules, f, stmt) \subseteq LoadedFiles(Modules, f, stmt)
           /\ \/ NamedFiles(Modules, f, stmt) = {}
              \/ Referred(Modules, f, stmt) \cap NamedFiles(Modules, f, stmt) # {}
              \/ FirstIsElsewhere(Modules, f, stmt)
<1> DEFINE base  == PythonBase(f, stmt)
           tried == Candidates(stmt, ModuleName(f))
           found == {n \in DOMAIN tried : Resolve(Modules, tried[n]) # NoFile}
           first == Min(found)
           stands(name) == StandsFor(Modules, base, name)
<1>1. base \in Seq(STRING) /\ Base(stmt, ModuleName(f)) = base
  BY BaseIsPythons
<1>2. stmt.names \in Seq(STRING) /\ \A name \in ToSet(stmt.names) : name \in STRING
  <2>1. stmt.names \in Seq(STRING)
    BY DEF ImportStatement
  <2>2. QED  BY <2>1, RangeOfSeq DEF ToSet, Range
<1>3. /\ DOMAIN tried \subseteq Nat
      /\ \A n \in DOMAIN tried : \E name \in ToSet(stmt.names) :
           tried[n] = base \/ (name # "*" /\ tried[n] = Append(base, name))
      /\ stmt.names # <<>> =>
           /\ 1 \in DOMAIN tried
           /\ stmt.names[1] \in ToSet(stmt.names) /\ stmt.names[1] \in STRING
           /\ tried[1] = IF stmt.names[1] = "*" THEN base ELSE Append(base, stmt.names[1])
           /\ \A n \in DOMAIN tried : 1 \leq n
  BY <1>1, <1>2, CandidatesOfNames
<1>4. /\ Referred(Modules, f, stmt) = IF found = {} THEN {} ELSE {Resolve(Modules, tried[first])}
      /\ Named(Modules, f, stmt) = {stands(name) : name \in ToSet(stmt.names)}
  BY DEF Referred, Named
<1>0. \A name : stands(name) = IF name # "*" /\ Append(base, name) \in DOMAIN Modules THEN Append(base, name) ELSE base
  BY DEF StandsFor
<1> HIDE DEF tried, base, stands
<1>5. ASSUME found # {} PROVE first \in found /\ \A n \in found : first <= n
  <2>1. found \subseteq Nat
    BY <1>3
  <2>2. \E n \in found : \A m \in found : n <= m
    <3> HIDE DEF found
    <3>1. QED  BY <1>5, <2>1, LeastNumber
  <2>3. QED  BY <2>2 DEF Min
<1>6. ASSUME NEW n \in DOMAIN tried PROVE tried[n] \in Seq(STRING)
  BY <1>1, <1>2, <1>3, PrefixesInModule
<1>7. ASSUME found # {} PROVE Resolve(Modules, tried[first]) \in LoadedFiles(Modules, f, stmt)
  <2>1. first \in DOMAIN tried /\ Resolve(Modules, tried[first]) # NoFile
    BY <1>5, <1>7
  <2>2. PICK name \in ToSet(stmt.names) : tried[first] = base \/ (name # "*" /\ tried[first] = Append(base, name))
    BY <1>3, <2>1
  <2> DEFINE t == tried[first]
  <2>3. t \in Seq(STRING)
    BY <1>6, <2>1
  <2>4. PICK p \in Prefixes(t) \cap DOMAIN Modules : Resolve(Modules, t) = Modules[p]
    <3> HIDE DEF t
    <3>1. QED  BY <2>1, <2>3, ResolvedNames DEF t
  <2>5. Prefixes(Append(base, name)) = Prefixes(base) \cup {Append(base, name)}
    BY <1>1, <1>2, PrefixesInModule
  <2>6. p \in Prefixes(stands(name))
    BY <1>0, <1>1, <2>2, <2>4, <2>5, OwnPrefix
  <2>7. stands(name) \in Named(Modules, f, stmt)
    BY <1>4
  <2>8. QED  BY <2>4, <2>6, <2>7 DEF LoadedFiles, FilesNamed
<1>8. ASSUME NamedFiles(Modules, f, stmt) # {}, ~ FirstIsElsewhere(Modules, f, stmt)
      PROVE  Referred(Modules, f, stmt) \cap NamedFiles(Modules, f, stmt) # {}
  <2> DEFINE name == stmt.names[1]
  <2>1. stmt.names # <<>>
    <3>1. \E x \in ToSet(stmt.names) : TRUE
      BY <1>4, <1>8 DEF NamedFiles, FilesNamed
    <3>2. QED  BY <3>1 DEF ToSet
  <2>2. stands(name) \in DOMAIN Modules
    BY <1>8 DEF FirstIsElsewhere, base, stands
  <2>3. name \in ToSet(stmt.names) /\ name \in STRING
    BY <1>3, <2>1
  <2>4. /\ 1 \in DOMAIN tried
        /\ tried[1] = IF name = "*" THEN base ELSE Append(base, name)
    BY <1>3, <2>1
  <2> HIDE DEF name
  <2>5. CASE name # "*" /\ Append(base, name) \in DOMAIN Modules
    <3>1. tried[1] = Append(base, name) /\ tried[1] \in Seq(STRING)
      BY <1>6, <2>4, <2>5
    <3>2. Resolve(Modules, tried[1]) = Modules[tried[1]] /\ Modules[tried[1]] # NoFile
      BY <2>5, <3>1, ResolvedNames, FilesOfModules
    <3>3. 1 \in found
      BY <2>4, <3>2
    <3>4. first = 1
      <4>1. first \in DOMAIN tried /\ first <= 1
        BY <1>5, <3>3
      <4> HIDE DEF first
      <4>2. QED  BY <1>3, <2>1, <4>1
    <3>5. tried[1] \in Named(Modules, f, stmt)
      BY <1>0, <1>4, <2>3, <2>5, <3>1
    <3>6. Modules[tried[1]] \in NamedFiles(Modules, f, stmt)
      BY <2>5, <3>1, <3>5 DEF NamedFiles, FilesNamed
    <3> HIDE DEF found, first
    <3>7. QED  BY <1>4, <3>2, <3>3, <3>4, <3>6
  <2>6. CASE ~ (name # "*" /\ Append(base, name) \in DOMAIN Modules)
    <3>1. base \in Named(Modules, f, stmt) /\ base \in DOMAIN Modules
      BY <1>0, <1>4, <2>2, <2>3, <2>6
    <3>2. base # <<>> /\ Modules[base] # NoFile /\ Resolve(Modules, base) = Modules[base]
      BY <1>1, <3>1, ResolvedNames, FilesOfModules
    <3>3. Modules[base] \in NamedFiles(Modules, f, stmt)
      BY <3>1 DEF NamedFiles, FilesNamed
    <3>4. Prefixes(tried[1]) \cap DOMAIN Modules = Prefixes(base) \cap DOMAIN Modules
      <4>1. CASE name = "*"
        BY <2>4, <4>1
      <4>2. CASE name # "*"
        <5>1. Prefixes(Append(base, name)) = Prefixes(base) \cup {Append(base, name)}
          BY <1>1, <2>3, PrefixesInModule
        <5>2. QED  BY <2>4, <2>6, <4>2, <5>1
      <4>3. QED  BY <4>1, <4>2
    <3>5. Resolve(Modules, tried[1]) = Modules[base]
      BY <3>2, <3>4 DEF Resolve
    <3>6. 1 \in found
      BY <2>4, <3>2, <3>5
    <3>7. first = 1
      <4>1. first \in DOMAIN tried /\ first <= 1
        BY <1>5, <3>6
      <4> HIDE DEF first
      <4>2. QED  BY <1>3, <2>1, <4>1
    <3> HIDE DEF found, first
    <3>8. QED  BY <1>4, <3>3, <3>5, <3>6, <3>7
  <2>7. QED  BY <2>5, <2>6
<1>9. QED
  <2> HIDE DEF found, first
  <2>1. QED  BY <1>4, <1>7, <1>8

\* What _dependencies_for_file attributes an import to is loaded by Python for
\* it, and named by it if anything is, for any files and whatever they import:
\* not so for relative imports of a package's __init__, and if what is imported
\* first is elsewhere.
THEOREM ImportsReal == Spec => []ImportsAreReal
<1>1. repo \in Repositories => ImportsAreReal
  <2> SUFFICES ASSUME repo \in Repositories, NEW f \in Paths, NEW stmt \in repo.imports[f],
                      InPackage(f, stmt), Last(f) # "__init__" \/ stmt.level = 0
               PROVE  LET referred == Referred(Modules, f, stmt)
                          named    == NamedFiles(Modules, f, stmt) IN
                      /\ referred \subseteq LoadedFiles(Modules, f, stmt)
                      /\ named = {} \/ referred \cap named # {} \/ FirstIsElsewhere(Modules, f, stmt)
    BY DEF ImportsAreReal
  <2>1. stmt \in ImportStatement
    BY DEF Repositories
  <2>2. stmt.kind = "import" \/ stmt.kind = "from"
    BY <2>1 DEF ImportStatement
  <2>3. CASE stmt.kind = "import"
    BY <2>1, <2>3, ImportsAreLoaded
  <2>4. CASE stmt.kind = "from"
    BY <2>1, <2>4, FromsAreLoaded
  <2>5. QED  BY <2>2, <2>3, <2>4
<1>2. QED  BY <1>1, RepositoryStays, PTL

-----------------------------------------------------------------------------
(* The developers' view shows what was merged.                             *)

\* The pool, a file at a time.
LEMMA FileDoneShown ==
    ASSUME ResultsInv, VectorsOnce, VectorsShown, NEW f \in Paths, NEW lost \in BOOLEAN,
           NEW static \in BOOLEAN, NEW read \in 0..MaxCommits, FileDone(f, lost, static, read)
    PROVE  VectorsOnce' /\ VectorsShown'
<1> DEFINE new == {Vector("static", f, static), HistoryVector(f, read)}
<1>1. ToSet(vectors') = IF lost THEN ToSet(vectors) ELSE ToSet(vectors) \cup new
  BY FileVectors DEF ResultsInv
<1>2. \A v \in new : v.file = f /\ v.layer \in {"static", "history"}
  BY DEF Vector, HistoryVector
<1>3. \A v, w \in new : v.layer = w.layer => v = w
  BY DEF Vector, HistoryVector
<1>4. stage = "files" /\ stage' = "files" /\ f \in waiting /\ waiting' = waiting \ {f} /\ UNCHANGED <<scan, visual>>
  BY DEF FileDone
<1>5. faults' \in Nat
  BY DEF FileDone, Fault, VectorsShown
<1>6. \A v \in ToSet(vectors) : v.layer \in {"static", "history"} => v.file # f
  BY <1>4 DEF VectorsOnce
<1> HIDE DEF new
<1>7. VectorsOnce'
  BY <1>1, <1>2, <1>3, <1>4, <1>6 DEF VectorsOnce
<1>8. VectorsShown'
  BY <1>4, <1>5 DEF VectorsShown
<1>9. QED  BY <1>7, <1>8

\* What a stage records of its new vectors.
LEMMA StageShown ==
    ASSUME VectorsShown, NEW new, NEW dbFails \in BOOLEAN, Record(new, dbFails), UNCHANGED scan,
           ToSet(vectors') = ToSet(vectors) \cup ToSet(new),
           stage \notin {"idle", "files"} \/ new = vectors, stage' \notin {"idle", "files"},
           faults' \in Nat, faults' = 0 => faults = 0 /\ ~ dbFails
    PROVE  VectorsShown'
<1>1. visual' = IF dbFails \/ ~ scan THEN visual ELSE visual \cup ToSet(new)
  BY DEF Record
<1>2. visual' \subseteq ToSet(vectors')
  BY <1>1 DEF VectorsShown
<1>3. ASSUME faults' = 0, scan' PROVE visual' = ToSet(vectors')
  <2>1. visual' = visual \cup ToSet(new) /\ faults = 0 /\ scan
    BY <1>1, <1>3
  <2>2. CASE stage \notin {"idle", "files"}
    BY <2>1, <2>2 DEF VectorsShown
  <2>3. CASE new = vectors
    BY <2>1, <2>3 DEF VectorsShown
  <2>4. QED  BY <2>2, <2>3
<1>4. QED  BY <1>2, <1>3 DEF VectorsShown

LEMMA CrossFileShown ==
    ASSUME ResultsInv, VectorsOnce, VectorsShown, NEW ok \in BOOLEAN, NEW dbFails \in BOOLEAN,
           NEW layer, NEW next, CrossFile(layer, next, ok, dbFails),
           <<layer, next>> \in {<<"duplication", "architecture">>, <<"architecture", "decision">>}
    PROVE  VectorsOnce' /\ VectorsShown'
<1> DEFINE new == VectorPerFile(layer, ok)
<1>1. /\ layer \in Layers /\ layer \in {"duplication", "architecture"}
      /\ stage = layer /\ stage' = next /\ vectors' = vectors \o new
      /\ Record(new, dbFails) /\ UNCHANGED <<waiting, scan>>
  BY DEF CrossFile, Layers
<1>2. new \in Seq(AnyVector) /\ \A v \in ToSet(new) : v.file \in Paths /\ v = Vector(layer, v.file, ok)
  BY <1>1, VectorsPerFile
<1>3. ToSet(vectors') = ToSet(vectors) \cup ToSet(new)
  BY <1>1, <1>2, MergedVectors DEF ResultsInv
<1>4. faults' \in Nat /\ (faults' = 0 => faults = 0 /\ ~ dbFails)
  BY DEF CrossFile, Fault, VectorsShown
<1>5. \A v \in ToSet(new) : v.layer = layer
  BY <1>2 DEF Vector
<1>6. \A v, w \in ToSet(new) : v.file = w.file => v = w
  BY <1>2
<1> HIDE DEF new
<1>7. \A v \in ToSet(vectors) : v.layer # layer
  BY <1>1 DEF VectorsOnce
<1>8. VectorsOnce'
  <2>1. \A v, w \in ToSet(vectors') : v.file = w.file /\ v.layer = w.layer => v = w
    BY <1>3, <1>5, <1>6, <1>7 DEF VectorsOnce
  <2>2. CASE layer = "duplication" /\ next = "architecture"
    BY <1>1, <1>3, <1>5, <2>1, <2>2 DEF VectorsOnce
  <2>3. CASE layer = "architecture" /\ next = "decision"
    BY <1>1, <1>3, <1>5, <2>1, <2>3 DEF VectorsOnce
  <2>4. QED  BY <2>2, <2>3
<1>9. VectorsShown'
  BY <1>1, <1>3, <1>4, StageShown
<1>10. QED  BY <1>8, <1>9

LEMMA DecideShown ==
    ASSUME ResultsInv, VectorsOnce, VectorsShown, NEW dbFails \in BOOLEAN, Decide(dbFails)
    PROVE  VectorsOnce' /\ VectorsShown'
<1> DEFINE all == Append(SetToSeq({Vector("decision", f, TRUE) : f \in Scored(vectors)}),
                         Vector("decision", NoFile, TRUE))
<1>1. /\ stage = "decision" /\ stage' = "store" /\ vectors' = vectors \o all
      /\ Record(all, dbFails) /\ UNCHANGED <<waiting, scan>>
  BY DEF Decide
<1>2. /\ ToSet(vectors') = ToSet(vectors) \cup ToSet(all)
      /\ ToSet(all) = {Vector("decision", f, TRUE) : f \in Scored(vectors) \cup {NoFile}}
  <2>1. Covered("duplication") /\ vectors \in Seq(AnyVector)
    BY <1>1 DEF ResultsInv, StagesCover
  <2>2. QED  BY <1>1, <2>1, DecisionVectors
<1>3. faults' \in Nat /\ (faults' = 0 => faults = 0 /\ ~ dbFails)
  BY DEF Decide, Fault, VectorsShown
<1> HIDE DEF all
<1>4. \A v \in ToSet(all) : v = Vector("decision", v.file, TRUE) /\ v.layer = "decision"
  BY <1>2 DEF Vector
<1>5. \A v \in ToSet(vectors) : v.layer # "decision"
  BY <1>1 DEF VectorsOnce
<1>6. VectorsOnce'
  <2>1. \A v, w \in ToSet(vectors) : v.file = w.file /\ v.layer = w.layer => v = w
    BY DEF VectorsOnce
  <2>2. \A v, w \in ToSet(all) : v.file = w.file => v = w
    BY <1>4
  <2>3. \A v, w \in ToSet(vectors') : v.file = w.file /\ v.layer = w.layer => v = w
    BY <1>2, <1>4, <1>5, <2>1, <2>2
  <2>4. \A v \in ToSet(vectors') : v.layer \in {"static", "history"} => v.file \notin waiting'
    BY <1>1, <1>2, <1>4 DEF VectorsOnce
  <2>5. QED  BY <1>1, <2>3, <2>4 DEF VectorsOnce
<1>7. VectorsShown'
  BY <1>1, <1>2, <1>3, StageShown
<1>8. QED  BY <1>6, <1>7

\* Every step keeps the vectors apart, and the records among them.
LEMMA ShownInvariant == Spec => [](VectorsOnce /\ VectorsShown)
<1>1. Init => VectorsOnce /\ VectorsShown
  <2>1. ToSet(<<>>) = {}
    BY DEF ToSet
  <2>2. QED  BY <2>1 DEF Init, VectorsOnce, VectorsShown
<1>2. ResultsInv /\ VectorsOnce /\ VectorsShown /\ [Next]_vars => (VectorsOnce /\ VectorsShown)'
  <2> SUFFICES ASSUME ResultsInv, VectorsOnce, VectorsShown, [Next]_vars
               PROVE  VectorsOnce' /\ VectorsShown'
    OBVIOUS
  <2>1. CASE UNCHANGED vars
    BY <2>1 DEF vars, VectorsOnce, VectorsShown
  <2>2. ASSUME NEW visualFails \in BOOLEAN, NEW rowsFails \in BOOLEAN, StartScan(visualFails, rowsFails)
        PROVE  VectorsOnce' /\ VectorsShown'
    BY <2>2 DEF StartScan, Fault, VectorsOnce, VectorsShown
  <2>3. ASSUME NEW dbFails \in BOOLEAN, FilesDone(dbFails) PROVE VectorsOnce' /\ VectorsShown'
    <3>1. /\ stage = "files" /\ stage' = "duplication" /\ Record(vectors, dbFails)
          /\ UNCHANGED <<vectors, waiting, scan>>
      BY <2>3 DEF FilesDone
    <3>2. faults' \in Nat /\ (faults' = 0 => faults = 0 /\ ~ dbFails)
      BY <2>3 DEF FilesDone, Fault, VectorsShown
    <3>3. VectorsOnce'
      BY <3>1 DEF VectorsOnce
    <3>4. VectorsShown'
      BY <3>1, <3>2, StageShown
    <3>5. QED  BY <3>3, <3>4
  <2>4. ASSUME NEW dbFails \in BOOLEAN, StoreResults(dbFails) PROVE VectorsOnce' /\ VectorsShown'
    BY <2>4 DEF StoreResults, Fault, VectorsOnce, VectorsShown
  <2>5. CASE Raise
    BY <2>5 DEF Raise, Fault, VectorsOnce, VectorsShown
  <2>6. CASE DeleteScan
    BY <2>6 DEF DeleteScan, VectorsOnce, VectorsShown
  <2>7. ASSUME NEW f \in Paths,
               \/ FileDone(f, TRUE, TRUE, MaxCommits)
               \/ \E static \in BOOLEAN, read \in 0..MaxCommits : FileDone(f, FALSE, static, read)
        PROVE  VectorsOnce' /\ VectorsShown'
    <3>1. MaxCommits \in 0..MaxCommits
      BY ScanResultsAssumption
    <3>2. QED  BY <2>7, <3>1, FileDoneShown
  <2>8. ASSUME NEW ok \in BOOLEAN, NEW dbFails \in BOOLEAN,
               \/ CrossFile("duplication", "architecture", ok, dbFails)
               \/ CrossFile("architecture", "decision", ok, dbFails)
        PROVE  VectorsOnce' /\ VectorsShown'
    BY <2>8, CrossFileShown
  <2>9. ASSUME NEW dbFails \in BOOLEAN, Decide(dbFails) PROVE VectorsOnce' /\ VectorsShown'
    BY <2>9, DecideShown
  <2>10. QED
    BY <2>1, <2>2, <2>3, <2>4, <2>5, <2>6, <2>7, <2>8, <2>9 DEF Next
<1>3. QED  BY <1>1, <1>2, ResultsInvariant, PTL DEF Spec

\* Of every file as many layers are shown as there are records.
LEMMA LayersCounted ==
    ASSUME ResultsInv, VectorsOnce, VectorsShown
    PROVE  Run = [vector_count |-> Cardinality(LayersShown(NoFile))
                                     + SumFunction([f \in DOMAIN FilesShown |-> Cardinality(FilesShown[f])]),
                  file_count   |-> Cardinality(DOMAIN FilesShown)]
<1> DEFINE files == {v.file : v \in visual} \ {NoFile}
           all   == files \cup {NoFile}
           fileOf == [v \in visual |-> v.file]
           parts  == [t \in all |-> {v \in visual : v.file = t}]
           counts == [t \in all |-> Cardinality(parts[t])]
           shown  == [f \in files |-> Cardinality(LayersShown(f))]
<1>1. IsFiniteSet(visual)
  <2>1. Len(vectors) \in Nat /\ DOMAIN vectors = 1..Len(vectors)
    BY LenProperties DEF ResultsInv
  <2>2. [i \in 1..Len(vectors) |-> vectors[i]] \in Surjection(1..Len(vectors), ToSet(vectors))
    BY <2>1 DEF Surjection, ToSet
  <2>3. IsFiniteSet(1..Len(vectors))
    BY <2>1, FS_Interval
  <2>4. IsFiniteSet(ToSet(vectors))
    BY <2>2, <2>3, FS_Surjection
  <2>5. QED  BY <2>4, FS_Subset DEF VectorsShown
<1>2. IsFiniteSet(all) /\ IsFiniteSet(files) /\ NoFile \notin files
  <2>1. fileOf \in Surjection(visual, {v.file : v \in visual})
    BY DEF Surjection
  <2>2. IsFiniteSet({v.file : v \in visual})
    BY <1>1, <2>1, FS_Surjection
  <2>3. IsFiniteSet(files)
    BY <2>2, FS_Subset
  <2>4. QED  BY <2>3, FS_AddElement
<1>3. SumFunctionOnSet(counts, all) = Cardinality(visual)
  <2>1. /\ \A v \in visual : fileOf[v] \in all
        /\ \A t \in all : \A v : v \in parts[t] <=> v \in visual /\ fileOf[v] = t
        /\ \A t \in all : counts[t] = Cardinality(parts[t])
    OBVIOUS
  <2> HIDE DEF all, fileOf, parts, counts
  <2>2. QED  BY <1>1, <1>2, <2>1, CountByValues
<1>4. ASSUME NEW t \in all
      PROVE  /\ counts[t] = Cardinality(LayersShown(t)) /\ counts[t] \in Int
             /\ t \in files => shown[t] = counts[t]
  <2>1. \A v \in visual : v \in ToSet(vectors) /\ v.layer \in LayerOrder
    BY VectorTypes DEF VectorsShown, AnyVector, Layers, LayerOrder
  <2>2. [v \in parts[t] |-> v.layer] \in Bijection(parts[t], LayersShown(t))
    <3> DEFINE b == [v \in parts[t] |-> v.layer]
    <3>1. \A v \in parts[t] : v \in visual /\ v.file = t /\ b[v] = v.layer
      OBVIOUS
    <3>2. \A v \in parts[t] : b[v] \in LayersShown(t)
      BY <2>1, <3>1 DEF LayersShown
    <3>3. \A v, w \in parts[t] : b[v] = b[w] => v = w
      BY <2>1, <3>1 DEF VectorsOnce
    <3>4. \A layer \in LayersShown(t) : \E v \in parts[t] : b[v] = layer
      BY DEF LayersShown
    <3>5. b \in [parts[t] -> LayersShown(t)]
      BY <3>2
    <3> HIDE DEF b, parts
    <3>6. QED  BY <3>3, <3>4, <3>5 DEF Bijection, Injection, Surjection, IsInjective, b
  <2>3. IsFiniteSet(parts[t])
    BY <1>1, FS_Subset
  <2>4. Cardinality(LayersShown(t)) = Cardinality(parts[t]) /\ Cardinality(parts[t]) \in Nat
    <3> HIDE DEF parts
    <3>1. ExistsBijection(parts[t], LayersShown(t))
      BY <2>2 DEF ExistsBijection
    <3>2. QED  BY <2>3, <3>1, FS_Bijection, FS_CardinalityType
  <2>5. QED  BY <2>4
<1>5. SumFunctionOnSet(counts, all) = counts[NoFile] + SumFunctionOnSet(counts, files) /\ NoFile \in all
  <2>1. \A t \in files \cup {NoFile} : counts[t] \in Int
    BY <1>4
  <2> HIDE DEF counts, files
  <2>2. QED  BY <1>2, <2>1, SumOneMore
<1>6. SumFunctionOnSet(counts, files) = SumFunctionOnSet(shown, files)
  <2>1. \A t \in files : counts[t] \in Int /\ shown[t] = counts[t]
    BY <1>4
  <2> HIDE DEF counts, shown, files
  <2>2. QED  BY <1>2, <2>1, SumSame
<1>7. FilesShown = [f \in files |-> LayersShown(f)] /\ DOMAIN FilesShown = files
  BY DEF FilesShown
<1>8. SumFunction([f \in DOMAIN FilesShown |-> Cardinality(FilesShown[f])]) = SumFunctionOnSet(shown, files)
  <2>1. [f \in DOMAIN FilesShown |-> Cardinality(FilesShown[f])] = shown /\ DOMAIN shown = files
    BY <1>7
  <2> HIDE DEF shown, files
  <2>2. QED  BY <2>1 DEF SumFunction
<1>9. Cardinality(visual) = Cardinality(LayersShown(NoFile)) + SumFunctionOnSet(shown, files)
  BY <1>3, <1>4, <1>5, <1>6
<1> HIDE DEF shown, counts, parts, fileOf, all
<1>10. QED  BY <1>7, <1>8, <1>9 DEF Run

\* The layers shown of a file are among those stored, and are these if nothing
\* failed.
LEMMA LayersStored ==
    ASSUME ResultsInv, VectorsOnce, VectorsShown, rows # NoResults
    PROVE  LayersAgree
<1>1. PICK ids \in SetToSeqs(Paths) : rows = Results(vectors, ids)
  BY DEF ResultsInv, StoredAtTheEnd
<1>2. \A f \in Paths : DOMAIN rows.files[f] = {v.layer : v \in {w \in ToSet(vectors) : w.file = f}}
  BY <1>1 DEF Results, Payload
<1>3. FilesShown = [f \in {v.file : v \in visual} \ {NoFile} |-> LayersShown(f)]
  BY DEF FilesShown
<1>4. \A v \in ToSet(vectors) : v.file \in Paths \cup {NoFile} /\ v.layer \in LayerOrder
  BY VectorTypes DEF AnyVector, Layers, LayerOrder
<1>5. visual \subseteq ToSet(vectors)
  BY DEF VectorsShown
<1>6. ASSUME NEW f \in DOMAIN FilesShown PROVE FilesShown[f] \subseteq DOMAIN rows.files[f]
  <2>1. f \in Paths /\ FilesShown[f] = LayersShown(f)
    BY <1>3, <1>4, <1>5
  <2>2. \A layer \in LayersShown(f) : \E v \in ToSet(vectors) : v.file = f /\ v.layer = layer
    BY <1>5 DEF LayersShown
  <2>3. QED  BY <1>2, <2>1, <2>2
<1>7. ASSUME faults = 0, NEW f \in Paths PROVE FilesShown[f] = DOMAIN rows.files[f]
  <2>1. stage = "done" /\ scan
    BY DEF ResultsInv, StoredAtTheEnd, DeletedScanLeavesNothing
  <2>2. visual = ToSet(vectors)
    BY <1>7, <2>1 DEF VectorsShown
  <2>3. f \in {v.file : v \in visual} \ {NoFile}
    <3>1. Covered("decision")
      BY <2>1 DEF ResultsInv, StagesCover
    <3>2. QED  BY <2>2, <3>1, ScanResultsAssumption DEF Covered
  <2>4. FilesShown[f] = LayersShown(f)
    BY <1>3, <2>3
  <2>5. LayersShown(f) = {v.layer : v \in {w \in ToSet(vectors) : w.file = f}}
    BY <1>4, <2>2 DEF LayersShown
  <2>6. QED  BY <1>2, <2>4, <2>5
<1>8. QED  BY <1>6, <1>7, LayersCounted DEF LayersAgree

-----------------------------------------------------------------------------
(* Graphs.                                                                 *)

\* What is reachable from what is reachable is reachable.
LEMMA ReachableTransitive ==
    ASSUME NEW graph, NEW f, NEW g \in Reachable(graph, f), NEW h \in Reachable(graph, g)
    PROVE  h \in Reachable(graph, f)
<1> SUFFICES ASSUME NEW s \in SUBSET graph.node, Successors(graph, f) \cup AllSuccessors(graph, s) \subseteq s
             PROVE  h \in s
  BY DEF Reachable
<1>1. g \in s
  BY DEF Reachable
<1>2. Successors(graph, g) \cup AllSuccessors(graph, s) \subseteq s
  BY <1>1 DEF AllSuccessors
<1>3. QED  BY <1>2 DEF Reachable

\* A file is in one cycle of imports at most: the files it reaches and is reached
\* from.
LEMMA OneCycle ==
    ASSUME NEW graph, NEW f \in graph.node
    PROVE  LET own == {g \in graph.node : g \in Reachable(graph, f) /\ f \in Reachable(graph, g)} IN
           {c \in Cycles(graph) : f \in c} = IF f \in Reachable(graph, f) THEN {own} ELSE {}
<1> DEFINE own(h) == {g \in graph.node : g \in Reachable(graph, h) /\ h \in Reachable(graph, g)}
<1>1. Cycles(graph) = {own(h) : h \in graph.node} \ {{}}
  BY DEF Cycles
<1>2. ASSUME NEW h \in graph.node, f \in own(h) PROVE f \in Reachable(graph, f) /\ own(h) = own(f)
  <2>1. f \in Reachable(graph, h) /\ h \in Reachable(graph, f)
    BY <1>2
  <2>2. \A g \in own(h) : g \in own(f)
    BY <2>1, ReachableTransitive
  <2>3. \A g \in own(f) : g \in own(h)
    BY <2>1, ReachableTransitive
  <2>4. f \in Reachable(graph, f)
    BY <2>1, ReachableTransitive
  <2> HIDE DEF own
  <2>5. QED  BY <2>2, <2>3, <2>4
<1>3. f \in Reachable(graph, f) => f \in own(f)
  OBVIOUS
<1>4. \A c \in Cycles(graph) : f \in c => f \in Reachable(graph, f) /\ c = own(f)
  <2> HIDE DEF own
  <2>1. QED  BY <1>1, <1>2
<1>5. f \in Reachable(graph, f) => own(f) \in Cycles(graph) /\ f \in own(f)
  <2> HIDE DEF own
  <2>1. QED  BY <1>1, <1>3
<1>6. {c \in Cycles(graph) : f \in c} = IF f \in Reachable(graph, f) THEN {own(f)} ELSE {}
  <2> HIDE DEF own
  <2>1. QED  BY <1>4, <1>5
<1>7. QED  BY <1>6

\* Whatever a name is, it refers to a file of the scan or to none.
LEMMA ResolvedFiles ==
    ASSUME NEW name
    PROVE  Resolve(Modules, name) \in Paths \cup {NoFile}
<1> DEFINE known == Prefixes(name) \cap DOMAIN Modules
           longest == CHOOSE m \in known : \A p \in known : Len(p) <= Len(m)
           size == [p \in known |-> Len(p)]
<1>1. IsFiniteSet(DOMAIN Modules) /\ \A p \in DOMAIN Modules : Len(p) \in Nat
  <2>1. [f \in Paths |-> ModuleName(f)] \in Surjection(Paths, {ModuleName(f) : f \in Paths})
    BY DEF Surjection
  <2>2. IsFiniteSet({ModuleName(f) : f \in Paths})
    BY <2>1, FinitelyManyFiles, FS_Surjection
  <2>3. IsFiniteSet(DOMAIN Modules)
    BY <2>2, FilesOfModules, FS_Subset
  <2>4. \A p \in DOMAIN Modules : p \in Seq(STRING)
    BY FilesOfModules, NamesOfModules
  <2>5. QED  BY <2>3, <2>4, LenProperties
<1>2. IsFiniteSet(known) /\ \A p \in known : size[p] = Len(p) /\ Len(p) \in Nat
  <2>1. IsFiniteSet(known)
    BY <1>1, FS_Subset
  <2>2. QED  BY <1>1, <2>1
<1>3. ASSUME known # {} PROVE longest \in known
  <2> HIDE DEF known, size
  <2>1. \A p \in known : size[p] \in Int
    BY <1>2
  <2>2. \E m \in known : \A p \in known : size[p] \leq size[m]
    BY <1>2, <1>3, <2>1, LargestValue
  <2>3. \E m \in known : \A p \in known : Len(p) \leq Len(m)
    BY <1>2, <2>2
  <2>4. QED  BY <2>3
<1>4. Resolve(Modules, name) = IF known = {} THEN NoFile ELSE Modules[longest]
  BY DEF Resolve
<1> HIDE DEF longest
<1>5. QED  BY <1>3, <1>4, FilesOfModules

LEMMA ReferredFiles ==
    ASSUME NEW f \in Paths, NEW stmt \in ImportStatement
    PROVE  Referred(Modules, f, stmt) \subseteq Paths
<1> DEFINE tried == Candidates(stmt, ModuleName(f))
           found == {n \in DOMAIN tried : Resolve(Modules, tried[n]) # NoFile}
<1>1. CASE stmt.kind = "import"
  BY <1>1, ResolvedFiles DEF Referred
<1>2. CASE stmt.kind # "import"
  <2>1. Referred(Modules, f, stmt) = IF found = {} THEN {} ELSE {Resolve(Modules, tried[Min(found)])}
    BY <1>2 DEF Referred
  <2>2. Len(stmt.names) \in Nat
    <3>1. stmt.names \in Seq(STRING)
      BY <1>2 DEF ImportStatement
    <3>2. QED  BY <3>1, LenProperties
  <2>3. found \subseteq Nat
    BY <2>2 DEF Candidates
  <2>4. ASSUME found # {} PROVE Resolve(Modules, tried[Min(found)]) \in Paths
    <3>1. \E n \in found : \A m \in found : n <= m
      <4> HIDE DEF found
      <4>1. QED  BY <2>3, <2>4, LeastNumber
    <3>2. Min(found) \in found
      BY <3>1 DEF Min
    <3>3. Resolve(Modules, tried[Min(found)]) # NoFile
      BY <3>2
    <3> HIDE DEF found
    <3>4. QED  BY <3>3, ResolvedFiles
  <2> HIDE DEF found
  <2>5. QED  BY <2>1, <2>4
<1>3. QED  BY <1>1, <1>2

\* An edge is an import of one file of another, and those that are executed are
\* among all.
LEMMA EdgesAreImports ==
    ASSUME repo \in Repositories
    PROVE  LET edges   == DependencyGraph(Files, repo.imports).edge
               runtime == RuntimeGraph(Files, repo.imports).edge IN
           /\ runtime \subseteq edges /\ edges \subseteq Paths \X Paths
           /\ \A f \in Paths : <<f, f>> \notin edges
<1> DEFINE executed == [g \in Paths |-> {stmt \in repo.imports[g] : ~ TypeOnly(stmt)}]
           of(imports, f) == {<<f, g>> : g \in (UNION {Referred(Modules, f, stmt) : stmt \in imports[f]}) \ {f}}
<1>1. /\ DependencyGraph(Files, repo.imports).edge = UNION {of(repo.imports, f) : f \in Paths}
      /\ RuntimeGraph(Files, repo.imports).edge = UNION {of(executed, f) : f \in Paths}
  BY DEF DependencyGraph, RuntimeGraph, Edges, EdgesAmong, Modules, Paths
<1>2. ASSUME NEW h \in Paths
      PROVE  of(executed, h) \subseteq of(repo.imports, h) /\ of(repo.imports, h) \subseteq Paths \X Paths
             /\ \A e \in of(repo.imports, h) : e[1] = h /\ e[2] # h
  <2>1. executed[h] \subseteq repo.imports[h] /\ repo.imports[h] \subseteq ImportStatement
    BY DEF Repositories
  <2>2. \A stmt \in repo.imports[h] : Referred(Modules, h, stmt) \subseteq Paths
    BY <2>1, ReferredFiles
  <2> HIDE DEF executed
  <2>3. QED  BY <2>1, <2>2
<1> HIDE DEF executed, of
<1>3. \A e \in UNION {of(repo.imports, f) : f \in Paths} : e[1] # e[2]
  BY <1>2
<1>4. \A f \in Paths : <<f, f>> \notin UNION {of(repo.imports, g) : g \in Paths}
  BY <1>3
<1>5. QED  BY <1>1, <1>2, <1>4

-----------------------------------------------------------------------------
(* The files shown with a file.                                            *)

\* The entries shown with f for a set of edges, and the groups shown for a graph.
Listed(edges, f) ==
    {[file |-> e[2], direction |-> "outgoing"] : e \in {d \in edges : d[1] = f}}
      \cup {[file |-> e[1], direction |-> "incoming"] : e \in {d \in edges : d[1] # f /\ d[2] = f}}
GroupsOf(graph) == {[size |-> Cardinality(c), members |-> c] : c \in Cycles(graph)}

\* The files that refer to f in the graph of what is executed are listed with it.
LEMMA NeighboursListed ==
    ASSUME NEW edges, edges \subseteq Paths \X Paths, NEW f \in Paths, <<f, f>> \notin edges,
           NEW runtime, runtime \subseteq edges
    PROVE  /\ Cardinality({m \in Paths : <<m, f>> \in runtime}) <=
                Cardinality({d \in Listed(edges, f) : d.direction = "incoming"})
           /\ Cardinality({m \in Paths : <<f, m>> \in runtime}) <=
                Cardinality({d \in Listed(edges, f) : d.direction = "outgoing"})
<1> DEFINE dependencies == Listed(edges, f)
           listed(direction) == {d \in dependencies : d.direction = direction}
           entry(direction) == [m \in Paths |-> [file |-> m, direction |-> direction]]
<1>1. ASSUME NEW direction \in {"incoming", "outgoing"}, NEW S \in SUBSET Paths,
             \A m \in S : [file |-> m, direction |-> direction] \in dependencies
      PROVE  Cardinality(S) <= Cardinality(listed(direction))
  <2> DEFINE inj == [m \in S |-> [file |-> m, direction |-> direction]]
             all == {[file |-> m, direction |-> direction] : m \in Paths}
  <2>1. entry(direction) \in Surjection(Paths, all)
    BY DEF Surjection
  <2>2. listed(direction) \subseteq all
    <3>1. \A e \in edges : e[1] \in Paths /\ e[2] \in Paths
      OBVIOUS
    <3>2. ASSUME NEW d \in listed(direction) PROVE d.file \in Paths /\ d = [file |-> d.file, direction |-> direction]
      <4>1. CASE \E e \in edges : d = [file |-> e[2], direction |-> "outgoing"]
        BY <3>1, <4>1
      <4>2. CASE \E e \in edges : d = [file |-> e[1], direction |-> "incoming"]
        BY <3>1, <4>2
      <4>3. QED  BY <4>1, <4>2 DEF Listed
    <3>3. QED  BY <3>2
  <2>3. inj \in Injection(S, listed(direction))
    <3>1. \A m \in S : inj[m] = [file |-> m, direction |-> direction] /\ inj[m] \in listed(direction)
      BY <1>1
    <3>2. \A m, n \in S : inj[m] = inj[n] => m = n
      OBVIOUS
    <3>3. inj \in [S -> listed(direction)]
      BY <3>1
    <3> HIDE DEF inj, listed
    <3>4. QED  BY <3>2, <3>3 DEF Injection, IsInjective
  <2> HIDE DEF all, listed, entry, inj
  <2>4. IsFiniteSet(all)
    BY <2>1, FinitelyManyFiles, FS_Surjection
  <2>5. IsFiniteSet(listed(direction))
    BY <2>2, <2>4, FS_Subset
  <2>6. QED  BY <2>3, <2>5, FS_Injection
<1>2. \A m \in Paths : <<m, f>> \in runtime => [file |-> m, direction |-> "incoming"] \in dependencies
  <2> TAKE m \in Paths
  <2> HAVE <<m, f>> \in runtime
  <2>1. <<m, f>> \in edges /\ <<m, f>>[1] # f /\ <<m, f>>[2] = f
    OBVIOUS
  <2>2. [file |-> <<m, f>>[1], direction |-> "incoming"] \in dependencies
    BY <2>1 DEF Listed
  <2>3. QED  BY <2>2
<1>3. \A m \in Paths : <<f, m>> \in runtime => [file |-> m, direction |-> "outgoing"] \in dependencies
  <2> TAKE m \in Paths
  <2> HAVE <<f, m>> \in runtime
  <2>1. <<f, m>> \in edges /\ <<f, m>>[1] = f
    OBVIOUS
  <2>2. [file |-> <<f, m>>[2], direction |-> "outgoing"] \in dependencies
    BY <2>1 DEF Listed
  <2>3. QED  BY <2>2
<1>4. QED  BY <1>1, <1>2, <1>3

\* The group of circular dependencies a file is in, as the rows have them, is the
\* one its metric counts.
LEMMA GroupOfAFile ==
    ASSUME NEW graph, graph.node = Paths, NEW f \in Paths,
           NEW own, own = {group \in GroupsOf(graph) : f \in group.members}
    PROVE  IF CycleSize(graph, f) = 0 THEN own = {}
           ELSE \E group \in GroupsOf(graph) : own = {group} /\ group.size = CycleSize(graph, f)
<1> DEFINE groups == GroupsOf(graph)
           cycle == {g \in graph.node : g \in Reachable(graph, f) /\ f \in Reachable(graph, g)}
           group == [size |-> Cardinality(cycle), members |-> cycle]
<1>1. {c \in Cycles(graph) : f \in c} = IF f \in Reachable(graph, f) THEN {cycle} ELSE {}
  BY OneCycle
<1>2. CASE f \in Reachable(graph, f)
  <2>1. {c \in Cycles(graph) : f \in c} = {cycle} /\ f \in cycle /\ cycle \subseteq Paths
    BY <1>1, <1>2
  <2> HIDE DEF cycle
  <2>2. UNION {c \in Cycles(graph) : f \in c} = cycle
    BY <2>1
  <2>3. CycleSize(graph, f) = Cardinality(cycle)
    BY <2>2 DEF CycleSize
  <2>4. Cardinality(cycle) # 0
    BY <2>1, FinitelyManyFiles, FS_Subset, FS_EmptySet
  <2>5. cycle \in Cycles(graph) /\ \A c \in Cycles(graph) : f \in c => c = cycle
    BY <2>1
  <2>6. group \in groups /\ own = {group}
    BY <2>1, <2>5 DEF GroupsOf
  <2>7. QED  BY <2>3, <2>4, <2>6
<1>3. CASE f \notin Reachable(graph, f)
  <2>1. {c \in Cycles(graph) : f \in c} = {}
    BY <1>1, <1>3
  <2>2. UNION {c \in Cycles(graph) : f \in c} = {}
    BY <2>1
  <2>3. CycleSize(graph, f) = 0
    BY <2>2, FS_EmptySet DEF CycleSize
  <2>4. own = {}
    BY <2>1 DEF GroupsOf
  <2>5. QED  BY <2>3, <2>4
<1>4. QED  BY <1>2, <1>3

\* The two views of a scan and the metrics of its files are computed apart, from
\* the records (ScanVisualizationService), the rows (FilesRepository) and the
\* graphs (ArchitectureAnalysisLayer), and agree whatever the repository, the
\* order of the pool and the failures.
THEOREM ViewsOfAScanAgree == Spec => []ViewsAgree
<1>1. ASSUME repo \in Repositories, ResultsInv, VectorsOnce, VectorsShown, rows # NoResults,
             FilesWith("architecture", TRUE) # {}
      PROVE  LET graph   == DependencyGraph(Files, repo.imports)
                 runtime == RuntimeGraph(Files, repo.imports) IN
             /\ SameGroups(CyclesShown)
             /\ \A f \in Paths : Agree(FileDetails(f), MetricsIn(graph, runtime, f))
  <2> DEFINE graph   == DependencyGraph(Files, repo.imports)
             runtime == RuntimeGraph(Files, repo.imports)
  <2>1. PICK ids \in SetToSeqs(Paths) : rows = Results(vectors, ids)
    BY <1>1 DEF ResultsInv, StoredAtTheEnd
  <2>2. HasGraph(vectors)
    BY <1>1, GraphOfTheVectors
  <2>3. CircularDependencies = {[nodes |-> c, edges |-> {e \in graph.edge : {e[1], e[2]} \subseteq c}] : c \in Cycles(graph)}
    BY DEF CircularDependencies, CyclesOf
  <2>4. rows.groups = {c.nodes : c \in CircularDependencies} /\ rows.dependencies = graph.edge
    BY <2>1, <2>2 DEF Results, StoredGroups, StoredDependencies
  <2>5. rows.groups = Cycles(graph)
    <3> HIDE DEF graph
    <3>1. ASSUME NEW c \in Cycles(graph) PROVE \E d \in CircularDependencies : d.nodes = c
      <4> DEFINE inside == {e \in graph.edge : {e[1], e[2]} \subseteq c}
      <4>1. [nodes |-> c, edges |-> inside] \in CircularDependencies
        BY <2>3
      <4> HIDE DEF inside
      <4>2. QED  BY <4>1
    <3>2. \A d \in CircularDependencies : d.nodes \in Cycles(graph)
      BY <2>3
    <3>3. QED  BY <2>4, <3>1, <3>2
  <2>6. SameGroups(CyclesShown)
    <3>1. \A c \in CircularDependencies : c.edges \subseteq graph.edge
      <4> HIDE DEF graph
      <4>1. QED  BY <2>3
    <3>2. CyclesShown = CircularDependencies \/ CyclesShown = {}
      BY DEF CyclesShown
    <3>3. QED  BY <2>4, <3>1, <3>2 DEF SameGroups
  <2>7. /\ runtime.edge \subseteq graph.edge /\ graph.edge \subseteq Paths \X Paths
        /\ \A f \in Paths : <<f, f>> \notin graph.edge
    BY <1>1, EdgesAreImports
  <2>8. graph.node = Paths /\ runtime.node = Paths
    BY DEF DependencyGraph, RuntimeGraph, Paths
  <2>9. ASSUME NEW f \in Paths PROVE Agree(FileDetails(f), MetricsIn(graph, runtime, f))
    <3> HIDE DEF graph, runtime
    <3> DEFINE metrics == MetricsIn(graph, runtime, f)
               shown   == FileDetails(f)
    <3>1. /\ metrics.cycle = CycleSize(graph, f)
          /\ metrics.fan_in = Cardinality({m \in Paths : <<m, f>> \in runtime.edge})
          /\ metrics.fan_out = Cardinality({m \in Paths : <<f, m>> \in runtime.edge})
      BY <2>8 DEF MetricsIn, InDegree, OutDegree, Predecessors, Successors
    <3>2. shown.circular_dependencies = FileGroups(f) /\ shown.dependencies = FileDependencies(f)
      BY DEF FileDetails
    <3>3. IF CycleSize(graph, f) = 0 THEN FileGroups(f) = {}
          ELSE \E group \in ScanGroups : FileGroups(f) = {group} /\ group.size = CycleSize(graph, f)
      <4>1. ScanGroups = GroupsOf(graph)
        BY <2>5 DEF ScanGroups, GroupsOf
      <4>2. FileGroups(f) = {group \in ScanGroups : f \in group.members}
        BY DEF FileGroups
      <4>3. QED  BY <2>8, <4>1, <4>2, GroupOfAFile
    <3>4. /\ metrics.fan_in <= Cardinality({d \in FileDependencies(f) : d.direction = "incoming"})
          /\ metrics.fan_out <= Cardinality({d \in FileDependencies(f) : d.direction = "outgoing"})
      <4>1. FileDependencies(f) = Listed(graph.edge, f)
        BY <2>4 DEF FileDependencies, Listed
      <4> DEFINE edges == graph.edge
                 executed == runtime.edge
      <4>2. executed \subseteq edges /\ edges \subseteq Paths \X Paths /\ <<f, f>> \notin edges
        BY <2>7
      <4> HIDE DEF metrics, shown, edges, executed
      <4>3. /\ Cardinality({m \in Paths : <<m, f>> \in executed}) <=
                 Cardinality({d \in Listed(edges, f) : d.direction = "incoming"})
            /\ Cardinality({m \in Paths : <<f, m>> \in executed}) <=
                 Cardinality({d \in Listed(edges, f) : d.direction = "outgoing"})
        BY <4>2, NeighboursListed
      <4>4. QED  BY <3>1, <4>1, <4>3 DEF edges, executed
    <3> HIDE DEF metrics, shown
    <3>5. QED  BY <3>1, <3>2, <3>3, <3>4 DEF Agree, metrics, shown
  <2>10. QED  BY <2>6, <2>9
<1>2. repo \in Repositories /\ ResultsInv /\ VectorsOnce /\ VectorsShown => ViewsAgree
  BY <1>1, LayersStored DEF ViewsAgree
<1>3. QED  BY <1>2, RepositoryStays, ResultsInvariant, ShownInvariant, PTL
=============================================================================
