\* Every combination of layer profiles and failures, and one metric otherwise.
SPECIFICATION MCSpec
CONSTANTS
    NoValue = NoValue
    MaxChanges = 1
    Others <- OtherScores
CHECK_DEADLOCK FALSE
INVARIANTS
    ScoreIsBetween
    ContributionsAddUp
    CodeLocalFindingsLead
    SummaryAgrees
PROPERTY WorseNeverHelps
