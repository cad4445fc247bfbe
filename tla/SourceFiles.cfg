\* Three files of two snippets and their copies, with six embedding
\* services.
SPECIFICATION Spec
CONSTANTS
    NoMetric = NoMetric
    Hidden <- HiddenState
    NotFinite = NotFinite
    Blank = ""
    BatchSize = 2
    Tokens <- LineTokens
    Word <- LineWord
    NoData = NoData
    Fixmes = {"# todo"}
    MinLines = 2
    MinTokens = 6
    Files = {1, 2, 3}
    Services <- SixServices
    MaxSnippets = 2
CHECK_DEADLOCK FALSE
INVARIANTS
    LinesCountedOnce
    DuplicatesComeInPairs
    CopiesAreFound
    CodeCountsWhereverItStands
