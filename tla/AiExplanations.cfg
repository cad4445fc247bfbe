\* Three requests at a time, for one file with its two texts and one scan.
SPECIFICATION Spec
CONSTANTS
    Clients = {c1, c2, c3}
    Files = {f1}
    Scans = {s1}
    MaxCalls = 4
SYMMETRY ClientSymmetry
CHECK_DEADLOCK FALSE
INVARIANTS
    EveryoneReadsTheSame
    FewTextsWasted
