\* One scan, two workers, two deletions of its project, every fault.
SPECIFICATION Spec
CONSTANTS
    Projects = {p1}
    Users = {u1}
    OwnerOf <- OneOwner
    Scans = {s1}
    ProjectOf <- OneProject
    Workers = {w1, w2}
    Deleters = {d1, d2}
    NoScan = NoScan
    NoProject = NoProject
    Faults = {"api_crash", "broker", "database", "filesystem", "redelivery", "worker_crash"}
SYMMETRY Symmetry
CHECK_DEADLOCK FALSE
INVARIANTS
    TypeOK
    AtMostOnce
    OneWriter
    SucceededRanToEnd
    TimelineFollowsStatus
    DeletionPlanIsExact
PROPERTIES
    ImplementsLedger
