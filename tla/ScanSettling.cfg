\* Liveness: two scans of one project, one worker, one deletion that may be
\* aborted by a file system error.
SPECIFICATION FairSpec
CONSTANTS
    Projects = {p1}
    Users = {u1}
    OwnerOf <- OneOwner
    Scans = {s1, s2}
    ProjectOf <- OneProject
    Workers = {w1}
    Deleters = {d1}
    NoScan = NoScan
    NoProject = NoProject
    Faults = {"filesystem"}
CHECK_DEADLOCK FALSE
PROPERTY ScansSettle
