\* A project deletion races the worker that prepares a workspace; no fault.
SPECIFICATION Spec
CONSTANTS
    Projects = {p1}
    Users = {u1}
    OwnerOf <- OneOwner
    Scans = {s1}
    ProjectOf <- OneProject
    Workers = {w1}
    Deleters = {d1}
    NoScan = NoScan
    NoProject = NoProject
    Faults = {}
CHECK_DEADLOCK FALSE
INVARIANT NoOrphanWorkspace
