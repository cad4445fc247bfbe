\* Two imports, one of them executed only when no types are checked.
SPECIFICATION MCSpec
CONSTANTS
    Files <- PackageFiles
    NoFile = NoFile
    NoResults = NoResults
    MaxCommits = 1
    MaxFiles = 2
    MaxFaults = 2
    MaxChanges = 2
    Guards = {"none", "if not TYPE_CHECKING"}
CHECK_DEADLOCK FALSE
INVARIANT ExecutableCyclesAreRuntime
