\* Three files and two changes to them; scans of three such packages with two
\* failures.
SPECIFICATION MCSpec
CONSTANTS
    Files <- PackageFiles
    NoFile = NoFile
    NoResults = NoResults
    MaxCommits = 2
    MaxFiles = 2
    MaxFaults = 2
    MaxChanges = 2
    Guards = {"none", "if TYPE_CHECKING", "else of TYPE_CHECKING"}
CHECK_DEADLOCK FALSE
INVARIANTS
    ImportsAreReal
    BugFixesAreModifications
    StoredResultsAreComplete
    ViewsAgree
    DeletedScanLeavesNothing
