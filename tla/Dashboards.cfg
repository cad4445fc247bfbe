SPECIFICATION Spec
CONSTANTS
    Ids <- ScanIds
    ProjectOf <- OfProject
    Analyses <- Found
    None = None
    HistoryLimit = 2
    PreviousCount = 1
    TopFileCount = 1
    TopDirectoryCount = 3
    PageSize = 1
    KpiPeriod = 1
    DayLength = 1
    TimelineDays = 1
    MaxTime = 1
    MaxUnsuccessful = 1
    IdsWhileRead = {2, 3, 4}
    StatusesWhileListed = {"pending", "running"}
CHECK_DEADLOCK FALSE
INVARIANTS TrendsAgree SummariesAgree CountedOnce GraphIsClosed
PROPERTY PagesMissNothing
