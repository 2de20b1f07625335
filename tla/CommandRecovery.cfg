SPECIFICATION CommandSpec
CONSTANTS
    None = None
    Processes = {p1, p2}
    Callers = {c1, c2}
    Client = "wrapper"
    Commands = {"build"}
    Observations = {"success", "failed"}
    MaxRuns = 2
    Requests <- Bystanders
    LegacyRuns <- LegacyDatabase
SYMMETRY Symmetry
INVARIANTS
    OncePerProcess
    ReceiptsReportTheRecord
    AttributedToOwnRun
    RetriesAgree
    AnswersAreHistory
PROPERTIES
    HistorySpec
CHECK_DEADLOCK FALSE
