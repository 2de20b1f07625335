SPECIFICATION CommandSpec
CONSTANTS
    None = None
    Processes = {p1, p2}
    Callers = {c1, c2}
    Client = "wrapper"
    Commands = {"build"}
    Observations = {"success", "failed"}
    MaxRuns = 2
    Requests = {}
    LegacyRuns <- LegacyDatabase
SYMMETRY Symmetry
INVARIANT
    CommandRunsOnce
CHECK_DEADLOCK FALSE
