SPECIFICATION FairSpec
CONSTANTS
    None = None
    Candidates = {c1}
    Revisions = {r1}
    Moving = {c1}
    Workers = {w1, w2}
    Mortal = {w1}
    Actors = {a1}
    SinkModes <- WatchOrNot
PROPERTIES ExportSpec ExportsComplete
CHECK_DEADLOCK FALSE
