SPECIFICATION Spec
CONSTANTS
    Edges <- Graph
    Advisories <- Revisions
    Events = {"E", "F"}
    Subjects = {"app"}
    Analyses <- Reports
    Workers = {w1, w2}
    Limit <- Bounds
    MaxRows = 3
    None = None
SYMMETRY Symmetry
CONSTRAINT Focus
INVARIANTS
    CompleteWalkIsExhaustive
    ExplanationKeepsPaths
    ChainIsOneEvent
    MoreEvidenceNeverFlips
CHECK_DEADLOCK FALSE
