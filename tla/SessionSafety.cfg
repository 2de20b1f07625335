SPECIFICATION Spec
CONSTANTS
    None = None
    Candidates = {c1, c2}
    Revisions = {r1}
    Moving = {}
    Workers = {w1, w2}
    Mortal = {w1, w2}
    Actors = {a1, a2}
    SinkModes <- AllOrNone
SYMMETRY Symmetry
CONSTRAINT OneModeOrCandidate
INVARIANT ClosedMeansExported
CHECK_DEADLOCK FALSE
