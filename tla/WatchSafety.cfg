SPECIFICATION Spec
CONSTANTS
    Revisions = {r1, r2}
    Workers = {w1, w2}
    Creator = w1
    AlertSets <- EverythingOrOutages
    MaxSnapshots = 3
    MaxConfigs = 2
    None = None
SYMMETRY Symmetry
CONSTRAINT SnapshotsOrConfigs
INVARIANTS
    ConfigChain
    PreviousIsOlder
    AlertJustified
    AnnouncedOnceInOrder
CHECK_DEADLOCK FALSE
