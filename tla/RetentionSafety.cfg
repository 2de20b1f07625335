SPECIFICATION Spec
CONSTANTS
    UploadSources = {u1, u2}
    GatewaySources = {g1}
    Digests = {d1}
    Procs = {p1, p2}
    MaxPolicyRev = 3
    None = None
CONSTRAINT GatewayOrEpochs
SYMMETRY Symmetry
INVARIANTS
    TypeOK
    ClaimedWriterHasBytes
    NeverPurgeableKept
PROPERTIES
    DeletionIsUnreferenced
    CustodySpec
    ReleaseNeverRevives
CHECK_DEADLOCK FALSE
