SPECIFICATION FairSpec
CONSTANTS
    UploadSources = {u1}
    GatewaySources = {g1}
    Digests = {d1}
    Procs = {p1, p2}
    MaxPolicyRev = 2
    None = None
PROPERTY
    OperationsReturn
