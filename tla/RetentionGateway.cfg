SPECIFICATION Spec
CONSTANTS
    UploadSources = {u1, u2}
    GatewaySources = {g1}
    Digests = {d1}
    Procs = {p1, p2}
    MaxPolicyRev = 1
    None = None
INVARIANT
    GatewayReferenceHasBytes
CHECK_DEADLOCK FALSE
