SPECIFICATION Spec
CONSTANTS
    None = None
    Objects = {"result", "fact", "note", "consumer"}
    RelationTypes = {"depends-on", "contradicts"}
    MaxDepth = 3
    MaxNodes = 4
    KindOf <- Kinds
    Revisable <- Changing
    NewRelations <- Coming
    NewPolicies <- Registered
    NewAssurances <- Assuring
    Requests <- Asked
    Callers = {c1, c2}
    RelationLimit = 3
    Starts <- AllStarts
    MaxReceipts = 1
    MaxReads = 40
SYMMETRY Symmetry
CONSTRAINT Focus
INVARIANTS ReceiptBasisHeldAtOnce FreshVerdictWasTrue AdmissibleIsGrounded
PROPERTY RevisionReachesReceipts
CHECK_DEADLOCK FALSE
