CONSTANTS
    p1 = p1
    p2 = p2
    Proc = {p1, p2}
    NoOwner = NoOwner
    LockTtl = 1
    PartialRecordTtl = 0
    MaxFaults = 2
    MaxCrossings = 2
SPECIFICATION Spec
SYMMETRY ProcSymmetry
CONSTRAINTS LockIntact AutoSampled
INVARIANTS
    AtMostOneCrossing
    CrossingIsJournaled
    AuthorityPrecedesBoundary
    VerifiedMeansApplied
    ProjectionNeverAhead
PROPERTIES
    JournalKeepsBoundary
    ImplementsOneUse
