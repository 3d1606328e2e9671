CONSTANTS
    Targets = {t1}
    Actions = {send, wait}
    InputActions = {send}
    ProgressActions = {send}
    Fingerprints = {f1, f2}
    Proposals <- OneFingerprint
    None = None
    Workers = {w1, w2}
    Identities = {i1}
    Sources = {s1}
    MaxCrashes = 1
    MaxFaults = 2
SPECIFICATION Spec
SYMMETRY Symmetric
INVARIANTS
    TypeOK
    AtMostOnce
    OneOwner
    FailedMeansUnsent
    AttemptOnRecord
    OneVerdict
    ReportedIsDurable
    NoOrphanAtWork
    IInv
PROPERTIES
    NeverReopened
