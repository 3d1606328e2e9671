CONSTANTS
    Targets = {t1, t2}
    Actions = {send}
    InputActions = {send}
    ProgressActions = {send}
    Fingerprints = {f1, f2}
    Proposals <- OneFingerprint
    None = None
    Workers = {w1, w2}
    Identities = {i1}
    Sources = {s1}
    MaxCrashes = 1
    MaxFaults = 1
SPECIFICATION Spec
SYMMETRY Symmetric
PROPERTIES
    KeepsPromise
