\* Two callers that migrate one session.
SPECIFICATION Spec
CONSTANTS
    Keys = {k1, k2, k3}
    Readers = {r1, r2}
    Servers = {s1}
    MaxVersion = 2
    BatchSize = 2
    Overlaps = TRUE
    BulkOverlaps = TRUE
    FirstScanFails = FALSE
    None = None
INVARIANTS CompleteMeansMigrated
CHECK_DEADLOCK FALSE
