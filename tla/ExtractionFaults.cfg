\* A worker with failures, crashes and delays, a client that writes at any time.
SPECIFICATION Spec
CONSTANTS
    Msgs = {m1, m2, m3}
    Debounce = 2
    MaxRuns = 3
    UseDocket = TRUE
    CalmClient = FALSE
    ClientRewrites = FALSE
    Failures = TRUE
    Crashes = TRUE
    PromptWorker = FALSE
INVARIANTS TypeOK OnlyFailuresLoseMemories
PROPERTIES QuietPeriod
SYMMETRY Symmetry
CHECK_DEADLOCK FALSE
