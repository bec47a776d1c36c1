\* A client that pauses while an extraction runs, and a prompt worker.
SPECIFICATION FairSpec
CONSTANTS
    Msgs = {m1, m2, m3}
    Debounce = 2
    MaxRuns = 4
    UseDocket = TRUE
    CalmClient = TRUE
    ClientRewrites = TRUE
    Failures = FALSE
    Crashes = FALSE
    PromptWorker = TRUE
INVARIANTS SkippedWasSuperseded
PROPERTIES EveryMessageExtracted
CHECK_DEADLOCK FALSE
