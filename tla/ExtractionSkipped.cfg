\* A message that arrives while the run before it is at work.
SPECIFICATION Spec
CONSTANTS
    Msgs = {m1, m2}
    Debounce = 2
    MaxRuns = 3
    UseDocket = TRUE
    CalmClient = FALSE
    ClientRewrites = FALSE
    Failures = FALSE
    Crashes = FALSE
    PromptWorker = TRUE
INVARIANTS SkippedWasSuperseded
CHECK_DEADLOCK FALSE
