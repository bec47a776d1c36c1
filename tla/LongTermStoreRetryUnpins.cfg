\* A record posted again with its id, by a task that is delivered again.
SPECIFICATION Spec
CONSTANTS
    Ids = {i1}
    Facts = {f1}
    Sessions = {none}
    NoSession = none
    Ops = {o1}
    Kinds = {}
    Overlaps <- MCOverlapsAgain
    OneCompaction = TRUE
    Failures = FALSE
    DeletesFinish = FALSE
    MaxCrashes = 1
    Absent = Absent
INVARIANTS PinsAreKept
CHECK_DEADLOCK FALSE
