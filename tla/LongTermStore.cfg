\* Operations of every kind but "stray" one at a time, or two at once of those that may
\* overlap: compaction among them, or tasks that are delivered again when they are done.
\* Any step may fail, and a crash may repeat what was not acknowledged.
SPECIFICATION Spec
CONSTANTS
    Ids = {i1, i2, i3, i4}
    Facts = {f1, f2}
    Sessions = {none, s1}
    NoSession = none
    Ops = {o1, o2}
    Kinds = {"create", "overwrite", "compact", "patch", "mark", "access", "forget", "delete", "deleteInvalid"}
    Overlaps <- MCOverlaps
    OneCompaction = TRUE
    Failures = TRUE
    DeletesFinish = TRUE
    MaxCrashes = 1
    Absent = Absent
SYMMETRY Symmetry
INVARIANTS TypeOK NothingLost CuratedStaysPinned VectorTracksText
CHECK_DEADLOCK FALSE
