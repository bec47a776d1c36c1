\* Runs of one view at the same time: failures, late workers, a crash, cancellations.
SPECIFICATION FairSpec
CONSTANTS
    Groups = {g1, g2}
    Memories = {m1, m2}
    GroupOf <- MCGroupOf
    Tasks = {t1}
    Execs = {e1, e2}
    PageSize = 1
    MaxVersion = 2
    MaxUpsets = 2
    NoTask = NoTask
    m1 = m1
    m2 = m2
    g1 = g1
    g2 = g2
INVARIANTS TypeOK SuccessIsFresh RunningHasExecution
PROPERTIES RequestsEnd
CHECK_DEADLOCK FALSE
