\* Promotion and extraction race on one item with a client that edits it and never stops.
SPECIFICATION FairSpec
CONSTANTS
    ItemIds = {m1}
    Contents = {c1, c2}
    Versions = {v1, v2}
    Clients = {client}
    Promoters = {promote}
    Extractors = {extract}
    MaxAttempts = 2
    None = None
INVARIANTS TypeOK MarkedWasTakenUp
PROPERTIES UpdatesAreAtomic TasksEnd
