\* One token, listed by its command line after it was added.
SPECIFICATION TokenSpec
CONSTANTS
    Tokens = {t1}
    Hashes = {h1, h2}
    Lifetimes = {0, 1}
    Admins = {a1, a2}
    Requests = {r1}
    MaxTime = 3
    NoHash = NoHash
INVARIANTS StoredIsListed
CHECK_DEADLOCK FALSE
