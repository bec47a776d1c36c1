\* A read error that a client takes for a missing session.
SPECIFICATION ClientsSpec
CONSTANTS
    Messages = {1, 2, 3}
    Size <- UnitSize
    DefaultLimit = 4
    SummaryBudget = 2
    CutSize = 1
    None = None
    Clients = {c1, c2}
    Memories = {x1}
    Paths <- TwoKeys
    Windows = {None, 2}
    Kinds = {"open", "append", "addMemory", "replaceMemories", "mergeData", "deepMerge", "replaceData", "setData", "rewrite"}
    ReadsFail = TRUE
    MaxCalls = 3
    MaxLate = 1
    Absent = Absent
    ToolSpaces = {n1, n2}
    ToolUsers = {u1}
    MaxReply = 2
    Unnamed = Unnamed
    Namespaces = {p1, p2}
    Users = {q1, q2}
    MaxMemories = 2
    Limit = 1
    Fronts = {"all", "tool", "next", "cli", "prompt"}
    Modes = {"semantic", "lexical", "recency", "listing", "list"}
    AnyOne = AnyOne
    Connections = {o1, o2}
    McpNamespaces = {n1, n2}
    McpUsers = {u1}
    MaxToolCalls = 2
    NoNamespace = NoNamespace
SYMMETRY Symmetry
INVARIANTS CreatesOnlyMissing
CHECK_DEADLOCK FALSE
