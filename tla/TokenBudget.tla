---------------------------- MODULE TokenBudget -----------------------------
(***************************************************************************)
(* How the server cuts the messages of a session to a token budget         *)
(* (agent_memory_server/api.py): GET drops the oldest messages for a model *)
(* with a small context window, PUT replaces the older ones by a summary.  *)
(* Tokens are counted per message; the number of the code's counter or of  *)
(* its estimate is Size.                                                   *)
(***************************************************************************)
EXTENDS Naturals, Sequences

CONSTANTS
    Messages,
    Size,          \* Size[m]: tokens of message m
    DefaultLimit,  \* the context window when the client names no model
    SummaryBudget, \* tokens of messages that fit one summary
    CutSize,       \* tokens that are left of a message cut to fit a summary
    None

ASSUME BudgetAssumption ==
    /\ Size \in [Messages -> Nat \ {0}]
    /\ DefaultLimit \in Nat /\ SummaryBudget \in Nat /\ CutSize \in Nat
    /\ None \notin Nat /\ None \notin Messages

\* _get_effective_token_limit
EffectiveLimit(window) == IF window = None THEN DefaultLimit ELSE window

\* The tokens of ms, each message counted as cost says.
Total(ms, cost) ==
    LET sum[n \in 0 .. Len(ms)] == IF n = 0 THEN 0 ELSE sum[n - 1] + cost[ms[n]]
    IN  sum[Len(ms)]

Tokens(ms) == Total(ms, Size)

Oldest(ms, n) == SubSeq(ms, 1, n)
Newest(ms, n) == SubSeq(ms, Len(ms) - n + 1, Len(ms))

Largest(S) == CHOOSE n \in S : \A m \in S : m <= n

\* The newest messages that fit a limit, one of them even if it does not fit.
FittingCount(ms, limit) ==
    Largest({1} \cup {n \in 1 .. Len(ms) : Tokens(Newest(ms, n)) <= limit})

\* get_working_memory: what a client is told of ms.
Truncated(ms, window) ==
    IF ms = <<>> \/ window = None \/ Tokens(ms) <= window THEN ms
    ELSE Newest(ms, FittingCount(ms, window))

\* Mutant: with nothing that fits, no message is kept (messages[-0:] taken at its word).
KeptCountZero(ms, window) ==
    LET limit == (EffectiveLimit(window) * 4) \div 10
    IN  Largest({0} \cup {n \in 1 .. Len(ms) : Tokens(Newest(ms, n)) <= limit})

\* _summarize_working_memory keeps what fits 40% of the window.
KeptCount(ms, window) == FittingCount(ms, (EffectiveLimit(window) * 4) \div 10)

Older(ms, window) == Oldest(ms, Len(ms) - KeptCount(ms, window))

\* What a message takes of a summary's budget: all of it, or what is left after the cut.
SummaryCost == [m \in Messages |-> IF Size[m] > SummaryBudget THEN CutSize ELSE Size[m]]

\* The older messages go into the summary from the first on, up to one that does not fit.
SummarizedCount(ms, window) ==
    LET old == Older(ms, window)
    IN  Largest({n \in 0 .. Len(old) : Total(Oldest(old, n), SummaryCost) <= SummaryBudget})

\* Past settings.summarization_threshold, 70% of the window, and with something to summarize.
NeedsSummary(ms, window) ==
    /\ ms # <<>> /\ Tokens(ms) > (EffectiveLimit(window) * 7) \div 10
    /\ SummarizedCount(ms, window) > 0

Elements(ms) == {ms[k] : k \in DOMAIN ms}

\* The messages that PUT puts into the summary, and those it stores.
Summarized(ms, window) ==
    IF NeedsSummary(ms, window)
    THEN Elements(Oldest(Older(ms, window), SummarizedCount(ms, window))) ELSE {}
Stored(ms, window) ==
    IF NeedsSummary(ms, window) THEN Newest(ms, KeptCount(ms, window)) ELSE ms
=============================================================================
